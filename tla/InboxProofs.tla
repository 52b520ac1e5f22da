---------------------------- MODULE InboxProofs ----------------------------
(***************************************************************************)
(* Theorems about Inbox, for any number of messages, conversations,        *)
(* workers and attempts, with and without merged bursts: the inductive     *)
(* invariant InboxInv, and from it that no message is dropped and that a   *)
(* conversation has one turn at a time; and, where bursts are not merged,  *)
(* OrderedInv, for the order of the answers, and LeasesEnd, for that no    *)
(* conversation is blocked for good.                                       *)
(***************************************************************************)
EXTENDS Inbox, WellFoundedInduction, TLAPS

\* TypeOK in three parts, by who owns the variables.
RowsTyped ==
  /\ status   \in [Msgs -> Statuses]
  /\ attempts \in [Msgs -> 0..MaxAttempts]
  /\ lease    \in [Msgs -> {"none", "live", "lapsed"}]
  /\ due      \in [Msgs -> BOOLEAN]
  /\ job      \in [Msgs -> {"none", "running", "settled"}]
  /\ spent    \in SUBSET Msgs

WorkersTyped ==
  /\ phase    \in [Workers -> Phases]
  /\ todo     \in [Workers -> SUBSET Msgs]
  /\ tries    \in [Workers -> [Msgs -> 0..MaxAttempts]]
  /\ anchor   \in [Workers -> Msgs \cup {0}]
  /\ group    \in [Workers -> SUBSET Msgs]
  /\ verdict  \in [Workers -> {"none", "processed", "failed"}]
  /\ draining \in [Workers -> BOOLEAN]
  /\ lock     \in [Conversations -> Workers \cup {None}]

TurnsTyped ==
  /\ inbounds \in SUBSET Msgs
  /\ reply    \in [Msgs -> Replies]
  /\ covers   \in [Msgs -> SUBSET Msgs]
  /\ silenced \in SUBSET Msgs

LEMMA TypeParts == TypeOK <=> RowsTyped /\ WorkersTyped /\ TurnsTyped
  BY DEF TypeOK, RowsTyped, WorkersTyped, TurnsTyped

LEMMA TypePartsNext == RowsTyped' /\ WorkersTyped' /\ TurnsTyped' => TypeOK'
  BY DEF TypeOK, RowsTyped, WorkersTyped, TurnsTyped

-----------------------------------------------------------------------------
(* What the shared pieces of the actions do to the types *)

\* A claim of rows with attempts left keeps the rows typed.
LEMMA LeaseTyping ==
  ASSUME RowsTyped, NEW rs \in SUBSET Msgs, NEW span \in {"none", "live", "lapsed"},
         \A r \in rs : attempts[r] < MaxAttempts,
         Lease(rs, span), job' = job
  PROVE  RowsTyped'
<1>1. attempts' \in [Msgs -> 0..MaxAttempts]
  BY InboxAssumption DEF Lease, RowsTyped
<1>2. status' \in [Msgs -> Statuses] /\ lease' \in [Msgs -> {"none", "live", "lapsed"}]
  BY DEF Lease, RowsTyped, Statuses
<1>3. due' \in [Msgs -> BOOLEAN]
  BY DEF Lease, RowsTyped
<1>4. spent' \in SUBSET Msgs
  BY DEF Lease, RowsTyped
<1> QED
  BY <1>1, <1>2, <1>3, <1>4 DEF RowsTyped

\* The attempts a worker remembers are attempts.
LEMMA RememberTyping ==
  ASSUME RowsTyped, NEW w \in Workers, NEW rs \in SUBSET Msgs,
         tries \in [Workers -> [Msgs -> 0..MaxAttempts]],
         \A r \in rs : attempts[r] < MaxAttempts,
         Remember(w, rs)
  PROVE  tries' \in [Workers -> [Msgs -> 0..MaxAttempts]]
<1>1. [r \in Msgs |-> IF r \in rs THEN attempts[r] + 1 ELSE 0] \in [Msgs -> 0..MaxAttempts]
  BY InboxAssumption DEF RowsTyped
<1> QED
  BY <1>1 DEF Remember

\* A worker that leaves keeps the workers typed.
LEMMA LeaveTyping ==
  ASSUME WorkersTyped, NEW w \in Workers, Leave(w),
         todo' \in [Workers -> SUBSET Msgs]
  PROVE  WorkersTyped'
<1>1. tries' \in [Workers -> [Msgs -> 0..MaxAttempts]]
  <2>1. tries[w] \in [Msgs -> 0..MaxAttempts]
    BY DEF WorkersTyped
  <2>2. [r \in Msgs |-> IF r \in todo'[w] THEN tries[w][r] ELSE 0] \in [Msgs -> 0..MaxAttempts]
    BY <2>1, InboxAssumption
  <2> QED
    BY <2>2 DEF Leave, WorkersTyped
<1>2. phase' \in [Workers -> Phases] /\ verdict' \in [Workers -> {"none", "processed", "failed"}]
  BY DEF Leave, WorkersTyped, Phases
<1>3. anchor' \in [Workers -> Msgs \cup {0}] /\ group' \in [Workers -> SUBSET Msgs]
  BY DEF Leave, WorkersTyped
<1>4. draining' \in [Workers -> BOOLEAN]
  BY DEF Leave, WorkersTyped
<1>5. lock' \in [Conversations -> Workers \cup {None}]
  BY DEF Leave, Unlocked, WorkersTyped
<1> QED
  BY <1>1, <1>2, <1>3, <1>4, <1>5 DEF WorkersTyped

\* A mark keeps the rows typed.
LEMMA MarkTyping ==
  ASSUME RowsTyped, NEW r \in Msgs, NEW v \in Statuses, SetMark(r, v),
         UNCHANGED <<attempts, job, spent>>
  PROVE  RowsTyped'
  BY DEF SetMark, RowsTyped

-----------------------------------------------------------------------------
(* Types *)

LEMMA InitTyped == Init => TypeOK
  BY InboxAssumption DEF Init, TypeOK, Statuses, Phases, Replies

LEMMA FollowupsAreRows ==
  ASSUME NEW w, NEW last PROVE Followups(w, last) \in SUBSET Msgs
  BY DEF Followups

LEMMA RowsStayTyped ==
  ASSUME InboxInv, Next PROVE RowsTyped'
<1> USE TypeParts DEF InboxInv
<1>1. CASE \E r \in Msgs : Enqueue(r) \/ LeaseExpires(r) \/ BackoffElapses(r) \/ JobSettles(r)
  <2> PICK r \in Msgs : Enqueue(r) \/ LeaseExpires(r) \/ BackoffElapses(r) \/ JobSettles(r)
    BY <1>1
  <2>1. CASE Enqueue(r)
    BY <2>1 DEF Enqueue, RowsTyped, Statuses
  <2>2. CASE LeaseExpires(r)
    BY <2>2 DEF LeaseExpires, RowsTyped
  <2>3. CASE BackoffElapses(r)
    BY <2>3 DEF BackoffElapses, RowsTyped
  <2>4. CASE JobSettles(r)
    BY <2>4 DEF JobSettles, RowsTyped
  <2> QED BY <2>1, <2>2, <2>3, <2>4
<1>2. CASE \E r \in Msgs : OutboxSettles(r)
  BY <1>2 DEF OutboxSettles, rowVars, RowsTyped
<1>3. ASSUME NEW w \in Workers, ClaimBatch(w) PROVE RowsTyped'
  <2>1. PICK rs \in SUBSET {r \in Msgs : Claimable(r)} : Lease(rs, "live")
    BY <1>3 DEF ClaimBatch
  <2>2. \A r \in rs : attempts[r] < MaxAttempts
    BY <2>1, InboxAssumption DEF Claimable, Exhausted, RowsTyped
  <2> QED BY <1>3, <2>1, <2>2, LeaseTyping DEF ClaimBatch
<1>4. ASSUME NEW w \in Workers, NEW r \in Msgs, DrainClaim(w, r) PROVE RowsTyped'
  <2>1. attempts[r] < MaxAttempts
    BY <1>4, InboxAssumption DEF DrainClaim, Claimable, Exhausted, RowsTyped
  <2> QED BY <1>4, <2>1, LeaseTyping DEF DrainClaim
<1>5. ASSUME NEW w \in Workers, MergeBurst(w) PROVE RowsTyped'
  <2>1. PICK last \in Msgs : Lease(Followups(w, last), lease[anchor[w]])
    BY <1>5 DEF MergeBurst
  <2>2. \A r \in Followups(w, last) : attempts[r] < MaxAttempts
    BY DEF Followups, WaitingIsUnseen
  <2>3. lease[anchor[w]] \in {"none", "live", "lapsed"}
    BY <1>5 DEF MergeBurst, GroupAroundAnchor, RowsTyped
  <2> QED
    BY <1>5, <2>1, <2>2, <2>3, LeaseTyping, FollowupsAreRows DEF MergeBurst
<1>6. ASSUME NEW w \in Workers, Mark(w) PROVE RowsTyped'
  <2>1. PICK r \in group[w] : SetMark(r, verdict[w])
    BY <1>6 DEF Mark
  <2>2. r \in Msgs /\ verdict[w] \in Statuses
    BY <1>6 DEF Mark, WorkersTyped, Statuses, GroupAroundAnchor
  <2> QED BY <1>6, <2>1, <2>2, MarkTyping DEF Mark
<1>7. ASSUME NEW w \in Workers, Raise(w) PROVE RowsTyped'
  <2>1. CASE draining[w]
    BY <1>7, <2>1 DEF Raise, RowsTyped
  <2>2. CASE ~draining[w]
    <3>1. PICK v \in {"dead", "failed"} : SetMark(anchor[w], v)
      BY <1>7, <2>2 DEF Raise
    <3>2. anchor[w] \in Msgs
      BY <1>7 DEF Raise, GroupAroundAnchor
    <3> QED BY <1>7, <3>1, <3>2, MarkTyping DEF Raise, Statuses
  <2> QED BY <2>1, <2>2
<1>8. ASSUME NEW w \in Workers, Defer(w) PROVE RowsTyped'
  <2>1. attempts' \in [Msgs -> 0..MaxAttempts]
    BY <1>8, InboxAssumption DEF Defer, RowsTyped
  <2>2. status' \in [Msgs -> Statuses] /\ lease' \in [Msgs -> {"none", "live", "lapsed"}]
    BY <1>8 DEF Defer, RowsTyped, Statuses
  <2>3. job' \in [Msgs -> {"none", "running", "settled"}]
    BY <1>8 DEF Defer, RowsTyped
  <2> QED BY <1>8, <2>1, <2>2, <2>3 DEF Defer, RowsTyped
<1>9. ASSUME NEW w \in Workers,
             PickRow(w) \/ AcquireLock(w) \/ Silence(w) \/ ClaimInbound(w)
             \/ Accept(w) \/ Dispatch(w) \/ Crash(w)
      PROVE  RowsTyped'
  <2>1. UNCHANGED rowVars
    BY <1>9 DEF PickRow, AcquireLock, Silence, ClaimInbound, Accept, Dispatch, Crash,
                Conclude, Proceed
  <2> QED BY <2>1 DEF rowVars, RowsTyped
<1> QED
  BY <1>1, <1>2, <1>3, <1>4, <1>5, <1>6, <1>7, <1>8, <1>9 DEF Next, TurnStep

LEMMA WorkersStayTyped ==
  ASSUME InboxInv, Next PROVE WorkersTyped'
<1> USE TypeParts DEF InboxInv
<1>1. CASE \E r \in Msgs : Enqueue(r) \/ LeaseExpires(r) \/ BackoffElapses(r)
                           \/ JobSettles(r) \/ OutboxSettles(r)
  BY <1>1 DEF Enqueue, LeaseExpires, BackoffElapses, JobSettles, OutboxSettles,
              workVars, WorkersTyped
<1>2. ASSUME NEW w \in Workers, ClaimBatch(w) PROVE WorkersTyped'
  <2>1. PICK rs \in SUBSET {r \in Msgs : Claimable(r)} :
          Remember(w, rs) /\ todo' = [todo EXCEPT ![w] = rs]
    BY <1>2 DEF ClaimBatch
  <2>2. \A r \in rs : attempts[r] < MaxAttempts
    BY <2>1, InboxAssumption DEF Claimable, Exhausted, RowsTyped
  <2>3. tries' \in [Workers -> [Msgs -> 0..MaxAttempts]]
    BY <2>1, <2>2, RememberTyping DEF WorkersTyped
  <2> QED BY <1>2, <2>1, <2>3 DEF ClaimBatch, WorkersTyped
<1>3. ASSUME NEW w \in Workers, NEW r \in Msgs, DrainClaim(w, r) PROVE WorkersTyped'
  <2>1. attempts[r] < MaxAttempts
    BY <1>3, InboxAssumption DEF DrainClaim, Claimable, Exhausted, RowsTyped
  <2>2. tries' \in [Workers -> [Msgs -> 0..MaxAttempts]]
    BY <1>3, <2>1, RememberTyping DEF DrainClaim, WorkersTyped
  <2>3. lock' \in [Conversations -> Workers \cup {None}]
    BY <1>3 DEF DrainClaim, WorkersTyped
  <2> QED BY <1>3, <2>2, <2>3 DEF DrainClaim, WorkersTyped, Phases
<1>4. ASSUME NEW w \in Workers, PickRow(w) PROVE WorkersTyped'
  BY <1>4 DEF PickRow, WorkersTyped, Phases
<1>5. ASSUME NEW w \in Workers, AcquireLock(w) PROVE WorkersTyped'
  BY <1>5 DEF AcquireLock, WorkersTyped, Phases
<1>6. ASSUME NEW w \in Workers, MergeBurst(w) PROVE WorkersTyped'
  <2>1. PICK last \in Msgs : group' = [group EXCEPT ![w] = @ \cup Followups(w, last)]
    BY <1>6 DEF MergeBurst
  <2>2. group' \in [Workers -> SUBSET Msgs]
    BY <2>1, FollowupsAreRows DEF WorkersTyped
  <2> QED BY <1>6, <2>2 DEF MergeBurst, WorkersTyped, Phases
<1>7. ASSUME NEW w \in Workers, Silence(w) \/ ClaimInbound(w) \/ Accept(w) \/ Dispatch(w)
      PROVE  WorkersTyped'
  <2>1. (\E v \in {"processed", "failed"} : Conclude(w, v))
        \/ (\E p \in {"claimed", "accepted"} : Proceed(w, p))
    BY <1>7 DEF Silence, ClaimInbound, Accept, Dispatch
  <2> QED BY <2>1 DEF Conclude, Proceed, WorkersTyped, Phases
<1>8. ASSUME NEW w \in Workers, Mark(w) PROVE WorkersTyped'
  <2>1. todo' \in [Workers -> SUBSET Msgs]
    BY <1>8 DEF Mark, WorkersTyped
  <2>2. CASE Leave(w)
    BY <2>1, <2>2, LeaveTyping
  <2>3. CASE ~Leave(w)
    <3>1. PICK r \in Msgs : group' = [group EXCEPT ![w] = @ \ {r}]
      BY <1>8, <2>3 DEF Mark, WorkersTyped
    <3>2. group' \in [Workers -> SUBSET Msgs]
      BY <3>1 DEF WorkersTyped
    <3> QED BY <1>8, <2>3, <3>2 DEF Mark, WorkersTyped
  <2> QED BY <2>2, <2>3
<1>9. ASSUME NEW w \in Workers, Defer(w) \/ Raise(w) \/ Crash(w) PROVE WorkersTyped'
  <2>1. Leave(w) /\ todo' \in [Workers -> SUBSET Msgs]
    BY <1>9 DEF Defer, Raise, Crash, WorkersTyped
  <2> QED BY <2>1, LeaveTyping
<1> QED
  BY <1>1, <1>2, <1>3, <1>4, <1>5, <1>6, <1>7, <1>8, <1>9 DEF Next, TurnStep

LEMMA TurnsStayTyped ==
  ASSUME InboxInv, Next PROVE TurnsTyped'
<1> USE TypeParts DEF InboxInv
<1>1. CASE UNCHANGED turnVars
  BY <1>1 DEF turnVars, TurnsTyped
<1>2. ASSUME NEW m \in Msgs, OutboxSettles(m) PROVE TurnsTyped'
  BY <1>2 DEF OutboxSettles, TurnsTyped, Replies
<1>3. ASSUME NEW w \in Workers, Silence(w) PROVE TurnsTyped'
  BY <1>3 DEF Silence, TurnsTyped, WorkersTyped
<1>4. ASSUME NEW w \in Workers, ClaimInbound(w) PROVE TurnsTyped'
  BY <1>4 DEF ClaimInbound, TurnsTyped
<1>5. ASSUME NEW w \in Workers, Accept(w) PROVE TurnsTyped'
  BY <1>5 DEF Accept, TurnsTyped, WorkersTyped, Replies
<1>6. ASSUME NEW w \in Workers, Dispatch(w) PROVE TurnsTyped'
  BY <1>6 DEF Dispatch, TurnsTyped, Replies
<1> QED
  BY <1>1, <1>2, <1>3, <1>4, <1>5, <1>6
     DEF Next, TurnStep, Enqueue, LeaseExpires, BackoffElapses, JobSettles, ClaimBatch,
         PickRow, AcquireLock, DrainClaim, MergeBurst, Mark, Defer, Raise, Crash, turnVars

-----------------------------------------------------------------------------
(* The lock and the groups *)

\* A worker that leaves disturbs no other worker's hold on a conversation.
LEMMA LeaveKeepsLocks ==
  ASSUME WorkersTyped, HoldsLock, GroupAroundAnchor, NEW w \in Workers, Leave(w)
  PROVE  HoldsLock'
<1> SUFFICES ASSUME NEW v \in Workers, InTurn(v)' PROVE lock'[Conv[anchor'[v]]] = v
  BY DEF HoldsLock
<1>1. v # w /\ InTurn(v) /\ anchor'[v] = anchor[v]
  BY DEF Leave, InTurn, WorkersTyped
<1>2. anchor[v] \in Msgs /\ Conv[anchor[v]] \in Conversations
  BY <1>1, InboxAssumption DEF GroupAroundAnchor, InTurn
<1> QED BY <1>1, <1>2 DEF HoldsLock, Leave, Unlocked

LEMMA LocksStayHeld ==
  ASSUME InboxInv, Next PROVE HoldsLock'
<1> USE TypeParts DEF InboxInv
<1>1. CASE UNCHANGED <<phase, anchor, lock>>
  BY <1>1 DEF HoldsLock, InTurn
<1>2. ASSUME NEW w \in Workers, PickRow(w) PROVE HoldsLock'
  BY <1>2 DEF PickRow, HoldsLock, InTurn, WorkersTyped
<1>3. ASSUME NEW w \in Workers, AcquireLock(w) PROVE HoldsLock'
  <2>1. anchor[w] \in Msgs /\ Conv[anchor[w]] \in Conversations
    BY <1>3, InboxAssumption DEF AcquireLock, GroupAroundAnchor
  <2> QED BY <1>3, <2>1, InboxAssumption DEF AcquireLock, HoldsLock, InTurn, WorkersTyped
<1>4. ASSUME NEW w \in Workers, NEW r \in Msgs, DrainClaim(w, r) PROVE HoldsLock'
  <2>1. Conv[r] \in Conversations
    BY InboxAssumption
  <2> QED BY <1>4, <2>1, InboxAssumption DEF DrainClaim, HoldsLock, InTurn, WorkersTyped
<1>5. ASSUME NEW w \in Workers, Leave(w) PROVE HoldsLock'
  BY <1>5, LeaveKeepsLocks
<1>6. ASSUME NEW w \in Workers, NEW p \in {"merged", "claimed", "accepted", "marking"},
             InTurn(w), phase' = [phase EXCEPT ![w] = p], UNCHANGED <<anchor, lock>>
      PROVE  HoldsLock'
  BY <1>6 DEF HoldsLock, InTurn, WorkersTyped
<1>7. ASSUME NEW w \in Workers, Silence(w) \/ ClaimInbound(w) \/ Accept(w) \/ Dispatch(w)
      PROVE  HoldsLock'
  BY <1>7, <1>6 DEF Silence, ClaimInbound, Accept, Dispatch, Conclude, Proceed, InTurn
<1>8. ASSUME NEW w \in Workers, MergeBurst(w) PROVE HoldsLock'
  BY <1>8, <1>6 DEF MergeBurst, InTurn
<1>9. ASSUME NEW w \in Workers, Mark(w) PROVE HoldsLock'
  BY <1>9, <1>1, <1>5 DEF Mark
<1> QED
  BY <1>1, <1>2, <1>3, <1>4, <1>5, <1>7, <1>8, <1>9
     DEF Next, TurnStep, Enqueue, LeaseExpires, BackoffElapses, JobSettles,
         OutboxSettles, ClaimBatch, Defer, Raise, Crash, workVars

LEMMA GroupsStayAround ==
  ASSUME InboxInv, Next PROVE GroupAroundAnchor'
<1> USE TypeParts DEF InboxInv
<1>m. merge' = merge
  BY DEF Next
<1> USE <1>m
<1>1. CASE UNCHANGED <<phase, anchor, group, verdict>>
  BY <1>1 DEF GroupAroundAnchor
<1>2. ASSUME NEW w \in Workers, Leave(w) PROVE GroupAroundAnchor'
  BY <1>2 DEF Leave, GroupAroundAnchor, WorkersTyped
<1>3. ASSUME NEW w \in Workers, NEW r \in Msgs, NEW p \in {"waiting", "locked"},
             phase' = [phase EXCEPT ![w] = p], anchor' = [anchor EXCEPT ![w] = r],
             group' = [group EXCEPT ![w] = {r}], UNCHANGED verdict
      PROVE  GroupAroundAnchor'
  BY <1>3 DEF GroupAroundAnchor, WorkersTyped, Msgs
<1>4. ASSUME NEW w \in Workers, PickRow(w) PROVE GroupAroundAnchor'
  BY <1>4, <1>3 DEF PickRow, WorkersTyped
<1>5. ASSUME NEW w \in Workers, NEW r \in Msgs, DrainClaim(w, r) PROVE GroupAroundAnchor'
  BY <1>5, <1>3 DEF DrainClaim
<1>6. ASSUME NEW w \in Workers, AcquireLock(w) PROVE GroupAroundAnchor'
  BY <1>6 DEF AcquireLock, GroupAroundAnchor, WorkersTyped
<1>7. ASSUME NEW w \in Workers, MergeBurst(w) PROVE GroupAroundAnchor'
  <2>1. PICK last \in Msgs : group' = [group EXCEPT ![w] = @ \cup Followups(w, last)]
    BY <1>7 DEF MergeBurst
  <2>2. \A r \in Followups(w, last) : Conv[r] = Conv[anchor[w]] /\ anchor[w] < r /\ merge
    BY DEF Followups
  <2>3. anchor[w] \in Msgs
    BY <1>7 DEF MergeBurst, GroupAroundAnchor
  <2>4. \A r \in group'[w] : Conv[r] = Conv[anchor[w]] /\ anchor[w] <= r
                             /\ (r = anchor[w] \/ merge)
    <3> SUFFICES ASSUME NEW r \in group'[w]
                 PROVE  Conv[r] = Conv[anchor[w]] /\ anchor[w] <= r
                        /\ (r = anchor[w] \/ merge)
      OBVIOUS
    <3>1. r \in group[w] \/ r \in Followups(w, last)
      BY <2>1 DEF WorkersTyped
    <3>2. CASE r \in group[w]
      BY <3>2 DEF GroupAroundAnchor
    <3>3. CASE r \in Followups(w, last)
      BY <2>2, <2>3, <3>3, FollowupsAreRows, InboxAssumption DEF Msgs
    <3> QED BY <3>1, <3>2, <3>3
  <2> QED BY <1>7, <2>1, <2>3, <2>4 DEF MergeBurst, GroupAroundAnchor, WorkersTyped
<1>8. ASSUME NEW w \in Workers, Silence(w) \/ ClaimInbound(w) \/ Accept(w) \/ Dispatch(w)
      PROVE  GroupAroundAnchor'
  <2>1. \/ \E v \in {"processed", "failed"} : Conclude(w, v)
        \/ \E p \in {"claimed", "accepted"} : Proceed(w, p)
    BY <1>8 DEF Silence, ClaimInbound, Accept, Dispatch
  <2>2. InTurn(w)
    BY <1>8 DEF Silence, ClaimInbound, Accept, Dispatch, InTurn
  <2>3. phase[w] # "marking"
    BY <1>8 DEF Silence, ClaimInbound, Accept, Dispatch
  <2> QED BY <2>1, <2>2, <2>3 DEF Conclude, Proceed, GroupAroundAnchor, WorkersTyped, InTurn
<1>9. ASSUME NEW w \in Workers, Mark(w) PROVE GroupAroundAnchor'
  <2>1. CASE Leave(w)
    BY <1>2, <2>1
  <2>2. CASE ~Leave(w)
    <3>1. PICK r \in Msgs : group' = [group EXCEPT ![w] = @ \ {r}]
      BY <1>9, <2>2 DEF Mark, WorkersTyped
    <3>2. UNCHANGED <<phase, anchor, verdict>> /\ phase[w] = "marking"
      BY <1>9, <2>2 DEF Mark
    <3> QED BY <3>1, <3>2 DEF GroupAroundAnchor, WorkersTyped
  <2> QED BY <2>1, <2>2
<1> QED
  BY <1>1, <1>2, <1>4, <1>5, <1>6, <1>7, <1>8, <1>9
     DEF Next, TurnStep, Enqueue, LeaseExpires, BackoffElapses, JobSettles,
         OutboxSettles, ClaimBatch, Defer, Raise, Crash, workVars

-----------------------------------------------------------------------------
(* Msgs that wait *)

\* Msgs keep waiting unseen when no row starts to wait and no worker, no
\* turn takes one that does.
LEMMA WaitingFrame ==
  ASSUME WaitingIsUnseen, merge' = merge, NEW seen \in SUBSET Msgs,
         \A r \in Msgs : status'[r] \in {"absent", "pending"} =>
           r \notin seen /\ status[r] \in {"absent", "pending"} /\ attempts'[r] = attempts[r],
         \A w \in Workers : group'[w] \cup todo'[w] \subseteq group[w] \cup todo[w] \cup seen,
         merge => \A r \in Msgs : reply'[r] = reply[r] \/ reply[r] # "none" \/ r \in seen
  PROVE  WaitingIsUnseen'
<1> SUFFICES ASSUME NEW r \in Msgs, status'[r] \in {"absent", "pending"}
             PROVE  /\ attempts'[r] < MaxAttempts
                    /\ merge => /\ reply'[r] = "none"
                                /\ \A w \in Workers : r \notin group'[w] \cup todo'[w]
  BY DEF WaitingIsUnseen
<1>1. r \notin seen /\ status[r] \in {"absent", "pending"} /\ attempts'[r] = attempts[r]
  OBVIOUS
<1> QED BY <1>1 DEF WaitingIsUnseen

\* ... in particular when nothing is taken at all.
LEMMA WaitingRest ==
  ASSUME WaitingIsUnseen, merge' = merge,
         \A r \in Msgs : status'[r] \in {"absent", "pending"} =>
           status[r] \in {"absent", "pending"} /\ attempts'[r] = attempts[r],
         \A w \in Workers : group'[w] \cup todo'[w] \subseteq group[w] \cup todo[w],
         \A r \in Msgs : reply'[r] = reply[r] \/ reply[r] # "none"
  PROVE  WaitingIsUnseen'
<1> SUFFICES ASSUME NEW r \in Msgs, status'[r] \in {"absent", "pending"}
             PROVE  /\ attempts'[r] < MaxAttempts
                    /\ merge => /\ reply'[r] = "none"
                                /\ \A w \in Workers : r \notin group'[w] \cup todo'[w]
  BY DEF WaitingIsUnseen
<1>1. status[r] \in {"absent", "pending"} /\ attempts'[r] = attempts[r]
  OBVIOUS
<1> QED BY <1>1 DEF WaitingIsUnseen

\* A claim of rows leaves none of them waiting.
LEMMA LeasedDoNotWait ==
  ASSUME RowsTyped, NEW rs \in SUBSET Msgs, NEW span, Lease(rs, span)
  PROVE  \A r \in Msgs : status'[r] \in {"absent", "pending"} =>
           r \notin rs /\ status[r] \in {"absent", "pending"} /\ attempts'[r] = attempts[r]
  BY DEF Lease, RowsTyped

LEMMA WaitingStaysUnseen ==
  ASSUME InboxInv, Next PROVE WaitingIsUnseen'
<1> USE TypeParts DEF InboxInv
<1>m. merge' = merge
  BY DEF Next
<1> USE <1>m
<1>1. ASSUME NEW r \in Msgs, Enqueue(r) PROVE WaitingIsUnseen'
  BY <1>1 DEF Enqueue, WaitingIsUnseen, RowsTyped, workVars, turnVars
<1>2. CASE \E r \in Msgs : LeaseExpires(r) \/ BackoffElapses(r) \/ JobSettles(r)
  BY <1>2 DEF LeaseExpires, BackoffElapses, JobSettles, WaitingIsUnseen, workVars, turnVars
<1>3. ASSUME NEW m \in Msgs, OutboxSettles(m) PROVE WaitingIsUnseen'
  BY <1>3 DEF OutboxSettles, WaitingIsUnseen, TurnsTyped, rowVars, workVars
<1>4. ASSUME NEW w \in Workers, ClaimBatch(w) PROVE WaitingIsUnseen'
  <2>1. PICK rs \in SUBSET Msgs : Lease(rs, "live") /\ todo' = [todo EXCEPT ![w] = rs]
    BY <1>4 DEF ClaimBatch
  <2>2. UNCHANGED <<group, reply>>
    BY <1>4 DEF ClaimBatch, turnVars
  <2>3. \A v \in Workers : group'[v] \cup todo'[v] \subseteq group[v] \cup todo[v] \cup rs
    BY <2>1, <2>2 DEF WorkersTyped
  <2> QED BY <2>1, <2>2, <2>3, LeasedDoNotWait, WaitingFrame
<1>5. ASSUME NEW w \in Workers, NEW r \in Msgs, DrainClaim(w, r) PROVE WaitingIsUnseen'
  <2>1. Lease({r}, "live") /\ group' = [group EXCEPT ![w] = {r}] /\ UNCHANGED <<todo, reply>>
    BY <1>5 DEF DrainClaim, turnVars
  <2>2. \A v \in Workers : group'[v] \cup todo'[v] \subseteq group[v] \cup todo[v] \cup {r}
    BY <2>1 DEF WorkersTyped
  <2> QED BY <2>1, <2>2, LeasedDoNotWait, WaitingFrame
<1>6. ASSUME NEW w \in Workers, MergeBurst(w) PROVE WaitingIsUnseen'
  <2>1. PICK rs \in SUBSET Msgs, span \in {"none", "live", "lapsed"} :
          Lease(rs, span) /\ group' = [group EXCEPT ![w] = @ \cup rs]
    BY <1>6, FollowupsAreRows DEF MergeBurst, GroupAroundAnchor, RowsTyped
  <2>2. UNCHANGED <<todo, reply>>
    BY <1>6 DEF MergeBurst, turnVars
  <2>3. \A v \in Workers : group'[v] \cup todo'[v] \subseteq group[v] \cup todo[v] \cup rs
    BY <2>1, <2>2 DEF WorkersTyped
  <2> QED BY <2>1, <2>2, <2>3, LeasedDoNotWait, WaitingFrame
<1>7. ASSUME NEW w \in Workers, PickRow(w) PROVE WaitingIsUnseen'
  <2>1. PICK r \in todo[w] : /\ todo' = [todo EXCEPT ![w] = @ \ {r}]
                             /\ group' = [group EXCEPT ![w] = {r}]
    BY <1>7 DEF PickRow
  <2>2. UNCHANGED <<status, attempts, reply>>
    BY <1>7 DEF PickRow, rowVars, turnVars
  <2>3. \A v \in Workers : group'[v] \cup todo'[v] \subseteq group[v] \cup todo[v] 
    BY <2>1 DEF WorkersTyped
  <2> QED BY <2>2, <2>3, WaitingRest
<1>8. ASSUME NEW w \in Workers, Accept(w) PROVE WaitingIsUnseen'
  <2>1. PICK m \in group[w] : \A r \in Msgs : reply'[r] = reply[r] \/ r = m
    BY <1>8 DEF Accept, TurnId, TurnsTyped
  <2>2. UNCHANGED <<status, attempts, group, todo>>
    BY <1>8 DEF Accept, Conclude, Proceed, rowVars
  <2> QED BY <2>1, <2>2 DEF WaitingIsUnseen, WorkersTyped
<1>9. ASSUME NEW w \in Workers, Dispatch(w) PROVE WaitingIsUnseen'
  <2>1. UNCHANGED <<status, attempts, group, todo>>
    BY <1>9 DEF Dispatch, Conclude, rowVars
  <2>2. \A r \in Msgs : reply'[r] = reply[r] \/ reply[r] # "none"
    BY <1>9 DEF Dispatch, TurnsTyped
  <2> QED BY <2>1, <2>2, WaitingRest
<1>10. ASSUME NEW w \in Workers, AcquireLock(w) \/ Silence(w) \/ ClaimInbound(w) PROVE WaitingIsUnseen'
  <2>1. UNCHANGED <<status, attempts, group, todo, reply>>
    BY <1>10 DEF AcquireLock, Silence, ClaimInbound, Conclude, Proceed, rowVars, turnVars
  <2> QED BY <2>1 DEF WaitingIsUnseen
<1>11. ASSUME NEW w \in Workers, NEW r \in Msgs, NEW v \in {"processed", "failed", "dead"},
              SetMark(r, v), UNCHANGED <<attempts, reply, todo>>,
              \A u \in Workers : group'[u] \subseteq group[u]
       PROVE  WaitingIsUnseen'
  <2>1. \A q \in Msgs : status'[q] \in {"absent", "pending"} => status[q] \in {"absent", "pending"}
    BY <1>11 DEF SetMark, RowsTyped
  <2> QED BY <1>11, <2>1, WaitingRest
<1>12. ASSUME NEW w \in Workers, Mark(w) PROVE WaitingIsUnseen'
  <2>1. PICK r \in Msgs : SetMark(r, verdict[w])
    BY <1>12 DEF Mark, WorkersTyped
  <2>2. verdict[w] \in {"processed", "failed", "dead"}
    BY <1>12 DEF Mark, WorkersTyped, GroupAroundAnchor
  <2>3. UNCHANGED <<attempts, reply, todo>>
    BY <1>12 DEF Mark, turnVars
  <2>4. \A u \in Workers : group'[u] \subseteq group[u]
    BY <1>12 DEF Mark, Leave, WorkersTyped
  <2> QED BY <1>11, <2>1, <2>2, <2>3, <2>4
<1>13. ASSUME NEW w \in Workers, Leave(w) PROVE \A u \in Workers : group'[u] \subseteq group[u]
  BY <1>13 DEF Leave, WorkersTyped
<1>14. ASSUME NEW w \in Workers, Raise(w) PROVE WaitingIsUnseen'
  <2>1. UNCHANGED <<attempts, reply, todo>> /\ anchor[w] \in Msgs /\ Leave(w)
    BY <1>14 DEF Raise, turnVars, GroupAroundAnchor
  <2>2. CASE draining[w]
    BY <1>14, <1>13, <2>1, <2>2, WaitingRest DEF Raise
  <2>3. CASE ~draining[w]
    <3>1. PICK v \in {"processed", "failed", "dead"} : SetMark(anchor[w], v)
      BY <1>14, <2>3 DEF Raise
    <3> QED BY <1>11, <1>13, <2>1, <3>1
  <2> QED BY <2>2, <2>3
<1>15. ASSUME NEW w \in Workers, Crash(w) PROVE WaitingIsUnseen'
  <2>1. UNCHANGED <<status, attempts, reply>> /\ Leave(w)
    BY <1>15 DEF Crash, rowVars, turnVars
  <2>2. \A u \in Workers : todo'[u] \subseteq todo[u]
    BY <1>15 DEF Crash, WorkersTyped
  <2>3. \A u \in Workers : group'[u] \cup todo'[u] \subseteq group[u] \cup todo[u] 
    BY <1>13, <2>1, <2>2
  <2> QED BY <2>1, <2>3, WaitingRest
<1>16. ASSUME NEW w \in Workers, Defer(w) PROVE WaitingIsUnseen'
  <2>1. ~merge
    BY <1>16 DEF Defer
  <2>2. ASSUME NEW r \in Msgs, status'[r] \in {"absent", "pending"}
        PROVE  attempts'[r] < MaxAttempts
    <3>1. CASE r \in group[w] /\ status[r] = "leased"
      BY <1>16, <2>2, <3>1, InboxAssumption DEF Defer, RowsTyped
    <3>2. CASE ~(r \in group[w] /\ status[r] = "leased")
      BY <1>16, <2>2, <3>2 DEF Defer, RowsTyped, WaitingIsUnseen
    <3> QED BY <3>1, <3>2
  <2> QED BY <2>1, <2>2 DEF WaitingIsUnseen
<1> QED
  BY <1>1, <1>2, <1>3, <1>4, <1>5, <1>6, <1>7, <1>8, <1>9, <1>10, <1>12, <1>14, <1>15, <1>16
     DEF Next, TurnStep

-----------------------------------------------------------------------------
(* Turns *)

\* Two workers in turns of the same conversation are the same worker.
LEMMA LockIsExclusive ==
  ASSUME HoldsLock, NEW v \in Workers, NEW w \in Workers, InTurn(v), InTurn(w),
         Conv[anchor[v]] = Conv[anchor[w]]
  PROVE  v = w
  BY DEF HoldsLock

LEMMA MergedTurnsStayNew ==
  ASSUME InboxInv, Next PROVE MergedTurnIsNew'
<1> USE TypeParts DEF InboxInv
<1>1. ASSUME \A v \in Workers : phase'[v] \in {"merged", "claimed"} =>
               /\ phase[v] \in {"merged", "claimed"}
               /\ anchor'[v] = anchor[v] /\ group'[v] = group[v],
             \A m \in Msgs : reply'[m] = reply[m] \/ reply[m] # "none"
      PROVE  MergedTurnIsNew'
  BY <1>1 DEF MergedTurnIsNew, TurnId
<1>2. CASE \E r \in Msgs : Enqueue(r) \/ LeaseExpires(r) \/ BackoffElapses(r)
                           \/ JobSettles(r) \/ OutboxSettles(r)
  BY <1>1, <1>2 DEF Enqueue, LeaseExpires, BackoffElapses, JobSettles, OutboxSettles,
                    workVars, turnVars, TurnsTyped
<1>3. ASSUME NEW w \in Workers, ClaimBatch(w) \/ PickRow(w) \/ AcquireLock(w)
                                \/ (\E r \in Msgs : DrainClaim(w, r))
      PROVE  MergedTurnIsNew'
  <2>1. UNCHANGED reply
    BY <1>3 DEF ClaimBatch, PickRow, AcquireLock, DrainClaim, turnVars
  <2>2. \A v \in Workers : phase'[v] \in {"merged", "claimed"} =>
          phase[v] \in {"merged", "claimed"} /\ anchor'[v] = anchor[v] /\ group'[v] = group[v]
    BY <1>3 DEF ClaimBatch, PickRow, AcquireLock, DrainClaim, WorkersTyped
  <2> QED BY <1>1, <2>1, <2>2
<1>4. ASSUME NEW w \in Workers, MergeBurst(w) PROVE MergedTurnIsNew'
  <2> SUFFICES ASSUME NEW v \in Workers, phase'[v] \in {"merged", "claimed"},
                      NEW m \in Msgs, TurnId(v, m)', m # anchor'[v]
               PROVE  reply'[m] = "none"
    BY DEF MergedTurnIsNew
  <2>1. UNCHANGED <<anchor, reply>>
    BY <1>4 DEF MergeBurst, turnVars
  <2>2. CASE v = w
    <3>1. PICK last \in Msgs : group' = [group EXCEPT ![w] = @ \cup Followups(w, last)]
      BY <1>4 DEF MergeBurst
    <3>2. group[w] = {anchor[w]}
      BY <1>4 DEF MergeBurst, GroupAroundAnchor
    <3>3. m \in Followups(w, last)
      BY <2>1, <2>2, <3>1, <3>2 DEF TurnId, WorkersTyped
    <3>4. merge /\ status[m] = "pending"
      BY <3>3 DEF Followups
    <3> QED BY <2>1, <3>4 DEF WaitingIsUnseen
  <2>3. CASE v # w
    <3>1. phase'[v] = phase[v] /\ group'[v] = group[v]
      BY <1>4, <2>3 DEF MergeBurst, WorkersTyped
    <3> QED BY <2>1, <3>1 DEF MergedTurnIsNew, TurnId
  <2> QED BY <2>2, <2>3
<1>5. ASSUME NEW w \in Workers, Silence(w) \/ ClaimInbound(w) \/ Dispatch(w) PROVE MergedTurnIsNew'
  <2>1. UNCHANGED <<anchor, group>>
    BY <1>5 DEF Silence, ClaimInbound, Dispatch, Conclude, Proceed
  <2>2. \A v \in Workers : phase'[v] \in {"merged", "claimed"} => phase[v] \in {"merged", "claimed"}
    BY <1>5 DEF Silence, ClaimInbound, Dispatch, Conclude, Proceed, WorkersTyped
  <2>3. \A m \in Msgs : reply'[m] = reply[m] \/ reply[m] # "none"
    BY <1>5 DEF Silence, ClaimInbound, Dispatch, TurnsTyped
  <2> QED BY <1>1, <2>1, <2>2, <2>3
<1>6. ASSUME NEW w \in Workers, Accept(w) PROVE MergedTurnIsNew'
  <2> SUFFICES ASSUME NEW v \in Workers, phase'[v] \in {"merged", "claimed"},
                      NEW m \in Msgs, TurnId(v, m)', m # anchor'[v]
               PROVE  reply'[m] = "none"
    BY DEF MergedTurnIsNew
  <2>1. UNCHANGED <<anchor, group>>
    BY <1>6 DEF Accept, Conclude, Proceed
  <2>2. v # w /\ phase'[v] = phase[v]
    BY <1>6 DEF Accept, Conclude, Proceed, WorkersTyped
  <2>3. PICK n \in group[w] : \A r \in Msgs : reply'[r] = reply[r] \/ r = n
    BY <1>6 DEF Accept, TurnId, TurnsTyped
  <2>4. m \in group[v] /\ InTurn(v) /\ InTurn(w)
    BY <1>6, <2>1, <2>2 DEF TurnId, Accept, InTurn
  <2>5. m # n
    BY <2>2, <2>4, LockIsExclusive DEF GroupAroundAnchor
  <2> QED BY <2>1, <2>2, <2>3, <2>5 DEF MergedTurnIsNew, TurnId
<1>7. ASSUME NEW w \in Workers, Leave(w) PROVE
        \A v \in Workers : phase'[v] \in {"merged", "claimed"} =>
          phase[v] \in {"merged", "claimed"} /\ anchor'[v] = anchor[v] /\ group'[v] = group[v]
  BY <1>7 DEF Leave, WorkersTyped
<1>8. ASSUME NEW w \in Workers, Defer(w) \/ Raise(w) \/ Crash(w) PROVE MergedTurnIsNew'
  BY <1>1, <1>7, <1>8 DEF Defer, Raise, Crash, turnVars
<1>9. ASSUME NEW w \in Workers, Mark(w) PROVE MergedTurnIsNew'
  <2>1. CASE Leave(w)
    BY <1>1, <1>7, <1>9, <2>1 DEF Mark, turnVars
  <2>2. CASE ~Leave(w)
    BY <1>1, <1>9, <2>2 DEF Mark, turnVars, WorkersTyped
  <2> QED BY <2>1, <2>2
<1> QED
  BY <1>2, <1>3, <1>4, <1>5, <1>6, <1>8, <1>9 DEF Next, TurnStep

\* What a step does to the envelopes: an accepted one keeps what it covers.
LEMMA EnvelopesKeep ==
  ASSUME InboxInv, Next
  PROVE  CoversItself' /\ \A r \in Msgs : Handled(r) => Handled(r)'
<1> USE TypeParts DEF InboxInv
<1>1. CASE UNCHANGED turnVars
  BY <1>1 DEF turnVars, CoversItself, Handled
<1>2. ASSUME NEW m \in Msgs, OutboxSettles(m) PROVE CoversItself' /\ \A r \in Msgs : Handled(r) => Handled(r)'
  BY <1>2 DEF OutboxSettles, CoversItself, Handled, TurnsTyped
<1>3. ASSUME NEW w \in Workers, Silence(w) \/ ClaimInbound(w) \/ Dispatch(w)
      PROVE  CoversItself' /\ \A r \in Msgs : Handled(r) => Handled(r)'
  <2>1. UNCHANGED covers /\ silenced \subseteq silenced'
    BY <1>3 DEF Silence, ClaimInbound, Dispatch
  <2>2. \A m \in Msgs : (reply'[m] = "none") <=> (reply[m] = "none")
    BY <1>3 DEF Silence, ClaimInbound, Dispatch, TurnsTyped
  <2> QED BY <2>1, <2>2 DEF CoversItself, Handled
<1>4. ASSUME NEW w \in Workers, Accept(w)
      PROVE  CoversItself' /\ \A r \in Msgs : Handled(r) => Handled(r)'
  <2>1. CASE UNCHANGED <<reply, covers>>
    BY <1>4, <2>1 DEF Accept, CoversItself, Handled
  <2>2. CASE ~UNCHANGED <<reply, covers>>
    <3>1. PICK m \in group[w] : /\ reply[m] = "none"
                                /\ reply' = [reply EXCEPT ![m] = "accepted"]
                                /\ covers' = [covers EXCEPT ![m] = group[w]]
      BY <1>4, <2>2 DEF Accept, TurnId
    <3>2. m \in Msgs /\ covers[m] = {}
      BY <3>1 DEF CoversItself, WorkersTyped
    <3>3. UNCHANGED silenced
      BY <1>4 DEF Accept
    <3> QED BY <3>1, <3>2, <3>3 DEF CoversItself, Handled, TurnsTyped
  <2> QED BY <2>1, <2>2
<1> QED
  BY <1>1, <1>2, <1>3, <1>4
     DEF Next, TurnStep, Enqueue, LeaseExpires, BackoffElapses, JobSettles, ClaimBatch,
         PickRow, AcquireLock, DrainClaim, MergeBurst, Mark, Defer, Raise, Crash, turnVars

\* A turn under an id that has an envelope is the turn of that one message.
LEMMA KnownTurnIsCovered ==
  ASSUME InboxInv, NEW w \in Workers, phase[w] \in {"merged", "claimed"},
         NEW m \in Msgs, TurnId(w, m), reply[m] # "none"
  PROVE  \A r \in group[w] : Handled(r)
<1> USE TypeParts DEF InboxInv
<1>1. m = anchor[w]
  BY DEF MergedTurnIsNew
<1>2. \A r \in group[w] : r \in Nat /\ r <= m /\ m <= r
  BY <1>1, InboxAssumption DEF TurnId, GroupAroundAnchor, WorkersTyped, Msgs
<1>3. \A r \in group[w] : r = m
  BY <1>2 DEF Msgs
<1>4. m \in covers[m]
  BY DEF CoversItself
<1> QED BY <1>3, <1>4 DEF Handled

LEMMA MarksStayHandled ==
  ASSUME InboxInv, Next PROVE MarksHandled'
<1> USE TypeParts DEF InboxInv
<1> DEFINE About(v) == phase[v] = "accepted" \/ (phase[v] = "marking" /\ verdict[v] = "processed")
<1>0. \A r \in Msgs : Handled(r) => Handled(r)'
  BY EnvelopesKeep
<1>1. ASSUME \A v \in Workers :
               (phase'[v] = "accepted" \/ (phase'[v] = "marking" /\ verdict'[v] = "processed"))
               => (About(v) /\ group'[v] \subseteq group[v])
                  \/ \A r \in group'[v] : Handled(r)'
      PROVE  MarksHandled'
  <2> SUFFICES ASSUME NEW v \in Workers,
                      phase'[v] = "accepted" \/ (phase'[v] = "marking" /\ verdict'[v] = "processed"),
                      NEW r \in group'[v], About(v) /\ group'[v] \subseteq group[v]
               PROVE  Handled(r)'
    BY <1>1 DEF MarksHandled
  <2>1. Handled(r) /\ r \in Msgs
    BY DEF MarksHandled, WorkersTyped
  <2> QED BY <1>0, <2>1
<1>2. CASE \E r \in Msgs : Enqueue(r) \/ LeaseExpires(r) \/ BackoffElapses(r)
                           \/ JobSettles(r) \/ OutboxSettles(r)
  BY <1>1, <1>2 DEF Enqueue, LeaseExpires, BackoffElapses, JobSettles, OutboxSettles, workVars
<1>3. ASSUME NEW w \in Workers, ClaimBatch(w) \/ PickRow(w) \/ AcquireLock(w)
                                \/ (\E r \in Msgs : DrainClaim(w, r)) \/ MergeBurst(w)
      PROVE  MarksHandled'
  BY <1>1, <1>3 DEF ClaimBatch, PickRow, AcquireLock, DrainClaim, MergeBurst, WorkersTyped
<1>4. ASSUME NEW w \in Workers, \A r \in group[w] : Handled(r)',
             (\E v \in {"processed", "failed"} : Conclude(w, v)) \/ Proceed(w, "accepted")
      PROVE  MarksHandled'
  BY <1>1, <1>4 DEF Conclude, Proceed, WorkersTyped
<1>5. ASSUME NEW w \in Workers, Conclude(w, "failed") \/ Proceed(w, "claimed") PROVE MarksHandled'
  BY <1>1, <1>5 DEF Conclude, Proceed, WorkersTyped
<1>6. ASSUME NEW w \in Workers, Silence(w) PROVE MarksHandled'
  BY <1>4, <1>6 DEF Silence, Handled
<1>7. ASSUME NEW w \in Workers, ClaimInbound(w) PROVE MarksHandled'
  <2>1. CASE Conclude(w, "failed") \/ Proceed(w, "claimed")
    BY <1>5, <2>1
  <2>2. CASE Conclude(w, "processed")
    <3>1. PICK m \in Msgs : TurnId(w, m) /\ reply[m] = "sent"
      BY <1>7, <2>2 DEF ClaimInbound, AnsweredBefore, Conclude, Proceed, WorkersTyped
    <3>2. \A r \in group[w] : Handled(r)'
      BY <1>0, <1>7, <3>1, KnownTurnIsCovered DEF ClaimInbound, WorkersTyped
    <3> QED BY <1>4, <2>2, <3>2
  <2> QED BY <1>7, <2>1, <2>2 DEF ClaimInbound
<1>8. ASSUME NEW w \in Workers, Accept(w) PROVE MarksHandled'
  <2>1. PICK m \in Msgs :
          /\ TurnId(w, m)
          /\ \/ reply[m] # "none"
             \/ reply[m] = "none" /\ covers' = [covers EXCEPT ![m] = group[w]]
    BY <1>8 DEF Accept
  <2>2. \A r \in group[w] : Handled(r)'
    <3>1. CASE reply[m] # "none"
      BY <1>0, <1>8, <2>1, <3>1, KnownTurnIsCovered DEF Accept, WorkersTyped
    <3>2. CASE reply[m] = "none"
      <4>1. covers'[m] = group[w]
        BY <2>1, <3>2 DEF TurnsTyped
      <4> QED BY <4>1 DEF Handled
    <3> QED BY <3>1, <3>2
  <2>3. (\E v \in {"processed", "failed"} : Conclude(w, v)) \/ Proceed(w, "accepted")
    BY <1>8 DEF Accept
  <2> QED BY <1>4, <2>2, <2>3
<1>9. ASSUME NEW w \in Workers, Dispatch(w) PROVE MarksHandled'
  <2>1. \A r \in group[w] : Handled(r)'
    BY <1>0, <1>9 DEF Dispatch, MarksHandled, WorkersTyped
  <2>2. \E v \in {"processed", "failed"} : Conclude(w, v)
    BY <1>9 DEF Dispatch
  <2> QED BY <1>4, <2>1, <2>2
<1>10. ASSUME NEW w \in Workers, Leave(w) PROVE MarksHandled'
  BY <1>1, <1>10 DEF Leave, WorkersTyped
<1>11. ASSUME NEW w \in Workers, Mark(w) PROVE MarksHandled'
  <2>1. CASE Leave(w)
    BY <1>10, <2>1
  <2>2. CASE ~Leave(w)
    BY <1>1, <1>11, <2>2 DEF Mark, WorkersTyped
  <2> QED BY <2>1, <2>2
<1> QED
  BY <1>2, <1>3, <1>6, <1>7, <1>8, <1>9, <1>10, <1>11
     DEF Next, TurnStep, Defer, Raise, Crash

\* Only a mark makes a row processed, and it marks what has been handled.
LEMMA ProcessedStaysHandled ==
  ASSUME InboxInv, Next PROVE ProcessedIsHandled'
<1> USE TypeParts DEF InboxInv
<1> SUFFICES ASSUME NEW r \in Msgs, status'[r] = "processed" PROVE Handled(r)'
  BY DEF ProcessedIsHandled
<1>1. \A q \in Msgs : Handled(q) => Handled(q)'
  BY EnvelopesKeep
<1>2. CASE status[r] = "processed"
  BY <1>1, <1>2 DEF ProcessedIsHandled
<1>3. CASE status[r] # "processed"
  <2>1. PICK w \in Workers : Mark(w) /\ r \in group[w] /\ verdict[w] = "processed"
    <3>1. ASSUME NEW rs \in SUBSET Msgs, NEW span, Lease(rs, span) PROVE FALSE
      BY <1>3, <3>1 DEF Lease, RowsTyped
    <3>2. ASSUME NEW w \in Workers, Mark(w) PROVE r \in group[w] /\ verdict[w] = "processed"
      BY <1>3, <3>2 DEF Mark, SetMark, RowsTyped
    <3>3. ASSUME NEW w \in Workers, Raise(w) PROVE FALSE
      BY <1>3, <3>3 DEF Raise, SetMark, RowsTyped
    <3>4. ASSUME NEW w \in Workers, Defer(w) PROVE FALSE
      BY <1>3, <3>4 DEF Defer, RowsTyped
    <3>5. ASSUME NEW w \in Workers, ClaimBatch(w) PROVE FALSE
      BY <3>1, <3>5 DEF ClaimBatch
    <3>6. ASSUME NEW w \in Workers, MergeBurst(w) PROVE FALSE
      BY <3>1, <3>6, FollowupsAreRows DEF MergeBurst
    <3>7. ASSUME NEW w \in Workers, NEW q \in Msgs, DrainClaim(w, q) PROVE FALSE
      BY <3>1, <3>7 DEF DrainClaim
    <3>8. ASSUME NEW q \in Msgs, Enqueue(q) PROVE FALSE
      BY <1>3, <3>8 DEF Enqueue, RowsTyped
    <3> QED
      BY <1>3, <3>2, <3>3, <3>4, <3>5, <3>6, <3>7, <3>8
         DEF Next, TurnStep, LeaseExpires, BackoffElapses, JobSettles, OutboxSettles,
             PickRow, AcquireLock, Silence, ClaimInbound, Accept, Dispatch, Crash,
             Conclude, Proceed, rowVars
  <2>2. Handled(r)
    BY <2>1 DEF Mark, MarksHandled
  <2> QED BY <1>1, <2>2
<1> QED BY <1>2, <1>3

-----------------------------------------------------------------------------
(* Theorems *)

LEMMA InitInv == Init => InboxInv
<1> SUFFICES ASSUME Init PROVE InboxInv
  OBVIOUS
<1>1. TypeOK
  BY InitTyped
<1>2. HoldsLock /\ GroupAroundAnchor /\ MergedTurnIsNew /\ MarksHandled
  BY DEF Init, HoldsLock, InTurn, GroupAroundAnchor, MergedTurnIsNew, MarksHandled
<1>3. WaitingIsUnseen /\ CoversItself /\ ProcessedIsHandled
  BY InboxAssumption DEF Init, WaitingIsUnseen, CoversItself, ProcessedIsHandled
<1> QED BY <1>1, <1>2, <1>3 DEF InboxInv

LEMMA StepInv == InboxInv /\ [Next]_vars => InboxInv'
<1> SUFFICES ASSUME InboxInv, [Next]_vars PROVE InboxInv'
  OBVIOUS
<1>1. CASE Next
  BY <1>1, TypeParts, RowsStayTyped, WorkersStayTyped, TurnsStayTyped, LocksStayHeld,
     GroupsStayAround, WaitingStaysUnseen, MergedTurnsStayNew, EnvelopesKeep,
     MarksStayHandled, ProcessedStaysHandled, TypePartsNext DEF InboxInv
<1>2. CASE UNCHANGED vars
  <2>1. TypeOK'
    BY <1>2 DEF vars, moving, rowVars, workVars, turnVars, InboxInv, TypeOK
  <2>2. HoldsLock' /\ GroupAroundAnchor' /\ WaitingIsUnseen'
    BY <1>2 DEF vars, moving, rowVars, workVars, turnVars, InboxInv, HoldsLock, InTurn,
                GroupAroundAnchor, WaitingIsUnseen
  <2>3. MergedTurnIsNew' /\ CoversItself'
    BY <1>2 DEF vars, moving, workVars, turnVars, InboxInv, MergedTurnIsNew, TurnId, CoversItself
  <2>4. MarksHandled' /\ ProcessedIsHandled'
    BY <1>2 DEF vars, moving, rowVars, workVars, turnVars, InboxInv, MarksHandled,
                ProcessedIsHandled, Handled
  <2> QED BY <2>1, <2>2, <2>3, <2>4 DEF InboxInv
<1> QED BY <1>1, <1>2

\* The inductive invariant holds throughout: types, locks, groups, and what
\* a worker may rely on when it marks rows.
THEOREM InboxInvariant == Spec => []InboxInv
  BY InitInv, StepInv, PTL DEF Spec

\* Every variable stays in its range: no claim takes a row beyond its
\* attempts, however workers, lapsing leases and late marks interleave.
THEOREM InboxTypeCorrect == Spec => []TypeOK
<1>1. InboxInv => TypeOK
  BY DEF InboxInv
<1> QED BY <1>1, InboxInvariant, PTL

\* No message is dropped: a row marked processed was answered, or a turn
\* chose to stay silent on it.
THEOREM NoMessageDropped == Spec => []ProcessedIsHandled
<1>1. InboxInv => ProcessedIsHandled
  BY DEF InboxInv
<1> QED BY <1>1, InboxInvariant, PTL

\* A conversation has one turn at a time.
THEOREM TurnsAreSerial == Spec => []OneTurnPerConversation
<1>1. InboxInv => OneTurnPerConversation
  <2> SUFFICES ASSUME InboxInv, NEW v \in Workers, NEW w \in Workers,
                      InTurn(v), InTurn(w), Conv[anchor[v]] = Conv[anchor[w]]
               PROVE  v = w
    BY DEF OneTurnPerConversation, InTurn
  <2> QED BY LockIsExclusive DEF InboxInv
<1> QED BY <1>1, InboxInvariant, PTL

-----------------------------------------------------------------------------
(* Why messages are answered in order *)

\* Rows arrive in the order of their numbers.
NoGaps == \A q, r \in Msgs : q < r /\ status[q] = "absent" => status[r] = "absent"

\* A worker has rows that arrived.
Arrived ==
  \A w \in Workers : /\ \A r \in group[w] \cup todo[w] : status[r] # "absent"
                     /\ phase[w] # "idle" => status[anchor[w]] # "absent"

\* Whoever has no attempt left, in the row or by what a worker was told, once
\* used them up.
SpentIsKept ==
  /\ \A r \in Msgs : attempts[r] >= MaxAttempts \/ status[r] = "dead" => r \in spent
  /\ \A w \in Workers : \A r \in Msgs : tries[w][r] >= MaxAttempts => r \in spent

\* Before a row that a worker has, the conversation is done with.
Past(r) == Handled(r) \/ r \in spent

TakenInOrder ==
  ~merge => \A w \in Workers : \A r \in group[w] \cup todo[w] : \A q \in Msgs :
              q < r /\ Conv[q] = Conv[r] => Past(q)

OrderedInv == InboxInv /\ NoGaps /\ Arrived /\ SpentIsKept /\ TakenInOrder

LEMMA SpentStays == ASSUME InboxInv, Next PROVE spent \subseteq spent'
<1>1. \A rs, span : Lease(rs, span) => spent \subseteq spent' BY DEF Lease
<1>2. QED
  BY <1>1 DEF Next, TurnStep, Enqueue, LeaseExpires, BackoffElapses, JobSettles, OutboxSettles,
     ClaimBatch, PickRow, AcquireLock, DrainClaim, MergeBurst, Silence, ClaimInbound, Accept,
     Dispatch, Mark, Defer, Raise, Crash, Conclude, Proceed, rowVars

LEMMA PastStays == ASSUME InboxInv, Next, NEW q \in Msgs, Past(q) PROVE Past(q)'
BY SpentStays, EnvelopesKeep DEF Past

\* Nothing earlier of the conversation is open when a row can be claimed.
LEMMA ClaimedInOrder ==
  ASSUME OrderedInv, NEW r \in Msgs, Claimable(r), NEW q \in Msgs, q < r, Conv[q] = Conv[r]
  PROVE  Past(q)
<1>1. ~Blocks(q, r) BY DEF Claimable
<1>2. status[q] # "absent" BY DEF OrderedInv, NoGaps, Claimable, Ready
<1>3. status[q] \in {"processed", "dead"} \/ Exhausted(q)
  BY <1>1, <1>2 DEF Blocks, OrderedInv, InboxInv, TypeOK, Statuses
<1>4. CASE status[q] = "processed" BY <1>4 DEF OrderedInv, InboxInv, ProcessedIsHandled, Past
<1>5. CASE status[q] = "dead" BY <1>5 DEF OrderedInv, SpentIsKept, Past
<1>6. CASE Exhausted(q) BY <1>6 DEF Exhausted, OrderedInv, SpentIsKept, Past
<1>7. QED BY <1>3, <1>4, <1>5, <1>6

\* The rows a worker has are those it had, and rows it could claim or merge.
TakenFrom ==
  \A w \in Workers :
    /\ \A r \in group'[w] \cup todo'[w] :
         \/ r \in group[w] \cup todo[w]
         \/ r \in Msgs /\ Claimable(r)
         \/ r \in Msgs /\ merge /\ status[r] = "pending"
    /\ phase'[w] # "idle" =>
         \/ phase[w] # "idle" /\ anchor'[w] = anchor[w]
         \/ anchor'[w] \in todo[w]
         \/ anchor'[w] \in Msgs /\ Claimable(anchor'[w])

LEMMA RowsAreTaken ==
  ASSUME InboxInv, Next PROVE TakenFrom
<1>1. WorkersTyped /\ merge' = merge /\ GroupAroundAnchor BY TypeParts DEF InboxInv, Next
<1>2. CASE UNCHANGED <<group, todo, phase, anchor>> BY <1>2 DEF TakenFrom
<1>3. ASSUME NEW w \in Workers, ClaimBatch(w) PROVE TakenFrom
  BY <1>1, <1>3 DEF ClaimBatch, WorkersTyped, TakenFrom
<1>4. ASSUME NEW w \in Workers, PickRow(w) PROVE TakenFrom
  BY <1>1, <1>4 DEF PickRow, WorkersTyped, TakenFrom
<1>5. ASSUME NEW w \in Workers, NEW r \in Msgs, DrainClaim(w, r) PROVE TakenFrom
  BY <1>1, <1>5 DEF DrainClaim, WorkersTyped, TakenFrom
<1>6. ASSUME NEW w \in Workers, MergeBurst(w) PROVE TakenFrom
  <2>1. \A last : \A r \in Followups(w, last) : r \in Msgs /\ merge /\ status[r] = "pending"
    BY DEF Followups
  <2>2. PICK rs : /\ group' = [group EXCEPT ![w] = @ \cup rs]
                  /\ \A r \in rs : r \in Msgs /\ merge /\ status[r] = "pending"
    BY <1>6, <2>1 DEF MergeBurst
  <2>3. UNCHANGED <<todo, anchor>> /\ phase' = [phase EXCEPT ![w] = "merged"] /\ phase[w] = "locked"
    BY <1>6 DEF MergeBurst
  <2>4. QED BY <1>1, <2>2, <2>3 DEF WorkersTyped, TakenFrom
<1>7. ASSUME NEW w \in Workers, Leave(w), \A v \in Workers : todo'[v] \subseteq todo[v]
      PROVE  TakenFrom
  BY <1>1, <1>7 DEF Leave, WorkersTyped, TakenFrom
<1>8. ASSUME NEW w \in Workers, Mark(w) \/ Defer(w) \/ Raise(w) \/ Crash(w) PROVE TakenFrom
  <2>1. CASE Leave(w)
    <3>1. \A v \in Workers : todo'[v] \subseteq todo[v]
      BY <1>1, <1>8 DEF Mark, Defer, Raise, Crash, WorkersTyped
    <3>2. QED BY <1>7, <2>1, <3>1
  <2>2. CASE ~Leave(w)
    <3>1. PICK r \in group[w] : /\ group' = [group EXCEPT ![w] = @ \ {r}]
                                /\ UNCHANGED <<todo, phase, anchor>>
      BY <1>8, <2>2 DEF Mark, Defer, Raise, Crash
    <3>2. QED BY <1>1, <3>1 DEF WorkersTyped, TakenFrom
  <2>3. QED BY <2>1, <2>2
<1>9. ASSUME NEW r \in Msgs,
             Enqueue(r) \/ LeaseExpires(r) \/ BackoffElapses(r) \/ JobSettles(r) \/ OutboxSettles(r)
      PROVE  TakenFrom
  BY <1>2, <1>9 DEF Enqueue, LeaseExpires, BackoffElapses, JobSettles, OutboxSettles, workVars
<1>10. ASSUME NEW w \in Workers, NEW p \in Phases, phase' = [phase EXCEPT ![w] = p],
              phase[w] # "idle", UNCHANGED <<group, todo, anchor>>
       PROVE  TakenFrom
  BY <1>1, <1>10 DEF WorkersTyped, TakenFrom
<1>11. ASSUME NEW w \in Workers,
              AcquireLock(w) \/ Silence(w) \/ ClaimInbound(w) \/ Accept(w) \/ Dispatch(w)
       PROVE  TakenFrom
  <2>1. UNCHANGED <<group, todo, anchor>> /\ phase[w] # "idle"
    BY <1>11 DEF AcquireLock, Silence, ClaimInbound, Accept, Dispatch, Conclude, Proceed
  <2>2. \E p \in Phases : phase' = [phase EXCEPT ![w] = p]
    BY <1>11 DEF AcquireLock, Silence, ClaimInbound, Accept, Dispatch, Conclude, Proceed, Phases
  <2>3. QED BY <1>10, <2>1, <2>2
<1>12. QED
  BY <1>3, <1>4, <1>5, <1>6, <1>8, <1>9, <1>11 DEF Next, TurnStep

LEMMA TakenStaysInOrder ==
  ASSUME OrderedInv, Next PROVE TakenInOrder'
<1>1. merge' = merge /\ InboxInv BY DEF OrderedInv, Next
<1>2. TakenFrom BY <1>1, RowsAreTaken
<1> SUFFICES ASSUME ~merge, NEW w \in Workers, NEW r \in group'[w] \cup todo'[w], NEW q \in Msgs,
                    q < r, Conv[q] = Conv[r]
             PROVE  Past(q)'
  BY <1>1 DEF TakenInOrder
<1>3. CASE r \in group[w] \cup todo[w] BY <1>1, <1>3, PastStays DEF OrderedInv, TakenInOrder
<1>4. CASE r \in Msgs /\ Claimable(r) BY <1>1, <1>4, ClaimedInOrder, PastStays
<1>5. QED BY <1>2, <1>3, <1>4 DEF TakenFrom

\* A row that arrived stays; one arrives, after all those before it.
LEMMA ArrivalsStay ==
  ASSUME OrderedInv, Next
  PROVE  /\ \A r \in Msgs : status[r] # "absent" => status'[r] # "absent"
         /\ \/ \A r \in Msgs : status[r] = "absent" => status'[r] = "absent"
            \/ \E r \in Msgs : /\ \A q \in Msgs : q < r => status[q] # "absent"
                               /\ \A q \in Msgs \ {r} : status'[q] = status[q]
<1> DEFINE Stay == \A r \in Msgs : status[r] # "absent" => status'[r] # "absent"
           NoNew == \A r \in Msgs : status[r] = "absent" => status'[r] = "absent"
<1>1. RowsTyped /\ WorkersTyped /\ GroupAroundAnchor /\ Arrived /\ NoGaps
  BY TypeParts DEF OrderedInv, InboxInv
<1>2. CASE UNCHANGED status BY <1>2
<1>3. ASSUME NEW r \in Msgs, Enqueue(r)
      PROVE  Stay /\ (\A q \in Msgs : q < r => status[q] # "absent")
             /\ \A q \in Msgs \ {r} : status'[q] = status[q]
  BY <1>1, <1>3 DEF Enqueue, RowsTyped
<1>4. ASSUME NEW rs, NEW span, Lease(rs, span), \A r \in rs : status[r] # "absent" PROVE Stay /\ NoNew
  BY <1>1, <1>4 DEF Lease, RowsTyped
<1>5. ASSUME NEW w \in Workers, ClaimBatch(w) PROVE Stay /\ NoNew
  BY <1>4, <1>5 DEF ClaimBatch, Claimable, Ready
<1>6. ASSUME NEW w \in Workers, NEW r \in Msgs, DrainClaim(w, r) PROVE Stay /\ NoNew
  BY <1>4, <1>6 DEF DrainClaim, Claimable, Ready
<1>7. ASSUME NEW w \in Workers, MergeBurst(w) PROVE Stay /\ NoNew
  <2>1. PICK last \in Msgs : Lease(Followups(w, last), lease[anchor[w]]) BY <1>7 DEF MergeBurst
  <2>2. \A r \in Followups(w, last) : status[r] # "absent" BY DEF Followups
  <2>3. QED BY <1>4, <2>1, <2>2
<1>8. ASSUME NEW r \in Msgs, NEW v, SetMark(r, v), v # "absent", status[r] # "absent" PROVE Stay /\ NoNew
  BY <1>1, <1>8 DEF SetMark, RowsTyped
<1>9. ASSUME NEW w \in Workers, Mark(w) PROVE Stay /\ NoNew
  <2>1. PICK r \in group[w] : SetMark(r, verdict[w]) BY <1>9 DEF Mark
  <2>2. r \in Msgs /\ status[r] # "absent" /\ verdict[w] # "absent" BY <1>1, <2>1 DEF Arrived, WorkersTyped
  <2>3. QED BY <1>8, <2>1, <2>2
<1>10. ASSUME NEW w \in Workers, Raise(w) PROVE Stay /\ NoNew
  <2>1. anchor[w] \in Msgs /\ status[anchor[w]] # "absent"
    BY <1>1, <1>10 DEF Arrived, GroupAroundAnchor, Raise
  <2>2. UNCHANGED status \/ \E v \in {"dead", "failed"} : SetMark(anchor[w], v)
    BY <1>10 DEF Raise
  <2>3. QED BY <1>8, <2>1, <2>2
<1>11. ASSUME NEW w \in Workers, Defer(w) PROVE Stay /\ NoNew
  BY <1>1, <1>11 DEF Defer, RowsTyped
<1>12. ASSUME NEW r \in Msgs,
              LeaseExpires(r) \/ BackoffElapses(r) \/ JobSettles(r) \/ OutboxSettles(r)
       PROVE  UNCHANGED status
  BY <1>12 DEF LeaseExpires, BackoffElapses, JobSettles, OutboxSettles, rowVars
<1>13. ASSUME NEW w \in Workers,
              \/ PickRow(w) \/ AcquireLock(w) \/ Silence(w) \/ ClaimInbound(w) \/ Accept(w)
              \/ Dispatch(w) \/ Crash(w)
       PROVE  UNCHANGED status
  BY <1>13 DEF PickRow, AcquireLock, Silence, ClaimInbound, Accept, Dispatch, Crash, Conclude,
     Proceed, rowVars
<1>14. QED
  BY <1>2, <1>3, <1>5, <1>6, <1>7, <1>9, <1>10, <1>11, <1>12, <1>13 DEF Next, TurnStep

LEMMA NoGapsStay ==
  ASSUME OrderedInv, Next PROVE NoGaps'
<1> SUFFICES ASSUME NEW p \in Msgs, NEW q \in Msgs, p < q, status'[p] = "absent"
             PROVE  status'[q] = "absent"
  BY DEF NoGaps
<1>1. status[p] = "absent" /\ status[q] = "absent" BY ArrivalsStay DEF OrderedInv, NoGaps
<1>2. QED BY <1>1, ArrivalsStay

LEMMA ArrivedStays ==
  ASSUME OrderedInv, Next PROVE Arrived'
<1>1. TakenFrom /\ WorkersTyped /\ GroupAroundAnchor /\ Arrived
  BY RowsAreTaken, TypeParts DEF OrderedInv, InboxInv
<1>2. \A r \in Msgs : status[r] # "absent" => status'[r] # "absent" BY ArrivalsStay
<1>3. \A r \in Msgs : Claimable(r) => status[r] # "absent" BY DEF Claimable, Ready
<1> SUFFICES ASSUME NEW w \in Workers
             PROVE  /\ \A r \in group'[w] \cup todo'[w] : status'[r] # "absent"
                    /\ phase'[w] # "idle" => status'[anchor'[w]] # "absent"
  BY DEF Arrived
<1>4. ASSUME NEW r \in group'[w] \cup todo'[w] PROVE status'[r] # "absent"
  BY <1>1, <1>2, <1>3, <1>4 DEF TakenFrom, Arrived, WorkersTyped
<1>5. ASSUME phase'[w] # "idle" PROVE status'[anchor'[w]] # "absent"
  BY <1>1, <1>2, <1>3, <1>5 DEF TakenFrom, Arrived, WorkersTyped, GroupAroundAnchor
<1>6. QED BY <1>4, <1>5

\* Attempts are used up by a claim, which writes it down.
LEMMA SpentStaysKept ==
  ASSUME OrderedInv, Next PROVE SpentIsKept'
<1>1. RowsTyped /\ WorkersTyped /\ GroupAroundAnchor /\ SpentIsKept /\ InboxInv
  BY TypeParts DEF OrderedInv, InboxInv
<1>2. spent \subseteq spent' BY <1>1, SpentStays
<1>3. ASSUME \A r \in Msgs : attempts'[r] >= MaxAttempts \/ status'[r] = "dead" =>
               attempts[r] >= MaxAttempts \/ status[r] = "dead" \/ r \in spent',
             \A w \in Workers : \A r \in Msgs : tries'[w][r] >= MaxAttempts =>
               tries[w][r] >= MaxAttempts \/ r \in spent'
      PROVE  SpentIsKept'
  BY <1>1, <1>2, <1>3 DEF SpentIsKept
<1>4. ASSUME NEW rs \in SUBSET Msgs, NEW span, Lease(rs, span)
      PROVE  /\ \A r \in Msgs : attempts'[r] >= MaxAttempts \/ status'[r] = "dead" =>
                  attempts[r] >= MaxAttempts \/ status[r] = "dead" \/ r \in spent'
             /\ \A r \in rs : attempts[r] + 1 >= MaxAttempts => r \in spent'
  BY <1>1, <1>4 DEF Lease, RowsTyped
<1>5. ASSUME NEW w \in Workers, NEW rs \in SUBSET Msgs, Remember(w, rs),
             \A r \in rs : attempts[r] + 1 >= MaxAttempts => r \in spent'
      PROVE  \A v \in Workers : \A r \in Msgs : tries'[v][r] >= MaxAttempts =>
               tries[v][r] >= MaxAttempts \/ r \in spent'
  BY <1>1, <1>5, InboxAssumption DEF Remember, WorkersTyped
<1>6. ASSUME NEW w \in Workers, ClaimBatch(w) PROVE SpentIsKept'
  <2>1. PICK rs \in SUBSET Msgs : Lease(rs, "live") /\ Remember(w, rs) BY <1>6 DEF ClaimBatch
  <2>2. QED BY <1>3, <1>4, <1>5, <2>1
<1>7. ASSUME NEW w \in Workers, NEW r \in Msgs, DrainClaim(w, r) PROVE SpentIsKept'
  <2>1. PICK rs \in SUBSET Msgs : Lease(rs, "live") /\ Remember(w, rs) BY <1>7 DEF DrainClaim
  <2>2. QED BY <1>3, <1>4, <1>5, <2>1
<1>8. ASSUME NEW w \in Workers, MergeBurst(w) PROVE SpentIsKept'
  <2>1. PICK rs \in SUBSET Msgs : Lease(rs, lease[anchor[w]]) /\ UNCHANGED tries
    BY <1>8, FollowupsAreRows DEF MergeBurst
  <2>2. QED BY <1>3, <1>4, <2>1
<1>9. ASSUME NEW w \in Workers, Leave(w)
      PROVE  \A v \in Workers : \A r \in Msgs : tries'[v][r] >= MaxAttempts => tries[v][r] >= MaxAttempts
  BY <1>1, <1>9, InboxAssumption DEF Leave, WorkersTyped
<1>10. ASSUME NEW w \in Workers, Mark(w) PROVE SpentIsKept'
  <2>1. PICK r \in Msgs : SetMark(r, verdict[w]) BY <1>1, <1>10 DEF Mark, WorkersTyped
  <2>2. \A q \in Msgs : status'[q] = "dead" => status[q] = "dead"
    BY <1>1, <2>1 DEF SetMark, RowsTyped, WorkersTyped
  <2>3. attempts' = attempts /\ (Leave(w) \/ UNCHANGED tries) BY <1>10 DEF Mark
  <2>4. QED BY <1>3, <1>9, <2>2, <2>3
<1>11. ASSUME NEW w \in Workers, Raise(w) PROVE SpentIsKept'
  <2>1. attempts' = attempts /\ Leave(w) /\ anchor[w] \in Msgs BY <1>1, <1>11 DEF Raise, GroupAroundAnchor
  <2>2. \A q \in Msgs : status'[q] = "dead" => status[q] = "dead" \/ tries[w][q] >= MaxAttempts
    BY <1>1, <1>11, <2>1 DEF Raise, SetMark, RowsTyped
  <2>3. \A q \in Msgs : tries[w][q] >= MaxAttempts => q \in spent' BY <1>1, <1>2 DEF SpentIsKept
  <2>4. QED BY <1>3, <1>9, <2>1, <2>2, <2>3
<1>12. ASSUME NEW w \in Workers, Defer(w) PROVE SpentIsKept'
  <2>1. \A q \in Msgs : (status'[q] = "dead" => status[q] = "dead")
                        /\ (attempts'[q] >= MaxAttempts => attempts[q] >= MaxAttempts)
    BY <1>1, <1>12, InboxAssumption DEF Defer, RowsTyped
  <2>2. Leave(w) BY <1>12 DEF Defer
  <2>3. QED BY <1>3, <1>9, <2>1, <2>2
<1>13. ASSUME NEW w \in Workers, Crash(w) PROVE SpentIsKept'
  BY <1>3, <1>9, <1>13 DEF Crash, rowVars
<1>14. ASSUME NEW r \in Msgs, Enqueue(r) PROVE SpentIsKept'
  <2>1. \A q \in Msgs : status'[q] = "dead" => status[q] = "dead"
    BY <1>1, <1>14 DEF Enqueue, RowsTyped
  <2>2. UNCHANGED <<attempts, tries>> BY <1>14 DEF Enqueue, workVars
  <2>3. QED BY <1>3, <2>1, <2>2
<1>15. CASE UNCHANGED <<status, attempts, tries>> BY <1>3, <1>15
<1>16. ASSUME NEW r \in Msgs,
              LeaseExpires(r) \/ BackoffElapses(r) \/ JobSettles(r) \/ OutboxSettles(r)
       PROVE  UNCHANGED <<status, attempts, tries>>
  BY <1>16 DEF LeaseExpires, BackoffElapses, JobSettles, OutboxSettles, rowVars, workVars
<1>17. ASSUME NEW w \in Workers,
              \/ PickRow(w) \/ AcquireLock(w) \/ Silence(w) \/ ClaimInbound(w) \/ Accept(w)
              \/ Dispatch(w)
       PROVE  UNCHANGED <<status, attempts, tries>>
  BY <1>17 DEF PickRow, AcquireLock, Silence, ClaimInbound, Accept, Dispatch, Conclude,
     Proceed, rowVars
<1>18. QED
  BY <1>6, <1>7, <1>8, <1>10, <1>11, <1>12, <1>13, <1>14, <1>15, <1>16, <1>17 DEF Next, TurnStep

LEMMA OrderedInit == Init => OrderedInv
<1> SUFFICES ASSUME Init PROVE OrderedInv OBVIOUS
<1>1. NoGaps /\ Arrived /\ TakenInOrder BY DEF Init, NoGaps, Arrived, TakenInOrder
<1>2. SpentIsKept BY InboxAssumption DEF Init, SpentIsKept
<1>3. QED BY <1>1, <1>2, InitInv DEF OrderedInv

LEMMA OrderedStep == OrderedInv /\ [Next]_vars => OrderedInv'
<1> SUFFICES ASSUME OrderedInv, [Next]_vars PROVE OrderedInv' OBVIOUS
<1>1. CASE Next
  BY <1>1, StepInv, NoGapsStay, ArrivedStays, SpentStaysKept, TakenStaysInOrder DEF OrderedInv
<1>2. CASE UNCHANGED vars
  <2>1. InboxInv' BY <1>2, StepInv DEF OrderedInv
  <2>2. NoGaps' /\ Arrived' /\ SpentIsKept' /\ TakenInOrder'
    BY <1>2 DEF vars, moving, rowVars, workVars, turnVars, OrderedInv, NoGaps, Arrived, SpentIsKept,
       TakenInOrder, Past, Handled
  <2>3. QED BY <2>1, <2>2 DEF OrderedInv
<1>3. QED BY <1>1, <1>2

\* Where bursts are not merged, what workers have taken up is in order: the
\* earlier rows of the conversation were dealt with or had run out of attempts.
THEOREM OrderedInvariant == Spec => []OrderedInv
BY OrderedInit, OrderedStep, PTL DEF Spec

\* So messages of a conversation are answered in the order they came.
THEOREM AnswersAreInOrder == Spec => AnsweredInOrder
<1>1. ASSUME OrderedInv, [Next]_vars
      PROVE  [~merge => \A m \in Msgs : reply[m] = "none" /\ reply'[m] # "none" =>
                \A q \in Msgs : \A r \in covers'[m] :
                  Conv[q] = Conv[r] /\ q < r =>
                    Handled(q) \/ q \in covers'[m] \/ q \in spent]_vars
  <2>1. CASE UNCHANGED vars BY <2>1
  <2>2. SUFFICES ASSUME Next, ~merge, NEW m \in Msgs, reply[m] = "none", reply'[m] # "none",
                        NEW q \in Msgs, NEW r \in covers'[m], Conv[q] = Conv[r], q < r
                 PROVE  Handled(q) \/ q \in spent
    BY <1>1, <2>1
  <2>3. PICK w \in Workers : r \in group[w]
    <3>1. TurnsTyped BY <1>1, TypeParts DEF OrderedInv, InboxInv
    <3>2. PICK w \in Workers : Accept(w)
      BY <2>2, <3>1 DEF Next, TurnStep, Enqueue, LeaseExpires, BackoffElapses, JobSettles, OutboxSettles,
         ClaimBatch, PickRow, AcquireLock, DrainClaim, MergeBurst, Silence, ClaimInbound, Dispatch,
         Mark, Defer, Raise, Crash, turnVars, TurnsTyped
    <3>3. covers'[m] = group[w] BY <2>2, <3>1, <3>2 DEF Accept, TurnsTyped
    <3>4. QED BY <2>2, <3>3
  <2>4. QED BY <1>1, <2>2, <2>3 DEF OrderedInv, TakenInOrder, Past
<1>2. QED BY <1>1, OrderedInvariant, PTL DEF Spec, AnsweredInOrder

-----------------------------------------------------------------------------
(* Conversations go on *)

\* A claim leases rows until an end that has not come; only a merged burst may
\* copy the lease of somebody else's mark.
LEMMA LeasesKeepTheirEnd ==
  ASSUME InboxInv, LeasesEnd, Next PROVE LeasesEnd'
<1>1. RowsTyped /\ WorkersTyped /\ GroupAroundAnchor /\ merge' = merge
  BY TypeParts DEF InboxInv, Next
<1> SUFFICES ASSUME ~merge PROVE \A r \in Msgs : status'[r] = "leased" => lease'[r] # "none"
  BY <1>1 DEF LeasesEnd, LeaseIsRecoverable
<1> DEFINE Goal == \A r \in Msgs : status'[r] = "leased" => lease'[r] # "none"
<1>2. \A r \in Msgs : status[r] = "leased" => lease[r] # "none"
  BY DEF LeasesEnd, LeaseIsRecoverable
<1>3. CASE UNCHANGED <<status, lease>> BY <1>2, <1>3
<1>4. ASSUME NEW rs, NEW span, Lease(rs, span), span # "none" \/ rs = {} PROVE Goal
  BY <1>1, <1>2, <1>4 DEF Lease, RowsTyped
<1>5. ASSUME NEW w \in Workers, ClaimBatch(w) PROVE Goal
  <2>1. PICK rs : Lease(rs, "live") BY <1>5 DEF ClaimBatch
  <2>2. QED BY <1>4, <2>1
<1>6. ASSUME NEW w \in Workers, NEW r \in Msgs, DrainClaim(w, r) PROVE Goal
  <2>1. Lease({r}, "live") BY <1>6 DEF DrainClaim
  <2>2. QED BY <1>4, <2>1
<1>7. ASSUME NEW w \in Workers, MergeBurst(w) PROVE Goal
  <2>1. PICK last \in Msgs : Lease(Followups(w, last), lease[anchor[w]]) BY <1>7 DEF MergeBurst
  <2>2. Followups(w, last) = {} BY DEF Followups
  <2>3. QED BY <1>4, <2>1, <2>2
<1>8. ASSUME NEW r \in Msgs, NEW v, SetMark(r, v), v # "leased" PROVE Goal
  BY <1>1, <1>2, <1>8 DEF SetMark, RowsTyped
<1>9. ASSUME NEW w \in Workers, Mark(w) PROVE Goal
  <2>1. PICK r \in group[w] : SetMark(r, verdict[w]) BY <1>9 DEF Mark
  <2>2. r \in Msgs /\ verdict[w] # "leased" BY <1>1, <2>1 DEF WorkersTyped
  <2>3. QED BY <1>8, <2>1, <2>2
<1>10. ASSUME NEW w \in Workers, Raise(w) PROVE Goal
  <2>1. anchor[w] \in Msgs BY <1>1, <1>10 DEF Raise, GroupAroundAnchor
  <2>2. UNCHANGED <<status, lease>> \/ \E v \in {"dead", "failed"} : SetMark(anchor[w], v)
    BY <1>10 DEF Raise
  <2>3. QED BY <1>3, <1>8, <2>1, <2>2
<1>11. ASSUME NEW w \in Workers, Defer(w) PROVE Goal
  BY <1>1, <1>2, <1>11 DEF Defer, RowsTyped
<1>12. ASSUME NEW r \in Msgs, Enqueue(r) PROVE Goal
  BY <1>1, <1>2, <1>12 DEF Enqueue, RowsTyped
<1>13. ASSUME NEW r \in Msgs, LeaseExpires(r) PROVE Goal
  BY <1>1, <1>2, <1>13 DEF LeaseExpires, RowsTyped
<1>14. ASSUME NEW r \in Msgs, BackoffElapses(r) \/ JobSettles(r) \/ OutboxSettles(r)
       PROVE  UNCHANGED <<status, lease>>
  BY <1>14 DEF BackoffElapses, JobSettles, OutboxSettles, rowVars
<1>15. ASSUME NEW w \in Workers,
              \/ PickRow(w) \/ AcquireLock(w) \/ Silence(w) \/ ClaimInbound(w) \/ Accept(w)
              \/ Dispatch(w) \/ Crash(w)
       PROVE  UNCHANGED <<status, lease>>
  BY <1>15 DEF PickRow, AcquireLock, Silence, ClaimInbound, Accept, Dispatch, Crash, Conclude,
     Proceed, rowVars
<1>16. QED
  BY <1>3, <1>5, <1>6, <1>7, <1>9, <1>10, <1>11, <1>12, <1>13, <1>14, <1>15 DEF Next, TurnStep

LEMMA OpenInit == Init => LeasesEnd
BY DEF Init, LeasesEnd, LeaseIsRecoverable

LEMMA OpenStep == InboxInv /\ LeasesEnd /\ [Next]_vars => LeasesEnd'
<1> SUFFICES ASSUME InboxInv, LeasesEnd, [Next]_vars PROVE LeasesEnd' OBVIOUS
<1>1. CASE Next BY <1>1, LeasesKeepTheirEnd
<1>2. CASE UNCHANGED vars
  BY <1>2 DEF vars, moving, rowVars, LeasesEnd, LeaseIsRecoverable
<1>3. QED BY <1>1, <1>2

\* Of the messages of a conversation up to row r that have attempts left, the
\* first one only waits.
LEMMA FirstOnlyWaits ==
  ASSUME InboxInv, LeasesEnd, ~merge, NEW r \in Msgs,
         status[r] \in {"pending", "failed", "leased"}, ~Exhausted(r)
  PROVE  \E q \in Msgs : Conv[q] = Conv[r] /\ q <= r /\ OnlyWaits(q)
<1> DEFINE Open == {q \in Msgs : /\ Conv[q] = Conv[r] /\ q <= r
                                 /\ status[q] \in {"pending", "failed", "leased"}
                                 /\ ~Exhausted(q)}
           Less == {s \in Nat \X Nat : s[1] < s[2]}
<1>1. Msgs \subseteq Nat /\ Open \subseteq Nat BY InboxAssumption DEF Msgs
<1>2. r \in Open BY <1>1
<1>3. IsWellFoundedOn(Less, Nat) BY NatLessThanWellFounded DEF OpToRel
<1>4. PICK q \in Open : \A p \in Open : <<p, q>> \notin Less
  <2> HIDE DEF Less, Open
  <2> QED BY <1>1, <1>2, <1>3, WFMin
<1>5. \A p \in Open : ~(p < q) BY <1>1, <1>4
<1>6. ASSUME NEW p \in Msgs, Blocks(p, q)
      PROVE  status[p] = "leased" /\ lease[p] = "live" /\ Exhausted(p)
  <2>1. Conv[p] = Conv[q] /\ p < q /\ status[p] \in {"pending", "failed", "leased"}
    BY <1>6 DEF Blocks
  <2>2. Conv[p] = Conv[r] /\ p <= r BY <1>1, <2>1
  <2>3. Exhausted(p) BY <1>5, <2>1, <2>2
  <2>4. QED BY <1>6, <2>3 DEF Blocks
<1>7. status[q] = "leased" => lease[q] # "none" BY DEF LeasesEnd, LeaseIsRecoverable
<1>8. OnlyWaits(q) BY <1>6, <1>7 DEF OnlyWaits
<1>9. QED BY <1>8

\* No conversation is blocked for good where bursts are not merged: whatever
\* failed, died or came too late before it, the first message with attempts left
\* waits for nothing but time.
THEOREM ConversationsStayOpen == Spec => []ConversationsGoOn
<1>1. InboxInv /\ LeasesEnd => ConversationsGoOn BY FirstOnlyWaits DEF ConversationsGoOn
<1>2. Spec => []LeasesEnd BY OpenInit, OpenStep, InboxInvariant, PTL DEF Spec
<1>3. QED BY <1>1, <1>2, InboxInvariant, PTL

=============================================================================
