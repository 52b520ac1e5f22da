------------------------------- MODULE Inbox -------------------------------
(***************************************************************************)
(* The durable inbound queue: table ai_inbound_inbox, claimed through      *)
(* app/ingress/inbox.py by app/ingress/worker.py (the cron batch) and      *)
(* app/ingress/busy.py (the drain a webhook runs after it found the        *)
(* conversation locked), with the conversation lock of                     *)
(* app/ops/conversation_lock.py and the turn each row becomes.             *)
(*                                                                         *)
(* A row stands for one customer message; rows are numbered in the order   *)
(* of (created_at, id), and the number is also the provider's message id.  *)
(* Every SQL transaction is one action.  A worker may die between any two  *)
(* of them, and a lease may lapse under a worker that is still alive: the  *)
(* marks that end a turn carry no owner guard, so the model keeps no       *)
(* lease_owner (nothing reads it).                                         *)
(*                                                                         *)
(* The lock of a conversation has one holder at a time here.  What it does *)
(* when the database is down or drops the session of a running turn is     *)
(* ConversationLock.                                                       *)
(*                                                                         *)
(* The reply of a turn is an envelope of the outbound queue.  Outbox       *)
(* models its life in full; here it is accepted, sent or dead.             *)
(***************************************************************************)
EXTENDS Naturals, FiniteSets

CONSTANTS NRows,        \* messages that arrive
          Conversations,
          Conv,         \* the conversation of each row
          Workers,      \* concurrent process_inbox_batch / drain runs
          None,         \* nobody
          MaxAttempts,  \* max_attempts column (8 in the schema)
          BatchLimit    \* agent_inbox_batch_size

Msgs == 1..NRows

ASSUME InboxAssumption ==
  /\ NRows \in Nat
  /\ Conv \in [Msgs -> Conversations]
  /\ None \notin Workers
  /\ MaxAttempts \in Nat \ {0}
  /\ BatchLimit \in Nat \ {0}

Statuses == {"absent", "pending", "leased", "processed", "failed", "dead"}
Phases   == {"idle", "waiting", "locked", "merged", "claimed", "accepted", "marking"}
Replies  == {"none", "accepted", "sent", "dead"}

VARIABLES
  \* the rows
  status,     \* status column
  attempts,   \* attempts column
  lease,      \* lease_expires_at: "none" (NULL), "live" or "lapsed"
  due,        \* retry back-off of a failed row has elapsed
  job,        \* story analysis the row waits for: "none", "running", "settled"
  spent,      \* history: rows that once used up their attempts
  \* the workers
  phase,      \* where each worker is
  todo,       \* rows of its batch not started yet
  tries,      \* attempts of each row as returned by the worker's claim
  anchor,     \* the row it works on; 0: none
  group,      \* the anchor and the rows merged into it, until marked
  verdict,    \* mark the group is about to receive
  draining,   \* the worker is drain_lock_deferred_inbound
  \* the conversations and the turns
  lock,       \* worker holding the conversation lock
  inbounds,   \* message ids claimed in ai_inbound_messages
  reply,      \* envelope of the turn claimed under each message id
  covers,     \* rows whose text that turn was generated from
  silenced,   \* rows a turn chose not to answer
  merge       \* the channel's bursts are merged: not so on Instagram

rowVars  == <<status, attempts, lease, due, job, spent>>
workVars == <<phase, todo, tries, anchor, group, verdict, draining>>
turnVars == <<inbounds, reply, covers, silenced>>
moving   == <<rowVars, workVars, lock, turnVars>>
vars     == <<moving, merge>>

Init ==
  /\ status   = [r \in Msgs |-> "absent"]
  /\ attempts = [r \in Msgs |-> 0]
  /\ lease    = [r \in Msgs |-> "none"]
  /\ due      = [r \in Msgs |-> FALSE]
  /\ job      = [r \in Msgs |-> "none"]
  /\ spent    = {}
  /\ phase    = [w \in Workers |-> "idle"]
  /\ todo     = [w \in Workers |-> {}]
  /\ tries    = [w \in Workers |-> [r \in Msgs |-> 0]]
  /\ anchor   = [w \in Workers |-> 0]
  /\ group    = [w \in Workers |-> {}]
  /\ verdict  = [w \in Workers |-> "none"]
  /\ draining = [w \in Workers |-> FALSE]
  /\ lock     = [c \in Conversations |-> None]
  /\ inbounds = {}
  /\ reply    = [m \in Msgs |-> "none"]
  /\ covers   = [m \in Msgs |-> {}]
  /\ silenced = {}
  /\ merge \in BOOLEAN

-----------------------------------------------------------------------------
(* Msgs: arrival and claims *)

\* Variant: one attempt more than max_attempts.
ExhaustedLate(r) == attempts[r] > MaxAttempts

Exhausted(r) == attempts[r] >= MaxAttempts

\* Variant: a failed predecessor does not hold its conversation back.
BlocksUnlessFailed(q, r) ==
  /\ Conv[q] = Conv[r] /\ q < r
  /\ status[q] \in {"pending", "leased"} /\ ~Exhausted(q)

\* Variant: an exhausted predecessor goes on holding its conversation back.
BlocksForever(q, r) ==
  Conv[q] = Conv[r] /\ q < r /\ status[q] \in {"pending", "failed", "leased"}

\* An earlier row of the conversation that is unfinished: it can still be
\* claimed, or somebody works on it under a live lease.
Blocks(q, r) ==
  /\ Conv[q] = Conv[r] /\ q < r
  /\ status[q] \in {"pending", "failed", "leased"}
  /\ ~Exhausted(q) \/ (status[q] = "leased" /\ lease[q] = "live")

\* A failed row waits out its back-off, a leased one the end of its lease.
Ready(r) ==
  \/ status[r] = "pending"
  \/ status[r] = "failed" /\ due[r]
  \/ status[r] = "leased" /\ lease[r] = "lapsed"

\* The WHERE clause of the claim.
Claimable(r) ==
  /\ ~Exhausted(r)
  /\ job[r] # "running"
  /\ Ready(r)
  /\ \A q \in Msgs : ~Blocks(q, r)

\* A new message is stored pending; a repeated one finds its idempotency
\* key taken and changes nothing.
Enqueue(r) ==
  /\ status[r] = "absent"
  /\ \A q \in Msgs : q < r => status[q] # "absent"
  /\ status' = [status EXCEPT ![r] = "pending"]
  /\ UNCHANGED <<attempts, lease, due, job, spent, workVars, lock, turnVars>>

\* The UPDATE common to the claims: rows rs get the lease span.
Lease(rs, span) ==
  /\ status'   = [r \in Msgs |-> IF r \in rs THEN "leased" ELSE status[r]]
  /\ lease'    = [r \in Msgs |-> IF r \in rs THEN span ELSE lease[r]]
  /\ attempts' = [r \in Msgs |-> IF r \in rs THEN attempts[r] + 1 ELSE attempts[r]]
  /\ due'      = [r \in Msgs |-> IF r \in rs THEN FALSE ELSE due[r]]
  /\ spent'    = spent \cup {r \in rs : attempts[r] + 1 >= MaxAttempts}

\* The attempts RETURNING hands to the worker.
Remember(w, rs) ==
  tries' = [tries EXCEPT ![w] = [r \in Msgs |-> IF r \in rs THEN attempts[r] + 1 ELSE 0]]

\* process_inbox_batch: lease a batch of claimable rows.  LIMIT and
\* SKIP LOCKED decide which of them.
ClaimBatch(w) ==
  /\ phase[w] = "idle" /\ todo[w] = {}
  /\ \E rs \in SUBSET {r \in Msgs : Claimable(r)} :
       /\ rs # {} /\ Cardinality(rs) <= BatchLimit
       /\ Lease(rs, "live") /\ Remember(w, rs)
       /\ todo' = [todo EXCEPT ![w] = rs]
  /\ UNCHANGED <<job, phase, anchor, group, verdict, draining, lock, turnVars>>

\* The batch works its rows one after the other, oldest first.
PickRow(w) ==
  /\ phase[w] = "idle"
  /\ \E r \in todo[w] :
       /\ \A q \in todo[w] : r <= q
       /\ todo'   = [todo EXCEPT ![w] = @ \ {r}]
       /\ anchor' = [anchor EXCEPT ![w] = r]
       /\ group'  = [group EXCEPT ![w] = {r}]
  /\ phase' = [phase EXCEPT ![w] = "waiting"]
  /\ UNCHANGED <<rowVars, tries, verdict, draining, lock, turnVars>>

AcquireLock(w) ==
  /\ phase[w] = "waiting"
  /\ lock[Conv[anchor[w]]] = None
  /\ lock'  = [lock EXCEPT ![Conv[anchor[w]]] = w]
  /\ phase' = [phase EXCEPT ![w] = "locked"]
  /\ UNCHANGED <<rowVars, todo, tries, anchor, group, verdict, draining, turnVars>>

\* drain_lock_deferred_inbound: take the conversation lock first, then claim
\* the row at the head of the conversation.
DrainClaim(w, r) ==
  /\ phase[w] = "idle" /\ todo[w] = {}
  /\ Claimable(r) /\ lock[Conv[r]] = None
  /\ Lease({r}, "live") /\ Remember(w, {r})
  /\ lock'     = [lock EXCEPT ![Conv[r]] = w]
  /\ anchor'   = [anchor EXCEPT ![w] = r]
  /\ group'    = [group EXCEPT ![w] = {r}]
  /\ phase'    = [phase EXCEPT ![w] = "locked"]
  /\ draining' = [draining EXCEPT ![w] = TRUE]
  /\ UNCHANGED <<job, todo, verdict, turnVars>>

-----------------------------------------------------------------------------
(* The turn *)

\* Pending rows that arrived after the anchor, up to row last: the burst
\* window is a stretch of time.
Followups(w, last) ==
  {r \in Msgs : /\ merge /\ status[r] = "pending" /\ Conv[r] = Conv[anchor[w]]
                /\ anchor[w] < r /\ r <= last}

\* Wait for the burst window and lease its rows under the anchor's lease,
\* whatever that is by now.
MergeBurst(w) ==
  /\ phase[w] = "locked"
  /\ \E last \in Msgs :
       /\ Lease(Followups(w, last), lease[anchor[w]])
       /\ group' = [group EXCEPT ![w] = @ \cup Followups(w, last)]
  /\ phase' = [phase EXCEPT ![w] = "merged"]
  /\ UNCHANGED <<job, todo, tries, anchor, verdict, draining, lock, turnVars>>

\* The merged turn runs under the id of its last message.
TurnId(w, m) == m \in group[w] /\ \A r \in group[w] : r <= m

Conclude(w, v) ==
  /\ verdict' = [verdict EXCEPT ![w] = v]
  /\ phase'   = [phase EXCEPT ![w] = "marking"]
  /\ UNCHANGED <<rowVars, todo, tries, anchor, group, draining, lock>>

Proceed(w, p) ==
  /\ phase' = [phase EXCEPT ![w] = p]
  /\ UNCHANGED <<rowVars, todo, tries, anchor, group, verdict, draining, lock>>

\* Caption echo, silent story, human takeover, replies switched off.
Silence(w) ==
  /\ phase[w] \in {"merged", "claimed"}
  /\ silenced' = silenced \cup group[w]
  /\ Conclude(w, "processed")
  /\ UNCHANGED <<inbounds, reply, covers>>

\* Variant: a message id seen before passes for answered.
SeenBefore(m) == m \in inbounds

AnsweredBefore(m) == m \in inbounds /\ reply[m] = "sent"

\* claim_inbound_message: a message id seen before whose answer is out ends
\* the turn; an error of the claim fails it.
ClaimInbound(w) ==
  /\ phase[w] = "merged"
  /\ \E m \in Msgs :
       /\ TurnId(w, m)
       /\ \/ /\ AnsweredBefore(m)
             /\ Conclude(w, "processed")
             /\ UNCHANGED inbounds
          \/ /\ ~AnsweredBefore(m)
             /\ inbounds' = inbounds \cup {m}
             /\ Proceed(w, "claimed")
          \/ /\ Conclude(w, "failed")
             /\ UNCHANGED inbounds
  /\ UNCHANGED <<reply, covers, silenced>>

\* Answer the message, or pick up the answer accepted before.  The model
\* and tool calls that produce the answer leave nothing in these tables.
Accept(w) ==
  /\ phase[w] = "claimed"
  /\ \E m \in Msgs :
       /\ TurnId(w, m)
       /\ IF reply[m] = "sent"
            THEN Conclude(w, "processed") /\ UNCHANGED <<reply, covers>>
            ELSE /\ Proceed(w, "accepted")
                 /\ IF reply[m] # "none"
                      THEN UNCHANGED <<reply, covers>>
                      ELSE /\ reply'  = [reply EXCEPT ![m] = "accepted"]
                           /\ covers' = [covers EXCEPT ![m] = group[w]]
  /\ UNCHANGED <<inbounds, silenced>>

\* Send the envelope: it goes out, it fails (for now, or for good), or the
\* outbound queue has it in other hands.
Dispatch(w) ==
  /\ phase[w] = "accepted"
  /\ \E m \in Msgs :
       /\ TurnId(w, m)
       /\ \/ /\ reply[m] = "accepted"
             /\ \/ reply' = [reply EXCEPT ![m] = "sent"] /\ Conclude(w, "processed")
                \/ reply' = reply /\ Conclude(w, "processed")
                \/ /\ \E s \in {"accepted", "dead"} : reply' = [reply EXCEPT ![m] = s]
                   /\ Conclude(w, "failed")
          \/ reply[m] = "sent" /\ Conclude(w, "processed") /\ UNCHANGED reply
          \/ reply[m] = "dead" /\ Conclude(w, "failed") /\ UNCHANGED reply
  /\ UNCHANGED <<inbounds, covers, silenced>>

-----------------------------------------------------------------------------
(* The end of a turn *)

\* Variant: the lock is released by its key, whoever holds it.
UnlockedByKey(w) ==
  [c \in Conversations |-> IF anchor[w] # 0 /\ c = Conv[anchor[w]] THEN None ELSE lock[c]]

Unlocked(w) == [c \in Conversations |-> IF lock[c] = w THEN None ELSE lock[c]]

\* The worker lets go of its row and of the conversation.
Leave(w) ==
  /\ phase'    = [phase EXCEPT ![w] = "idle"]
  /\ anchor'   = [anchor EXCEPT ![w] = 0]
  /\ group'    = [group EXCEPT ![w] = {}]
  /\ verdict'  = [verdict EXCEPT ![w] = "none"]
  /\ draining' = [draining EXCEPT ![w] = FALSE]
  /\ tries'    = [tries EXCEPT ![w] = [r \in Msgs |-> IF r \in todo'[w] THEN @[r] ELSE 0]]
  /\ lock'     = Unlocked(w)

\* mark_inbox_processed, mark_inbox_failed: by id, whoever holds the row.
SetMark(r, v) ==
  /\ status' = [status EXCEPT ![r] = v]
  /\ lease'  = [lease EXCEPT ![r] = "none"]
  /\ due'    = [due EXCEPT ![r] = FALSE]

\* The rows of the group are marked one transaction each.
Mark(w) ==
  /\ phase[w] = "marking"
  /\ \E r \in group[w] :
       /\ SetMark(r, verdict[w])
       /\ UNCHANGED todo
       /\ IF group[w] = {r}
            THEN Leave(w)
            ELSE /\ group' = [group EXCEPT ![w] = @ \ {r}]
                 /\ UNCHANGED <<phase, tries, anchor, verdict, draining, lock>>
  /\ UNCHANGED <<attempts, job, spent, turnVars>>

\* defer_inbox: the story is still being analysed; rows still leased go back
\* to pending, the attempt not counted.  A story comes over Instagram, where
\* nothing is merged; the model waits once per row.
Defer(w) ==
  /\ phase[w] = "claimed" /\ ~merge /\ job[anchor[w]] = "none"
  /\ \E m \in Msgs : TurnId(w, m) /\ reply[m] = "none"
  /\ LET rs == {r \in group[w] : status[r] = "leased"} IN
       /\ status'   = [r \in Msgs |-> IF r \in rs THEN "pending" ELSE status[r]]
       /\ lease'    = [r \in Msgs |-> IF r \in rs THEN "none" ELSE lease[r]]
       /\ attempts' = [r \in Msgs |-> IF r \in rs /\ attempts[r] > 0
                                        THEN attempts[r] - 1 ELSE attempts[r]]
       /\ job'      = [r \in Msgs |-> IF r \in rs THEN "running" ELSE job[r]]
  /\ UNCHANGED todo /\ Leave(w)
  /\ UNCHANGED <<due, spent, turnVars>>

\* An exception (no lock in time, a database or model error) reaches the
\* batch, which fails the anchor and nothing else, or buries it after its
\* last attempt; the drain only logs it.
Raise(w) ==
  /\ phase[w] # "idle"
  /\ IF draining[w]
       THEN UNCHANGED <<status, lease, due>>
       ELSE SetMark(anchor[w], IF tries[w][anchor[w]] >= MaxAttempts
                                 THEN "dead" ELSE "failed")
  /\ UNCHANGED todo /\ Leave(w)
  /\ UNCHANGED <<attempts, job, spent, turnVars>>

\* The process dies; PostgreSQL drops its session and the advisory lock.
Crash(w) ==
  /\ phase[w] # "idle" \/ todo[w] # {}
  /\ todo' = [todo EXCEPT ![w] = {}]
  /\ Leave(w)
  /\ UNCHANGED <<rowVars, turnVars>>

-----------------------------------------------------------------------------
(* Time and the neighbours *)

LeaseExpires(r) ==
  /\ status[r] = "leased" /\ lease[r] = "live"
  /\ lease' = [lease EXCEPT ![r] = "lapsed"]
  /\ UNCHANGED <<status, attempts, due, job, spent, workVars, lock, turnVars>>

BackoffElapses(r) ==
  /\ status[r] = "failed" /\ ~due[r]
  /\ due' = [due EXCEPT ![r] = TRUE]
  /\ UNCHANGED <<status, attempts, lease, job, spent, workVars, lock, turnVars>>

\* The story worker finishes the analysis, or gives it up.
JobSettles(r) ==
  /\ job[r] = "running"
  /\ job' = [job EXCEPT ![r] = "settled"]
  /\ UNCHANGED <<status, attempts, lease, due, spent, workVars, lock, turnVars>>

\* The outbound queue retries the envelope on its own, or gives it up.
OutboxSettles(m) ==
  /\ reply[m] = "accepted"
  /\ \E s \in {"sent", "dead"} : reply' = [reply EXCEPT ![m] = s]
  /\ UNCHANGED <<rowVars, workVars, lock, inbounds, covers, silenced>>

TurnStep(w) ==
  \/ MergeBurst(w) \/ Silence(w) \/ ClaimInbound(w) \/ Accept(w)
  \/ Dispatch(w) \/ Mark(w) \/ Defer(w)

\* The channel of the conversations never changes.
Next ==
  /\ UNCHANGED merge
  /\ \/ \E r \in Msgs : Enqueue(r) \/ LeaseExpires(r) \/ BackoffElapses(r)
                        \/ JobSettles(r) \/ OutboxSettles(r)
     \/ \E w \in Workers :
          \/ ClaimBatch(w) \/ PickRow(w) \/ AcquireLock(w)
          \/ \E r \in Msgs : DrainClaim(w, r)
          \/ TurnStep(w) \/ Raise(w) \/ Crash(w)

Spec == Init /\ [][Next]_vars

\* pg_cron keeps calling the batch; a live worker goes on, and an attempt to
\* get the lock ends in the lock or in an exception.
FairSpec ==
  /\ Spec
  /\ \A w \in Workers :
       /\ WF_moving(ClaimBatch(w)) /\ WF_moving(PickRow(w)) /\ WF_moving(TurnStep(w))
       /\ WF_moving(phase[w] = "waiting" /\ (AcquireLock(w) \/ Raise(w)))
  /\ \A r \in Msgs :
       WF_moving(LeaseExpires(r)) /\ WF_moving(BackoffElapses(r)) /\ WF_moving(JobSettles(r))

-----------------------------------------------------------------------------
(* Properties *)

\* Every variable stays in its range; in particular no claim, not even the
\* burst's, takes a row beyond its attempts, and a defer never below zero.
TypeOK ==
  /\ status   \in [Msgs -> Statuses]
  /\ attempts \in [Msgs -> 0..MaxAttempts]
  /\ lease    \in [Msgs -> {"none", "live", "lapsed"}]
  /\ due      \in [Msgs -> BOOLEAN]
  /\ job      \in [Msgs -> {"none", "running", "settled"}]
  /\ spent    \in SUBSET Msgs
  /\ phase    \in [Workers -> Phases]
  /\ todo     \in [Workers -> SUBSET Msgs]
  /\ tries    \in [Workers -> [Msgs -> 0..MaxAttempts]]
  /\ anchor   \in [Workers -> Msgs \cup {0}]
  /\ group    \in [Workers -> SUBSET Msgs]
  /\ verdict  \in [Workers -> {"none", "processed", "failed"}]
  /\ draining \in [Workers -> BOOLEAN]
  /\ lock     \in [Conversations -> Workers \cup {None}]
  /\ inbounds \in SUBSET Msgs
  /\ reply    \in [Msgs -> Replies]
  /\ covers   \in [Msgs -> SUBSET Msgs]
  /\ silenced \in SUBSET Msgs

\* A row has been dealt with: some turn answered it or chose to be silent.
Handled(r) == r \in silenced \/ \E m \in Msgs : r \in covers[m]

\* No message is dropped: a row is marked processed only when a turn
\* answered it, or when one chose not to (worker.py marks the whole group,
\* from many exits, and without an owner).
ProcessedIsHandled ==
  \A r \in Msgs : status[r] = "processed" => Handled(r)

\* A message is not answered twice, however often its row is delivered,
\* failed and taken up again: no two replies that covered it went out.
\* (Merged turns break it: a group that failed is taken up row by row, each
\* under a message id of its own.)
AnsweredOnce ==
  \A r, m, n \in Msgs :
    /\ r \in covers[m] /\ reply[m] = "sent"
    /\ r \in covers[n] /\ reply[n] = "sent"
    => m = n

\* Messages of a conversation are answered in the order they came: when a
\* reply is accepted, every earlier message has been dealt with or had run
\* out of attempts.  (Where bursts are merged the order can break.)
AnsweredInOrder ==
  [][~merge => \A m \in Msgs : reply[m] = "none" /\ reply'[m] # "none" =>
       \A q \in Msgs : \A r \in covers'[m] :
         Conv[q] = Conv[r] /\ q < r =>
           Handled(q) \/ q \in covers'[m] \/ q \in spent]_vars

\* A leased row can be taken over when its worker dies: the lease ends.
\* (A merged burst may copy the NULL lease of an anchor that somebody else
\* has marked meanwhile, and then it does not.)
LeaseIsRecoverable ==
  \A r \in Msgs : status[r] = "leased" => lease[r] # "none"

\* Only time stands between row q and a claim: its back-off, its lease or an
\* analysis that ends, and rows before it that are at their last attempt under a
\* lease that still runs.
OnlyWaits(q) ==
  /\ status[q] \in {"pending", "failed", "leased"} /\ ~Exhausted(q)
  /\ status[q] = "leased" => lease[q] # "none"
  /\ \A p \in Msgs : Blocks(p, q) =>
       status[p] = "leased" /\ lease[p] = "live" /\ Exhausted(p)

\* No conversation is blocked for good: as long as one of its messages has
\* attempts left, that message or an earlier one only waits for time to pass,
\* whatever became of the messages before it - failed for the last time, left
\* leased by a worker that died, marked by one that came too late.  (Where bursts
\* are merged a lease without end can block it: LeaseIsRecoverable.)
ConversationsGoOn ==
  ~merge => \A r \in Msgs :
    status[r] \in {"pending", "failed", "leased"} /\ ~Exhausted(r) =>
      \E q \in Msgs : Conv[q] = Conv[r] /\ q <= r /\ OnlyWaits(q)

\* Every message is dealt with in the end, or its attempts are used up.
Settles ==
  \A r \in Msgs : status[r] = "pending" ~> Handled(r) \/ r \in spent

\* One turn at a time in a conversation, whichever way its workers came in.
OneTurnPerConversation ==
  \A v, w \in Workers :
    /\ phase[v] \notin {"idle", "waiting"} /\ phase[w] \notin {"idle", "waiting"}
    /\ Conv[anchor[v]] = Conv[anchor[w]]
    => v = w

-----------------------------------------------------------------------------
(* Why messages are not dropped: the inductive invariant *)

InTurn(w) == phase[w] \notin {"idle", "waiting"}

\* Whoever is in a turn holds the lock of its conversation.
HoldsLock == \A w \in Workers : InTurn(w) => lock[Conv[anchor[w]]] = w

\* A group is the anchor and later rows of its conversation; a group being
\* marked has a verdict.
GroupAroundAnchor ==
  \A w \in Workers :
    /\ phase[w] = "idle" => group[w] = {}
    /\ phase[w] # "idle" => anchor[w] \in Msgs
    /\ phase[w] \notin {"idle", "marking"} => anchor[w] \in group[w]
    /\ phase[w] \in {"waiting", "locked"} => group[w] = {anchor[w]}
    /\ phase[w] = "marking" => verdict[w] # "none"
    /\ \A r \in group[w] : /\ Conv[r] = Conv[anchor[w]] /\ anchor[w] <= r
                           /\ r = anchor[w] \/ merge

\* A row that waits has attempts left; where bursts are merged it is also
\* unseen: no worker has it and no turn was ever claimed under its id.
WaitingIsUnseen ==
  \A r \in Msgs : status[r] \in {"absent", "pending"} =>
    /\ attempts[r] < MaxAttempts
    /\ merge => /\ reply[r] = "none"
                /\ \A w \in Workers : r \notin group[w] \cup todo[w]

\* A merged turn is new: its id is that of a row nobody answered.
MergedTurnIsNew ==
  \A w \in Workers : phase[w] \in {"merged", "claimed"} =>
    \A m \in Msgs : TurnId(w, m) /\ m # anchor[w] => reply[m] = "none"

\* An envelope covers at least the row it was accepted under.
CoversItself ==
  \A m \in Msgs : IF reply[m] = "none" THEN covers[m] = {} ELSE m \in covers[m]

\* So a worker about to mark rows processed has seen them handled.
MarksHandled ==
  \A w \in Workers :
    \/ phase[w] = "accepted" \/ (phase[w] = "marking" /\ verdict[w] = "processed")
    => \A r \in group[w] : Handled(r)

\* Where bursts are not merged, every lease has an end.
LeasesEnd == ~merge => LeaseIsRecoverable

InboxInv ==
  /\ TypeOK /\ HoldsLock /\ GroupAroundAnchor /\ WaitingIsUnseen
  /\ MergedTurnIsNew /\ CoversItself /\ MarksHandled /\ ProcessedIsHandled

=============================================================================
