------------------------------- MODULE Outbox -------------------------------
(***************************************************************************)
(* The durable outbound queue: table ai_outbound_outbox, written by        *)
(* app/ingress/outbox.py, drained by app/ingress/outbox_worker.py.         *)
(*                                                                         *)
(* A dispatcher is one inbound turn (inbox worker or webhook handler) that *)
(* accepted a reply and sends it at once; a cron worker is one run of      *)
(* process_outbox_batch.  Both take a lease on a row, call the channel     *)
(* provider and write the outcome back under the owner guard.  Every SQL   *)
(* transaction is one action and so is every provider call; a process may  *)
(* die between any two of them, and a lease may lapse at any moment.       *)
(*                                                                         *)
(* A row whose inbound is in Photos is a Meta reply with catalog photos:   *)
(* it is sent part by part, each acknowledged part checkpointed in the     *)
(* row.  Any other reply is one part.  (A WhatsApp reply with pictures is  *)
(* several messages in the code; it stands for one part here, because one  *)
(* of them acknowledged and a later one not is final and never replayed.)  *)
(*                                                                         *)
(* A part has up to NRoutes ways to its customer: the Meta end points one  *)
(* after the other, or for a WhatsApp text the transactional call and then *)
(* the conversation.  An answer that is no success sends the worker to the *)
(* next of them within the same claim, whether the part got out or not.    *)
(*                                                                         *)
(* Lease owners are fresh uuids per claim in the code; here the process is *)
(* the owner, which is as fine because a process runs one claim at a time  *)
(* and only ever writes to rows of its own current claim.                  *)
(***************************************************************************)
EXTENDS Naturals, FiniteSets

CONSTANTS Rows,          \* ids of ai_outbound_outbox rows
          Inbounds,      \* ids of inbound messages
          Dispatchers,   \* turns that enqueue and send inline
          CronWorkers,   \* runs of process_outbox_batch
          None,          \* SQL NULL
          Photos,        \* inbounds answered with text and photos over Meta
          NParts,        \* number of provider messages of such a reply
          NRoutes,       \* routes of a part tried in one claim (3 at most)
          MaxAttempts,   \* max_attempts column (8 in the schema)
          BatchLimit     \* limit of claim_pending_outbox

Workers == Dispatchers \cup CronWorkers

ASSUME OutboxAssumption ==
  /\ None \notin Workers /\ None \notin Rows /\ None \notin Inbounds
  /\ Dispatchers \cap CronWorkers = {}
  /\ Photos \subseteq Inbounds
  /\ NParts \in Nat \ {0}
  /\ NRoutes \in Nat \ {0}
  /\ MaxAttempts \in Nat \ {0}
  /\ BatchLimit \in Nat \ {0}

Statuses == {"absent", "pending", "leased", "sent", "failed", "dead"}
Phases   == {"idle", "claim", "status", "pick", "send", "checkpoint", "retry",
             "giveup", "record"}
Parts    == 1..NParts

VARIABLES
  \* the rows
  status,      \* status column; "absent": not inserted yet
  inbound,     \* inbound_id column
  attempts,    \* attempts column
  owner,       \* lease_owner column
  lapsed,      \* lease_expires_at < now()
  due,         \* retry back-off of a failed row has elapsed
  obsolete,    \* older than 15 minutes, or a later inbound message exists
  saved,       \* reply_payload.delivery_parts
  \* the processes
  phase,       \* where each worker is
  cur,         \* the row it works on
  todo,        \* rows of its batch not started yet
  seen,        \* delivery_parts as read at the claim, per row
  tried,       \* routes that failed for the part it is sending
  \* the outside, and what the properties count
  delivered,   \* messages the provider delivered, per row and part
  ambiguous,   \* sends delivered but answered with an error
  lapses,      \* leases that ran out under their worker, per row
  answered     \* successful ai_agent_responses row exists for the reply

rowVars  == <<status, inbound, attempts, owner, lapsed, due, obsolete, saved>>
workVars == <<phase, cur, todo, seen, tried>>
outVars  == <<delivered, ambiguous, lapses, answered>>
vars     == <<rowVars, workVars, outVars>>

Init ==
  /\ status   = [r \in Rows |-> "absent"]
  /\ inbound  = [r \in Rows |-> None]
  /\ attempts = [r \in Rows |-> 0]
  /\ owner    = [r \in Rows |-> None]
  /\ lapsed   = [r \in Rows |-> FALSE]
  /\ due      = [r \in Rows |-> FALSE]
  /\ obsolete = [r \in Rows |-> FALSE]
  /\ saved    = [r \in Rows |-> {}]
  /\ phase    = [w \in Workers |-> "idle"]
  /\ cur      = [w \in Workers |-> None]
  /\ todo     = [w \in Workers |-> {}]
  /\ seen     = [w \in Workers |-> [r \in Rows |-> {}]]
  /\ tried    = [w \in Workers |-> 0]
  /\ delivered = [r \in Rows |-> [p \in Parts |-> 0]]
  /\ ambiguous = [r \in Rows |-> 0]
  /\ lapses    = [r \in Rows |-> 0]
  /\ answered  = [r \in Rows |-> FALSE]

-----------------------------------------------------------------------------
(* Rows *)

\* The provider messages a row stands for.
PartsOf(r) == IF inbound[r] \in Photos THEN Parts ELSE {1}

\* Variant: the first acknowledged part passes for the whole reply.
RemainingAfterText(w) == IF seen[w][cur[w]] # {} THEN {} ELSE PartsOf(cur[w])

\* The parts a worker still has to send, from its own copy of the row.
Remaining(w) == PartsOf(cur[w]) \ seen[w][cur[w]]

\* The part that is sent, or checkpointed, next.
NextPart(w, p) == p \in Remaining(w) /\ \A q \in Remaining(w) : p <= q

\* Variant: lapsed leases are never looked at again.
ReclaimableUnleased(r) ==
  attempts[r] < MaxAttempts /\ status[r] \in {"pending", "failed"}

\* Variant: a lapsed lease is taken over however often that happened before.
ReclaimableForever(r) ==
  status[r] \in {"pending", "failed"} \/ (status[r] = "leased" /\ lapsed[r])

\* Rows a batch may lease or dead-letter: not settled, attempts left, and
\* not under somebody's live lease.
Reclaimable(r) ==
  /\ attempts[r] < MaxAttempts
  /\ \/ status[r] \in {"pending", "failed"}
     \/ status[r] = "leased" /\ lapsed[r]

\* Variant: a row somebody is sending is as good as a failed one.
ClaimableLeased(r) ==
  status[r] \in {"pending", "failed", "leased"} /\ attempts[r] < MaxAttempts

\* The row an inline claim takes: back-off or not, never a lapsed lease.
InlineClaimable(r) ==
  status[r] \in {"pending", "failed"} /\ attempts[r] < MaxAttempts

\* Variants: no guard at all, and a guard that forgets the owner.
OwnsUnguarded(w, r) == status[r] # "absent"
OwnsAnyLease(w, r)  == status[r] = "leased"

\* The owner guard of mark_outbox_sent and mark_outbox_failed.
Owns(w, r) == status[r] = "leased" /\ owner[r] = w

-----------------------------------------------------------------------------
(* The inline path: enqueue_outbound, dispatch_accepted_outbound *)

\* Variant: a dead row is no reason not to insert another.
AcceptedAlive(i) == {r \in Rows : inbound[r] = i /\ status[r] # "dead"}

\* The look-up of an envelope already accepted, whatever became of it.
Accepted(i) == {r \in Rows : inbound[r] = i}

\* The row already accepted for an inbound, if any; else insert one.  The
\* advisory lock on the inbound makes look-up and insert one step.
Enqueue(w, i) ==
  /\ phase[w] = "idle"
  /\ \/ /\ \E r \in Accepted(i) : cur' = [cur EXCEPT ![w] = r]
        /\ UNCHANGED <<status, inbound>>
     \/ /\ Accepted(i) = {}
        /\ \E r \in Rows :
             /\ status[r] = "absent"
             /\ status'  = [status EXCEPT ![r] = "pending"]
             /\ inbound' = [inbound EXCEPT ![r] = i]
             /\ cur'     = [cur EXCEPT ![w] = r]
  /\ phase' = [phase EXCEPT ![w] = "claim"]
  /\ UNCHANGED <<attempts, owner, lapsed, due, obsolete, saved, todo, seen,
                 tried, outVars>>

\* claim_outbox_for_send.
ClaimInline(w) ==
  /\ phase[w] = "claim"
  /\ LET r == cur[w]
     IN  IF InlineClaimable(r)
           THEN /\ status'   = [status EXCEPT ![r] = "leased"]
                /\ attempts' = [attempts EXCEPT ![r] = @ + 1]
                /\ owner'    = [owner EXCEPT ![r] = w]
                /\ due'      = [due EXCEPT ![r] = FALSE]
                /\ seen'     = [seen EXCEPT ![w][r] = saved[r]]
                /\ phase'    = [phase EXCEPT ![w] = "send"]
           ELSE /\ phase' = [phase EXCEPT ![w] = "status"]
                /\ UNCHANGED <<status, attempts, owner, due, seen>>
  /\ UNCHANGED <<inbound, lapsed, obsolete, saved, cur, todo, tried, outVars>>

\* Without a claim the dispatcher reads the status: a sent row counts as an
\* answer of this turn too, anything else is left to the queue.
ReadStatus(w) ==
  /\ phase[w] = "status"
  /\ IF status[cur[w]] = "sent"
       THEN /\ phase' = [phase EXCEPT ![w] = "record"]
            /\ UNCHANGED cur
       ELSE /\ phase' = [phase EXCEPT ![w] = "idle"]
            /\ cur'   = [cur EXCEPT ![w] = None]
  /\ UNCHANGED <<rowVars, todo, seen, tried, outVars>>

-----------------------------------------------------------------------------
(* The retry path: process_outbox_batch *)

\* claim_pending_outbox: first dead-letter what is obsolete, then lease up
\* to a batch of the rest.  SKIP LOCKED makes the choice of rows free.
ClaimBatch(w) ==
  LET Buried    == {r \in Rows : Reclaimable(r) /\ obsolete[r]}
      Claimable == {r \in Rows \ Buried :
                      Reclaimable(r) /\ (status[r] = "failed" => due[r])}
  IN  /\ phase[w] = "idle"
      /\ \E S \in SUBSET Claimable :
           /\ Cardinality(S) <= BatchLimit
           /\ S = {} => (Buried # {} /\ Claimable = {})
           /\ status' = [r \in Rows |-> IF r \in Buried THEN "dead"
                                        ELSE IF r \in S THEN "leased"
                                        ELSE status[r]]
           /\ attempts' = [r \in Rows |-> IF r \in S THEN attempts[r] + 1
                                          ELSE attempts[r]]
           /\ owner' = [r \in Rows |-> IF r \in S THEN w
                                       ELSE IF r \in Buried THEN None
                                       ELSE owner[r]]
           /\ lapsed' = [r \in Rows |-> lapsed[r] /\ r \notin S \cup Buried]
           /\ due'    = [r \in Rows |-> due[r] /\ r \notin S \cup Buried]
           /\ seen'   = [seen EXCEPT ![w] = [r \in Rows |->
                           IF r \in S THEN saved[r] ELSE {}]]
           /\ todo'   = [todo EXCEPT ![w] = S]
           /\ phase'  = [phase EXCEPT ![w] = IF S = {} THEN "idle" ELSE "pick"]
      /\ UNCHANGED <<inbound, obsolete, saved, cur, tried, outVars>>

\* The loop over the claimed rows, or its end.
PickRow(w) ==
  /\ phase[w] = "pick"
  /\ IF todo[w] = {}
       THEN /\ phase' = [phase EXCEPT ![w] = "idle"]
            /\ UNCHANGED <<cur, todo>>
       ELSE \E r \in todo[w] :
              /\ cur'   = [cur EXCEPT ![w] = r]
              /\ todo'  = [todo EXCEPT ![w] = @ \ {r}]
              /\ phase' = [phase EXCEPT ![w] = "send"]
  /\ UNCHANGED <<rowVars, seen, tried, outVars>>

-----------------------------------------------------------------------------
(* Sending, common to both paths *)

\* Variant: the acknowledgement is not remembered.
AcknowledgedForgotten(w, r, p) ==
  /\ delivered' = [delivered EXCEPT ![r][p] = @ + 1]
  /\ UNCHANGED <<phase, seen, tried, ambiguous>>

\* The provider acknowledges the part; with photos it is checkpointed next.
Acknowledged(w, r, p) ==
  /\ delivered' = [delivered EXCEPT ![r][p] = @ + 1]
  /\ IF inbound[r] \in Photos
       THEN /\ phase' = [phase EXCEPT ![w] = "checkpoint"]
            /\ UNCHANGED seen
       ELSE /\ seen' = [seen EXCEPT ![w][r] = @ \cup {p}]
            /\ UNCHANGED phase
  /\ tried' = [tried EXCEPT ![w] = 0]
  /\ UNCHANGED ambiguous

\* The call is not acknowledged, and the part may be out regardless.  A
\* refusing answer leads to the next route, if there is one and the refusal
\* is not final; an exception, or the last route, ends the attempt, for now
\* or for good.
Failed(w, r, p) ==
  /\ \/ /\ delivered' = [delivered EXCEPT ![r][p] = @ + 1]
        /\ ambiguous' = [ambiguous EXCEPT ![r] = @ + 1]
     \/ UNCHANGED <<delivered, ambiguous>>
  /\ \/ /\ \E verdict \in {"retry", "giveup"} :
             phase' = [phase EXCEPT ![w] = verdict]
        /\ tried' = [tried EXCEPT ![w] = 0]
     \/ /\ tried[w] + 1 < NRoutes
        /\ tried' = [tried EXCEPT ![w] = @ + 1]
        /\ UNCHANGED phase
  /\ UNCHANGED seen

\* One provider call for the next part, by the route it has come to.
SendPart(w) ==
  /\ phase[w] = "send"
  /\ \E p \in Parts :
       /\ NextPart(w, p)
       /\ Acknowledged(w, cur[w], p) \/ Failed(w, cur[w], p)
  /\ UNCHANGED <<rowVars, cur, todo, lapses, answered>>

\* record_delivery_part: checkpoint under a live lease, else give the row up.
RecordPart(w) ==
  /\ phase[w] = "checkpoint"
  /\ \E p \in Parts :
       /\ NextPart(w, p)
       /\ IF Owns(w, cur[w]) /\ ~lapsed[cur[w]]
            THEN /\ saved' = [saved EXCEPT ![cur[w]] = @ \cup {p}]
                 /\ seen'  = [seen EXCEPT ![w][cur[w]] = @ \cup {p}]
                 /\ phase' = [phase EXCEPT ![w] = "send"]
            ELSE /\ phase' = [phase EXCEPT ![w] = "retry"]
                 /\ UNCHANGED <<saved, seen>>
  /\ UNCHANGED <<status, inbound, attempts, owner, lapsed, due, obsolete,
                 cur, todo, tried, outVars>>

\* mark_outbox_sent, once every part is acknowledged.
MarkSent(w) ==
  LET r == cur[w]
  IN  /\ phase[w] = "send"
      /\ Remaining(w) = {}
      /\ IF Owns(w, r)
           THEN /\ status' = [status EXCEPT ![r] = "sent"]
                /\ owner'  = [owner EXCEPT ![r] = None]
                /\ lapsed' = [lapsed EXCEPT ![r] = FALSE]
           ELSE UNCHANGED <<status, owner, lapsed>>
      /\ phase' = [phase EXCEPT ![w] = "record"]
      /\ UNCHANGED <<inbound, attempts, due, obsolete, saved, cur, todo, seen,
                     tried, outVars>>

\* Where a worker goes after a row: the next of its batch, or home; what it
\* knew of the row is dropped.
NextRow(w) ==
  /\ phase' = [phase EXCEPT ![w] = IF w \in CronWorkers THEN "pick" ELSE "idle"]
  /\ cur'   = [cur EXCEPT ![w] = None]
  /\ seen'  = [seen EXCEPT ![w][cur[w]] = {}]

\* mark_outbox_failed: dead when the error is permanent or attempts are
\* exhausted.  The code compares the attempts read at the claim; under the
\* owner guard that is the row's own count.
MarkFailed(w) ==
  LET r == cur[w]
  IN  /\ phase[w] \in {"retry", "giveup"}
      /\ IF Owns(w, r)
           THEN /\ status' = [status EXCEPT ![r] =
                                IF phase[w] = "giveup" \/ attempts[r] >= MaxAttempts
                                  THEN "dead" ELSE "failed"]
                /\ owner'  = [owner EXCEPT ![r] = None]
                /\ lapsed' = [lapsed EXCEPT ![r] = FALSE]
           ELSE UNCHANGED <<status, owner, lapsed>>
      /\ NextRow(w)
      /\ UNCHANGED <<inbound, attempts, due, obsolete, saved, todo,
                     tried, outVars>>

\* insert_agent_response with provider_send_ok, after the row is marked.
RecordResponse(w) ==
  /\ phase[w] = "record"
  /\ answered' = [answered EXCEPT ![cur[w]] = TRUE]
  /\ NextRow(w)
  /\ UNCHANGED <<rowVars, todo, tried, delivered, ambiguous, lapses>>

-----------------------------------------------------------------------------
(* Time, customers and crashes *)

LeaseExpires(r) ==
  /\ status[r] = "leased" /\ ~lapsed[r]
  /\ lapsed' = [lapsed EXCEPT ![r] = TRUE]
  /\ lapses' = [lapses EXCEPT ![r] = @ + 1]
  /\ UNCHANGED <<status, inbound, attempts, owner, due, obsolete, saved,
                 workVars, delivered, ambiguous, answered>>

BackoffElapses(r) ==
  /\ status[r] = "failed" /\ ~due[r]
  /\ due' = [due EXCEPT ![r] = TRUE]
  /\ UNCHANGED <<status, inbound, attempts, owner, lapsed, obsolete, saved,
                 workVars, outVars>>

\* The customer writes again, or the retry window of 15 minutes closes.
BecomesObsolete(r) ==
  /\ status[r] # "absent" /\ ~obsolete[r]
  /\ obsolete' = [obsolete EXCEPT ![r] = TRUE]
  /\ UNCHANGED <<status, inbound, attempts, owner, lapsed, due, saved,
                 workVars, outVars>>

\* The process dies: its rows stay leased until the lease lapses.
Crash(w) ==
  /\ phase[w] # "idle"
  /\ phase' = [phase EXCEPT ![w] = "idle"]
  /\ cur'   = [cur EXCEPT ![w] = None]
  /\ todo'  = [todo EXCEPT ![w] = {}]
  /\ seen'  = [seen EXCEPT ![w] = [r \in Rows |-> {}]]
  /\ tried' = [tried EXCEPT ![w] = 0]
  /\ UNCHANGED <<rowVars, outVars>>

WorkerStep(w) ==
  \/ ClaimInline(w)
  \/ ReadStatus(w)
  \/ PickRow(w)
  \/ SendPart(w)
  \/ RecordPart(w)
  \/ MarkSent(w)
  \/ MarkFailed(w)
  \/ RecordResponse(w)

Next ==
  \/ \E w \in Dispatchers : \E i \in Inbounds : Enqueue(w, i)
  \/ \E w \in CronWorkers : ClaimBatch(w)
  \/ \E w \in Workers : WorkerStep(w) \/ Crash(w)
  \/ \E r \in Rows : LeaseExpires(r) \/ BackoffElapses(r) \/ BecomesObsolete(r)

Spec == Init /\ [][Next]_vars

\* pg_cron keeps calling process-queues, a running process takes its next
\* step, and clocks advance.  Nothing forces a message, a crash or an error.
Fairness ==
  /\ \A w \in CronWorkers : WF_vars(ClaimBatch(w))
  /\ \A w \in Workers : WF_vars(WorkerStep(w))
  /\ \A r \in Rows : WF_vars(LeaseExpires(r)) /\ WF_vars(BackoffElapses(r))

FairSpec == Spec /\ Fairness

-----------------------------------------------------------------------------
(* Properties *)

RowType ==
  /\ status   \in [Rows -> Statuses]
  /\ inbound  \in [Rows -> Inbounds \cup {None}]
  /\ attempts \in [Rows -> 0..MaxAttempts]
  /\ owner    \in [Rows -> Workers \cup {None}]
  /\ saved    \in [Rows -> SUBSET Parts]

FlagType ==
  /\ lapsed   \in [Rows -> BOOLEAN]
  /\ due      \in [Rows -> BOOLEAN]
  /\ obsolete \in [Rows -> BOOLEAN]
  /\ answered \in [Rows -> BOOLEAN]
  /\ tried    \in [Workers -> 0..(NRoutes - 1)]

WorkType ==
  /\ phase    \in [Workers -> Phases]
  /\ cur      \in [Workers -> Rows \cup {None}]
  /\ todo     \in [Workers -> SUBSET Rows]
  /\ seen     \in [Workers -> [Rows -> SUBSET Parts]]
  /\ \A w \in Workers : phase[w] \notin {"idle", "pick"} => cur[w] \in Rows

CountType ==
  /\ delivered \in [Rows -> [Parts -> Nat]]
  /\ ambiguous \in [Rows -> Nat]
  /\ lapses    \in [Rows -> Nat]

TypeOK == RowType /\ FlagType /\ WorkType /\ CountType

\* However many turns accept a reply to the same message, whatever became of
\* the first row, one envelope exists per inbound (enqueue_outbound).
OneRowPerInbound ==
  \A r, s \in Rows : inbound[r] = inbound[s] /\ inbound[r] # None => r = s

\* A row is marked sent only when every provider message of it has reached
\* the provider, across the attempts and processes that shared the work.
SentWasDelivered ==
  \A r \in Rows : status[r] = "sent" => \A p \in PartsOf(r) : delivered[r][p] >= 1

\* A successful response is recorded only for a reply that went out whole,
\* also when the recording process is not the one that sent it.
AnswerWasDelivered ==
  \A r \in Rows : answered[r] => \A p \in PartsOf(r) : delivered[r][p] >= 1

\* A claim puts a part out at most once by each of its routes, so that the
\* attempts bound the copies a customer gets, lost leases, crashes and ambiguous
\* answers included: whatever its workers, a row's claims pay for its messages.
CopiesBounded ==
  \A r \in Rows : \A p \in Parts : delivered[r][p] <= NRoutes * attempts[r]

\* A part is delivered twice only after a provider answered an error for
\* something it had delivered, or a lease lapsed under its worker.
DuplicateNeedsCause ==
  \A r \in Rows : \A p \in Parts :
    delivered[r][p] <= 1 + ambiguous[r] + lapses[r]

\* Worker w has row r in hand and has not written its outcome back.
Engaged(w, r) ==
  \/ r \in todo[w]
  \/ cur[w] = r /\ phase[w] \in {"send", "checkpoint", "retry", "giveup"}

\* Inline dispatch and the batch worker never have the same row in hand
\* unless a lease on it lapsed.
TwoHoldersNeedLapse ==
  \A r \in Rows : \A v, w \in Workers :
    Engaged(v, r) /\ Engaged(w, r) /\ v # w => lapses[r] >= 1

\* The lease owner of a reply with photos resumes from the checkpoints as
\* they are in the row: it never sends an acknowledged part again.
ResumePointCurrent ==
  \A w \in Workers : \A r \in Rows :
    Engaged(w, r) /\ Owns(w, r) /\ inbound[r] \in Photos => seen[w][r] = saved[r]

\* Every accepted reply is settled in the end: sent, dead, or left under a
\* lapsed lease by a worker that died on the last attempt, which neither
\* claim_pending_outbox nor its dead-lettering looks at again.
Stranded(r) == status[r] = "leased" /\ lapsed[r] /\ attempts[r] = MaxAttempts
Settles ==
  \A r \in Rows :
    status[r] = "pending" ~> status[r] \in {"sent", "dead"} \/ Stranded(r)

\* No accepted reply drops out of both paths: until it is settled a batch may
\* take it, or somebody has a lease on it, or it is stranded in the one way named
\* above.  The count that ends the retries is the count that ends the claims.
NoReplyForgotten ==
  \A r \in Rows :
    inbound[r] # None =>
      \/ status[r] \in {"sent", "dead"}
      \/ Reclaimable(r)
      \/ status[r] = "leased" /\ ~lapsed[r]
      \/ Stranded(r)

-----------------------------------------------------------------------------
(* What the queue promises *)

Promise ==
  INSTANCE ReplyPromise WITH
    Replies  <- Rows,
    Messages <- Inbounds,
    answers  <- inbound,
    outcome  <- [r \in Rows |->
                   IF status[r] = "sent" THEN "delivered"
                   ELSE IF status[r] = "dead" THEN "abandoned"
                   ELSE "open"],
    reached  <- [r \in Rows |-> \A p \in PartsOf(r) : delivered[r][p] >= 1]

\* The leases, retries and checkpoints of the queue implement that promise:
\* one reply per inbound, closed once, delivered only when it went out.
KeepsPromise == Promise!PromiseSpec

-----------------------------------------------------------------------------
(* The inductive strengthening of the delivery invariants *)

Whole(r) == \A p \in PartsOf(r) : delivered[r][p] >= 1

\* Rows are inserted with their inbound and without a second one for it;
\* what they record of a delivery has happened.
RowsSound ==
  /\ \A r \in Rows : status[r] = "absent" <=> inbound[r] = None
  /\ \A r \in Rows : \A p \in Parts : inbound[r] = None => delivered[r][p] = 0
  /\ OneRowPerInbound
  /\ \A r \in Rows : \A p \in saved[r] : delivered[r][p] >= 1
  /\ \A r \in Rows : status[r] = "sent" => Whole(r)
  /\ \A r \in Rows : answered[r] => inbound[r] # None /\ Whole(r)

\* A worker works on inserted rows, and what it believes delivered is.
WorkersSound ==
  \A w \in Workers :
    /\ phase[w] \notin {"idle", "pick"} => inbound[cur[w]] # None
    /\ \A r \in todo[w] : inbound[r] # None
    /\ \A r \in Rows : \A p \in seen[w][r] : delivered[r][p] >= 1
    /\ phase[w] = "checkpoint" =>
         \A p \in Parts : NextPart(w, p) => delivered[cur[w]][p] >= 1
    /\ phase[w] = "record" => Whole(cur[w])

DeliveryInv == TypeOK /\ RowsSound /\ WorkersSound

\* A row is inserted unclaimed, and put back only with attempts left.
AttemptsLeft ==
  \A r \in Rows :
    /\ status[r] \in {"absent", "pending"} => attempts[r] = 0
    /\ status[r] = "failed" => attempts[r] < MaxAttempts
=============================================================================
