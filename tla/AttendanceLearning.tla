------------------------- MODULE AttendanceLearning -------------------------
(***************************************************************************)
(* What the agent learns from its answers                                  *)
(* (learning/attendance_learning.py, learning/cursor.py).  A turn that its *)
(* gates blocked leaves a review of the message, which is linked to the    *)
(* recorded reply when there is one.  A batch starts every quarter of an   *)
(* hour, and one more a day: it reads the delivered replies after the      *)
(* cursor, one for each message not reviewed yet, writes a review for each *)
(* and moves the cursor to the last it wrote.  Each of these is a          *)
(* transaction of its own, and nothing keeps two batches apart.            *)
(*                                                                         *)
(* Ids of replies are taken when the row is inserted, and seen once that is*)
(* committed.  A message belongs to the workspace its turn was run for; one*)
(* answered in the webhook, with media that cannot be viewed, belongs to   *)
(* none.  A batch reads the messages of its workspace, or all if it could  *)
(* not find out which that is; the cursor is the same for all of them.     *)
(***************************************************************************)
EXTENDS Sequences, FiniteSetsExt

CONSTANTS Messages,    \* ai_inbound_messages
          Workspaces,
          Batches,     \* batches that may run at once
          RowLimit,    \* learningBatchLimit
          MaxReplies,  \* bound: replies recorded
          MaxFailures  \* bound: failed calls, lost links and crashes

ASSUME LearningAssumption ==
  RowLimit \in Nat \ {0} /\ MaxReplies \in Nat /\ MaxFailures \in Nat

VARIABLES home,     \* the workspace of each message
          turn,     \* what became of each message
          copy,     \* a second process that delivered its reply
          replies,  \* ai_agent_responses, by id
          reviews,  \* ai_attendance_reviews: of which message, of which reply
          cursor,   \* last_response_id
          batch,    \* what each batch is about
          failures,
          missed,   \* history: replies seen after one with a later id, or read past
                    \* by a batch of another workspace
          causes    \* history: why a message may be reviewed twice

learningVars == <<home, turn, copy, replies, reviews, cursor, batch, failures, missed, causes>>

Ids == 1..MaxReplies
None == "no workspace"
NoBatch == [pc |-> "idle", from |-> 0, rows |-> {}, last |-> 0]

LearningInit ==
  /\ home \in [Messages -> Workspaces \cup {None}]
  /\ turn = [m \in Messages |-> [pc |-> "new", ok |-> FALSE, id |-> 0]]
  /\ copy = [m \in Messages |-> FALSE]
  /\ replies = <<>> /\ reviews = <<>> /\ cursor = 0
  /\ batch = [b \in Batches |-> NoBatch]
  /\ failures = 0 /\ missed = {} /\ causes = [m \in Messages |-> {}]

Works == UNCHANGED failures
Fails == failures < MaxFailures /\ failures' = failures + 1

Because(m, cause) == causes' = [causes EXCEPT ![m] = @ \cup {cause}]

Delivered(r) == r \in DOMAIN replies /\ replies[r].seen /\ replies[r].ok
Linked(r) == \E v \in DOMAIN reviews : reviews[v].reply = r
Unlinked(m) == {v \in DOMAIN reviews : reviews[v].of = m /\ reviews[v].reply = 0}
ReviewsOf(m) == {v \in DOMAIN reviews : reviews[v].of = m}

-----------------------------------------------------------------------------
(* The turn: ingress/worker.py, ingress/outbox_worker.py *)

Learner == <<cursor, batch>>

\* The reply is decided, and kept for later attempts.  record_pipeline_block_review
\* was called if a gate blocked it.
Decide(m) ==
  /\ turn[m].pc = "new" /\ Works
  /\ turn' = [turn EXCEPT ![m].pc = "accepted"]
  /\ reviews' \in {reviews, Append(reviews, [of |-> m, reply |-> 0])}
  /\ UNCHANGED <<copy, replies, Learner, missed, causes>>

\* The process dies after that: the turn is run again.
DieUndecided(m) ==
  /\ turn[m].pc = "new" /\ Fails
  /\ reviews' = Append(reviews, [of |-> m, reply |-> 0])
  /\ Because(m, "run again")
  /\ UNCHANGED <<turn, copy, replies, Learner, missed>>

Recording(m, ok, seen) ==
  /\ Len(replies) < MaxReplies
  /\ replies' = Append(replies, [of |-> m, ok |-> ok, seen |-> seen])
  /\ turn' = [turn EXCEPT ![m].pc = IF seen THEN "link" ELSE "recording",
                          ![m].ok = ok, ![m].id = Len(replies) + 1]

\* The reply is sent and recorded (insert_agent_response).  What was not
\* delivered is recorded as well, and tried again.
Send(m) ==
  /\ turn[m].pc = "accepted"
  /\ \/ Works /\ Recording(m, TRUE, FALSE)
     \/ Fails /\ Recording(m, FALSE, TRUE)
     \/ Fails /\ turn' = [turn EXCEPT ![m].pc = "done"] /\ UNCHANGED replies
  /\ UNCHANGED <<copy, reviews, Learner, missed, causes>>

\* Another dispatcher has the reply: this turn is over and the outbox worker
\* sends and records it, without a look at the reviews.
SendByQueue(m) ==
  /\ turn[m].pc = "accepted" /\ Works
  /\ Len(replies) < MaxReplies
  /\ replies' = Append(replies, [of |-> m, ok |-> TRUE, seen |-> FALSE])
  /\ turn' = [turn EXCEPT ![m].pc = "storing", ![m].ok = TRUE, ![m].id = Len(replies) + 1]
  /\ Because(m, "queued")
  /\ UNCHANGED <<copy, reviews, Learner, missed>>

AlreadyAnswered(m) == \E r \in DOMAIN replies : Delivered(r) /\ replies[r].of = m

\* The outbox worker, its lease taken over, has delivered the reply as well.
RecordAgain(m) ==
  /\ turn[m].pc = "recording" /\ ~copy[m]
  /\ Fails /\ ~AlreadyAnswered(m) /\ Len(replies) < MaxReplies
  /\ replies' = Append(replies, [of |-> m, ok |-> TRUE, seen |-> FALSE])
  /\ copy' = [copy EXCEPT ![m] = TRUE]
  /\ Because(m, "delivered twice")
  /\ UNCHANGED <<turn, reviews, Learner, missed>>

Commit(r) ==
  LET m == replies[r].of IN
  /\ r \in DOMAIN replies /\ ~replies[r].seen /\ Works
  /\ replies' = [replies EXCEPT ![r].seen = TRUE]
  /\ turn' = IF turn[m].id # r THEN turn
             ELSE [turn EXCEPT ![m].pc = IF @ = "recording" THEN "link" ELSE "done"]
  /\ missed' = missed \cup
       {q \in {r} : \E s \in DOMAIN replies : s > r /\ replies[s].seen}
  /\ UNCHANGED <<copy, reviews, Learner, causes>>

\* attach_response_id_to_pipeline_reviews: one UPDATE, which the unique index
\* refuses when the reply has a review already or would get two.
Link(m) ==
  LET id == turn[m].id
      lost == Unlinked(m)
  IN
  /\ turn[m].pc = "link"
  /\ turn' = [turn EXCEPT ![m].pc = IF turn[m].ok THEN "done" ELSE "accepted"]
  /\ \/ /\ Works /\ lost # {} /\ Cardinality(lost) = 1 /\ ~Linked(id)
        /\ reviews' = [v \in DOMAIN reviews |->
             IF v \in lost THEN [reviews[v] EXCEPT !.reply = id] ELSE reviews[v]]
        /\ IF turn[m].ok THEN UNCHANGED causes ELSE Because(m, "first attempt failed")
     \/ /\ Works /\ (Cardinality(lost) # 1 \/ Linked(id))
        /\ UNCHANGED <<reviews, causes>>
     \/ /\ Fails /\ lost # {} /\ UNCHANGED reviews /\ Because(m, "link lost")
  /\ UNCHANGED <<copy, replies, Learner, missed>>

TurnStep ==
  \/ \E m \in Messages :
       \/ Decide(m) \/ DieUndecided(m) \/ Send(m) \/ SendByQueue(m) \/ RecordAgain(m) \/ Link(m)
  \/ \E r \in DOMAIN replies : Commit(r)

-----------------------------------------------------------------------------
(* run_attendance_learning_batch *)

Turns == <<turn, copy, replies>>

\* A message one of whose delivered replies was reviewed.
Learnt(m) == \E v \in ReviewsOf(m) : Delivered(reviews[v].reply)

InView(r, view) == view \in {None, home[replies[r].of]}

\* fetch_attendances_since: of each message the last delivered reply.
Unlearnt(from, view) ==
  {r \in DOMAIN replies :
     /\ r > from /\ Delivered(r) /\ InView(r, view) /\ ~Learnt(replies[r].of)
     /\ \A s \in DOMAIN replies : s > r /\ Delivered(s) => replies[s].of # replies[r].of}

FirstOf(rows) == {r \in rows : Cardinality({s \in rows : s <= r}) <= RowLimit}

Start(b) ==
  /\ batch[b].pc = "idle" /\ Works
  /\ batch' = [batch EXCEPT ![b] = [NoBatch EXCEPT !.pc = "fetch", !.from = cursor,
                                                   !.last = cursor]]
  /\ UNCHANGED <<Turns, reviews, cursor, missed, causes>>

\* In the workspace the configuration names; or in all, if it could not be read.
Fetch(b, view) ==
  LET rows == FirstOf(Unlearnt(batch[b].from, view)) IN
  /\ batch[b].pc = "fetch" /\ Works
  /\ batch' = [batch EXCEPT ![b].from = 0, ![b].rows = rows,
                                ![b].pc = IF rows = {} THEN "save" ELSE "write"]
  /\ missed' = missed \cup
       {r \in DOMAIN replies : Delivered(r) /\ ~InView(r, view) /\ \E q \in rows : r <= q}
  /\ causes' = [m \in Messages |->
       IF turn[m].pc = "link" /\ turn[m].id \in rows THEN causes[m] \cup {"read before the link"}
       ELSE causes[m]]
  /\ UNCHANGED <<Turns, reviews, cursor>>

\* persist_attendance_review, of the next row.
Written(b, r) ==
  batch' = [batch EXCEPT ![b].rows = @ \ {r}, ![b].last = r,
                         ![b].pc = IF batch[b].rows = {r} THEN "save" ELSE "write"]

\* Variant: nothing makes the review of a reply unique.
WriteAlways(b) ==
  LET r == Min(batch[b].rows) IN
  /\ batch[b].pc = "write" /\ Works
  /\ reviews' = Append(reviews, [of |-> replies[r].of, reply |-> r])
  /\ Written(b, r) /\ UNCHANGED <<Turns, cursor, missed, causes>>

Write(b) ==
  LET r == Min(batch[b].rows) IN
  /\ batch[b].pc = "write"
  /\ \/ /\ Works /\ Written(b, r)
        /\ reviews' = IF Linked(r) THEN reviews
                      ELSE Append(reviews, [of |-> replies[r].of, reply |-> r])
     \/ /\ Fails /\ UNCHANGED reviews  \* the rest is left for the next batch
        /\ batch' = [batch EXCEPT ![b].pc = "save"]
  /\ UNCHANGED <<Turns, cursor, missed, causes>>

\* Variant: the cursor goes to the last row read.
SaveLastRead(b) ==
  /\ batch[b].pc = "save" /\ Works
  /\ cursor' = Max(batch[b].rows \cup {batch[b].last})
  /\ batch' = [batch EXCEPT ![b] = NoBatch]
  /\ UNCHANGED <<Turns, reviews, missed, causes>>

\* save_cursor: the last batch to write has it.
Save(b) ==
  /\ batch[b].pc = "save"
  /\ \/ Works /\ cursor' = batch[b].last
     \/ Fails /\ UNCHANGED cursor
  /\ batch' = [batch EXCEPT ![b] = NoBatch]
  /\ UNCHANGED <<Turns, reviews, missed, causes>>

Break(b) ==
  /\ batch[b].pc \in {"fetch", "write"} /\ Fails
  /\ batch' = [batch EXCEPT ![b] = NoBatch]
  /\ UNCHANGED <<Turns, reviews, cursor, missed, causes>>

BatchStep(b) ==
  \/ Start(b) \/ Write(b) \/ Save(b) \/ Break(b)
  \/ \E view \in Workspaces \cup {None} : Fetch(b, view)

LearningNext == UNCHANGED home /\ (TurnStep \/ \E b \in Batches : BatchStep(b))

LearningSpec == LearningInit /\ [][LearningNext]_learningVars

-----------------------------------------------------------------------------
(* Properties *)

\* The cursor leaves nothing behind: of every message with a delivered reply up
\* to it a delivered reply was reviewed or is still ahead, whatever batches ran
\* at once, broke off or moved the cursor back.  Only a reply that was seen
\* later than one with a later id may be missed, and one a batch of another
\* workspace read past: the answers given in the webhook among them.
NoneLeftBehind ==
  \A r \in DOMAIN replies : Delivered(r) /\ r <= cursor /\ r \notin missed =>
    \/ Learnt(replies[r].of)
    \/ \E s \in DOMAIN replies : s > cursor /\ Delivered(s) /\ replies[s].of = replies[r].of

\* A message counts as evidence twice only for a reason: its turn was run again
\* after the review, its reply went out by the queue, after a failed attempt or
\* twice, or the link of the review came late or not at all.
CountedOnce == \A m \in Messages : Cardinality(ReviewsOf(m)) > 1 => causes[m] # {}

=============================================================================
