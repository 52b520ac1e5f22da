----------------------------- MODULE MCDispatch -----------------------------
(* The three queues that dispatch_pending_queues (app/ingress/dispatch.py)  *)
(* drains, the inbox, the outbox and the Story analyses, as they settle     *)
(* under the dispatcher's fairness.  They share no state: each behaviour    *)
(* runs one, and the fairness of the others is void in it.                  *)
EXTENDS Outbox, StoryJobs

CONSTANTS NMessages, Conversations, ConvOf, Drainers, MaxTurns, InboxLimit

VARIABLES queue,  \* the one this behaviour runs
          mStatus, mAttempts, mLease, mDue, mJob, mSpent,
          dPhase, dTodo, dTries, dAnchor, dGroup, dVerdict, dDraining,
          cLock, cInbounds, cReply, cCovers, cSilenced, cMerge

In == INSTANCE Inbox WITH
  NRows <- NMessages, Conv <- ConvOf, Workers <- Drainers,
  MaxAttempts <- MaxTurns, BatchLimit <- InboxLimit,
  status <- mStatus, attempts <- mAttempts, lease <- mLease, due <- mDue,
  job <- mJob, spent <- mSpent, phase <- dPhase, todo <- dTodo, tries <- dTries,
  anchor <- dAnchor, group <- dGroup, verdict <- dVerdict, draining <- dDraining,
  lock <- cLock, inbounds <- cInbounds, reply <- cReply, covers <- cCovers,
  silenced <- cSilenced, merge <- cMerge

inboxMoving ==
  <<mStatus, mAttempts, mLease, mDue, mJob, mSpent,
    dPhase, dTodo, dTries, dAnchor, dGroup, dVerdict, dDraining,
    cLock, cInbounds, cReply, cCovers, cSilenced>>
inboxVars == <<inboxMoving, cMerge>>

OneConversation == [r \in 1..NMessages |-> CHOOSE c \in Conversations : TRUE]

DispatchInit ==
  /\ queue \in {"inbox", "outbox", "stories"} /\ In!Init /\ Init /\ StoryInit
  /\ queue # "inbox" => cMerge  \* its one choice

DispatchNext ==
  /\ UNCHANGED queue
  /\ \/ queue = "inbox" /\ In!Next /\ UNCHANGED <<vars, storyVars>>
     \/ queue = "outbox" /\ Next /\ UNCHANGED <<inboxVars, storyVars>>
     \/ queue = "stories" /\ StoryNext /\ UNCHANGED <<inboxVars, vars>>

\* Inbox's FairSpec, Outbox's Fairness and StoryFair.
InboxFairness ==
  /\ \A w \in Drainers :
       /\ WF_inboxMoving(queue = "inbox" /\ In!ClaimBatch(w))
       /\ WF_inboxMoving(queue = "inbox" /\ In!PickRow(w))
       /\ WF_inboxMoving(queue = "inbox" /\ In!TurnStep(w))
       /\ WF_inboxMoving(queue = "inbox" /\ dPhase[w] = "waiting" /\ (In!AcquireLock(w) \/ In!Raise(w)))
  /\ \A r \in In!Msgs :
       /\ WF_inboxMoving(queue = "inbox" /\ In!LeaseExpires(r))
       /\ WF_inboxMoving(queue = "inbox" /\ In!BackoffElapses(r))
       /\ WF_inboxMoving(queue = "inbox" /\ In!JobSettles(r))

OutboxFairness ==
  /\ \A w \in CronWorkers : WF_vars(queue = "outbox" /\ ClaimBatch(w))
  /\ \A w \in Workers : WF_vars(queue = "outbox" /\ WorkerStep(w))
  /\ \A r \in Rows :
       /\ WF_vars(queue = "outbox" /\ LeaseExpires(r))
       /\ WF_vars(queue = "outbox" /\ BackoffElapses(r))

StoriesFairness ==
  /\ WF_storyVars(queue = "stories" /\ GiveUp)
  /\ WF_storyVars(queue = "stories" /\ \E a \in Analysts : ClaimJob(a))
  /\ \A a \in Analysts : WF_storyVars(queue = "stories" /\ AnalystStep(a))
  /\ \A r \in Readers : WF_storyVars(queue = "stories" /\ Resume(r))
  /\ WF_storyVars(queue = "stories" /\ LeaseLapses)
  /\ WF_storyVars(queue = "stories" /\ ComesDue)

DispatchSpec ==
  /\ DispatchInit /\ [][DispatchNext]_<<queue, inboxVars, vars, storyVars>>
  /\ InboxFairness /\ OutboxFairness /\ StoriesFairness

\* Every message is dealt with in the end, or its attempts are used up (Inbox).
MessagesSettle == In!Settles

=============================================================================
