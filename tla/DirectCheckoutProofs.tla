------------------------ MODULE DirectCheckoutProofs ------------------------
(***************************************************************************)
(* Theorems about DirectCheckout, for any number of messages, proposals,   *)
(* runners and facts of the store: its inductive invariant, and that it    *)
(* implements PurchasePromise.                                             *)
(***************************************************************************)
EXTENDS DirectCheckout, TLAPS

AskType  == [kind : {"absent", "text", "no", "confirm", "cancel"}, code : {0} \cup Proposals]
TurnType == [at : Places, message : {0} \cup Messages, seen : Talk, answer : Talk]

LEMMA Ranges ==
  /\ 0 \notin Proposals
  /\ \A p \in Proposals : p \in Nat
  /\ \A m \in Messages : m \in Nat
  /\ \A k, m, n \in Messages : k < m /\ m < n => k < n
BY CheckoutAssumption DEF CheckoutAssumption, Proposals, Messages

LEMMA WordsAreTalk ==
  /\ Nothing \in Talk /\ NoReply \in Talk /\ Nothing.proposal = 0 /\ NoReply.proposal = 0
  /\ Off \in TurnType
  /\ Absent \in AskType
  /\ \A p \in Proposals, s \in JournalStatus \cup {"awaiting"} : Says(s, p) \in Talk
BY DEF Nothing, NoReply, Talk, Off, TurnType, Places, Absent, AskType, Says, JournalStatus

\* A word is its status and its proposal.
LEMMA WordsDiffer ==
  ASSUME NEW p, NEW s
  PROVE  /\ Says(s, p).status = s /\ Says(s, p).proposal = p
         /\ \A w \in Talk : w.status = s /\ w.proposal = p => w = Says(s, p)
BY DEF Says, Talk

-----------------------------------------------------------------------------
(* What a step leaves alone *)

\* A turn's step is a step of that turn only.
LEMMA OneTurnSteps ==
  ASSUME CheckoutTypeOK, TalkIsShown, TurnsHaveOrders, NEW r \in Runners, TurnStep(r)
  PROVE  /\ turn' \in [Runners -> TurnType]
         /\ \A s \in Runners \ {r} : turn'[s] = turn[s]
<1> USE WordsAreTalk
<1>1. turn \in [Runners -> TurnType] /\ turn[r] \in TurnType /\ reply \in [Messages -> Talk]
      /\ journal \in [Proposals -> JournalStatus \cup {"none"}]
  BY DEF CheckoutTypeOK, TurnType
<1>2. turn[r].at \in {"confirming", "objecting", "verified", "doubting"} => Code(r) \in Proposals
  BY DEF TurnsHaveOrders, Executing, Unsent
<1>3. ASSUME NEW t \in TurnType, turn' = [turn EXCEPT ![r] = t]
      PROVE  /\ turn' \in [Runners -> TurnType]
             /\ \A s \in Runners \ {r} : turn'[s] = turn[s]
  BY <1>1, <1>3
<1>4. ASSUME NEW from, NEW to \in Places, Goes(r, from, to)
      PROVE  \E t \in TurnType : turn' = [turn EXCEPT ![r] = t]
  <2> DEFINE t == [turn[r] EXCEPT !.at = to]
  <2>1. t \in TurnType
    BY <1>1 DEF TurnType
  <2>2. turn' = [turn EXCEPT ![r] = t]
    BY <1>1, <1>4 DEF Goes
  <2> QED
    BY <2>1, <2>2
<1>5. ASSUME NEW from, NEW says \in Talk, Answers(r, from, says)
      PROVE  \E t \in TurnType : turn' = [turn EXCEPT ![r] = t]
  <2> DEFINE t == [turn[r] EXCEPT !.at = "answering", !.answer = says, !.seen = Nothing]
  <2>1. t \in TurnType
    BY <1>1 DEF TurnType, Places
  <2>2. turn' = [turn EXCEPT ![r] = t]
    BY <1>1, <1>5 DEF Answers
  <2> QED
    BY <2>1, <2>2
<1>6. CASE \E m \in Messages : Begin(r, m)
  <2>1. PICK m \in Messages : Begin(r, m)
    BY <1>6
  <2>2. PICK seen \in Previous(m) :
          turn' = [turn EXCEPT ![r] = [at |-> "reading", message |-> m, seen |-> seen, answer |-> Nothing]]
    BY <2>1 DEF Begin
  <2>3. seen \in Talk
    BY <1>1 DEF Previous, Latest
  <2>4. [at |-> "reading", message |-> m, seen |-> seen, answer |-> Nothing] \in TurnType
    BY <2>3 DEF TurnType, Places
  <2> QED
    BY <2>2, <2>4, <1>3
<1>7. CASE Recognise(r) \/ Revalidates(r) \/ Objects(r) \/ Send(r) \/ Verifies(r) \/ Doubts(r)
  <2>1. \E from, to \in Places : Goes(r, from, to)
    BY <1>7 DEF Recognise, Revalidates, Objects, Send, Verifies, Doubts, Places
  <2> QED
    BY <2>1, <1>3, <1>4
<1>8. CASE Propose(r) \/ Carry(r) \/ DropProposal(r)
  <2>1. \E says \in Talk : Answers(r, "reading", says)
    BY <1>1, <1>8 DEF Propose, Carry, DropProposal, Known, TurnType
  <2> QED
    BY <2>1, <1>3, <1>5
<1>9. CASE ClaimProposal(r) \/ ClaimFails(r) \/ Reject(r) \/ Complete(r) \/ RecordDoubt(r)
  <2>1. Code(r) \in Proposals
    BY <1>2, <1>9 DEF ClaimProposal, ClaimFails, Reject, Complete, RecordDoubt, At
  <2>2. \A s \in JournalStatus \cup {"awaiting"} : Says(s, Code(r)) \in Talk
    BY <2>1
  <2>3. ~Owns(Code(r)) => journal[Code(r)] \in JournalStatus
    BY <1>1, <2>1 DEF Owns
  <2>4. (\E from, to \in Places : Goes(r, from, to)) \/ (\E from, says \in Talk : Answers(r, from, says))
        \/ (\E says \in Talk, from \in Places : Answers(r, from, says))
    BY <1>9, <2>2, <2>3
       DEF ClaimProposal, ClaimFails, Reject, Complete, RecordDoubt, Places, JournalStatus
  <2> QED
    BY <2>4, <1>3, <1>4, <1>5
<1>10. CASE Accept(r) \/ TurnEnds(r)
  BY <1>3, <1>10 DEF Accept, TurnEnds
<1> QED
  BY <1>6, <1>7, <1>8, <1>9, <1>10 DEF TurnStep

\* What has been said, shown, asked or made stays.
LEMMA TalkLasts ==
  ASSUME CheckoutTypeOK, TalkIsShown, CheckoutNext
  PROVE  /\ \A m \in Messages : reply[m] # NoReply => reply'[m] = reply[m]
         /\ \A m \in Messages : shown[m] => shown'[m]
         /\ \A m \in Messages : asks[m] # Absent => asks'[m] = asks[m]
         /\ \A p \in Proposals : cart[p] = "reviewed" => cart'[p] = "reviewed"
<1> USE DEF CheckoutTypeOK, talkVars, storeVars
<1>1. CASE \E r \in Runners : Accept(r)
  <2>1. PICK r \in Runners : Accept(r)
    BY <1>1
  <2>2. UNCHANGED <<asks, shown, cart>>
    BY <2>1 DEF Accept
  <2>3. \A m \in Messages : reply[m] # NoReply => reply'[m] = reply[m]
    BY <2>1 DEF Accept
  <2> QED
    BY <2>2, <2>3
<1>2. CASE \E m \in Messages : Deliver(m)
  BY <1>2 DEF Deliver
<1>3. CASE \E m \in Messages : CustomerWrites(m)
  BY <1>3 DEF CustomerWrites
<1>4. CASE \E p \in Proposals : Lands(p)
  BY <1>4 DEF Lands
<1>5. CASE Reprice \/ \E p \in Proposals : Expire(p)
  BY <1>5 DEF Expire, Reprice
<1>6. ASSUME NEW r \in Runners, TurnStep(r), ~Accept(r)
      PROVE  UNCHANGED <<asks, reply, shown, cart>>
  BY <1>6 DEF TurnStep, Begin, Propose, Carry, DropProposal, Recognise, ClaimProposal, ClaimFails,
     Revalidates, Objects, Reject, Send, Verifies, Doubts, Complete, RecordDoubt, TurnEnds
<1> QED
  BY <1>1, <1>2, <1>3, <1>4, <1>5, <1>6 DEF CheckoutNext

\* A proposal that was shown before a message stays so.
LEMMA ShownStays ==
  ASSUME CheckoutTypeOK, TalkIsShown, CheckoutNext,
         NEW p \in Proposals, NEW m, ShownBefore(p, m)
  PROVE  ShownBefore(p, m)'
<1>1. PICK k \in Messages : k < m /\ shown[k] /\ reply[k] = Says("awaiting", p)
  BY DEF ShownBefore
<1>2. reply[k] # NoReply
  BY <1>1 DEF TalkIsShown
<1>3. shown'[k] /\ reply'[k] = reply[k]
  BY <1>1, <1>2, TalkLasts
<1> QED
  BY <1>1, <1>3 DEF ShownBefore

\* What a delivered reply says of a proposal before message m was shown before m.
LEMMA HistoryIsShown ==
  ASSUME CheckoutTypeOK, TalkIsShown, NEW m \in Messages, NEW w \in Previous(m), NEW p \in Proposals,
         w.proposal = p
  PROVE  ShownBefore(p, m)
<1>1. PICK k \in Messages : k < m /\ shown[k] /\ w = reply[k]
  BY WordsAreTalk, Ranges DEF Previous, Latest
<1>2. reply[k] \in Talk
  BY DEF CheckoutTypeOK
<1>3. CASE reply[k].status = "awaiting"
  BY <1>1, <1>2, <1>3, WordsDiffer DEF ShownBefore
<1>4. CASE ShownBefore(p, k)
  <2>1. PICK j \in Messages : j < k /\ shown[j] /\ reply[j] = Says("awaiting", p)
    BY <1>4 DEF ShownBefore
  <2>2. j < m
    BY <1>1, <2>1, Ranges
  <2> QED
    BY <2>1, <2>2 DEF ShownBefore
<1> QED
  BY <1>1, <1>3, <1>4 DEF TalkIsShown

-----------------------------------------------------------------------------
(* Each part of the invariant stays *)

LEMMA TypesStay ==
  ASSUME CheckoutTypeOK, TalkIsShown, TurnsHaveOrders, CheckoutNext
  PROVE  CheckoutTypeOK'
<1> USE DEF talkVars, storeVars
<1>1. turn' \in [Runners -> TurnType]
  <2>1. CASE \E r \in Runners : TurnStep(r)
    BY <2>1, OneTurnSteps
  <2>2. CASE UNCHANGED turn
    BY <2>2 DEF CheckoutTypeOK, TurnType
  <2> QED
    BY <2>1, <2>2 DEF CheckoutNext, Deliver, CustomerWrites, Lands, Expire, Reprice
<1>2. asks' \in [Messages -> AskType]
  <2>1. CASE UNCHANGED asks
    BY <2>1 DEF CheckoutTypeOK, AskType
  <2>2. CASE \E m \in Messages : CustomerWrites(m)
    <3>1. PICK m \in Messages : CustomerWrites(m)
      BY <2>2
    <3>2. PICK kind \in {"text", "no", "confirm", "cancel"}, p \in Proposals \cup {0} :
            asks' = [asks EXCEPT ![m] = [kind |-> kind, code |-> p]]
      BY <3>1 DEF CustomerWrites
    <3> QED
      BY <3>2 DEF CheckoutTypeOK, AskType
  <2> QED
    BY <2>1, <2>2 DEF CheckoutNext, Deliver, Lands, Expire, Reprice, TurnStep, Begin, Propose, Carry,
       DropProposal, Recognise, ClaimProposal, ClaimFails, Revalidates, Objects, Reject, Send, Verifies,
       Doubts, Complete, RecordDoubt, Accept, TurnEnds
<1>3. reply' \in [Messages -> Talk]
  <2>1. CASE UNCHANGED reply
    BY <2>1 DEF CheckoutTypeOK
  <2>2. CASE \E r \in Runners : Accept(r)
    <3>1. PICK r \in Runners : Accept(r)
      BY <2>2
    <3>2. turn[r].answer \in Talk
      BY DEF CheckoutTypeOK
    <3> QED
      BY <3>1, <3>2 DEF Accept, CheckoutTypeOK
  <2> QED
    BY <2>1, <2>2 DEF CheckoutNext, Deliver, CustomerWrites, Lands, Expire, Reprice, TurnStep, Begin,
       Propose, Carry, DropProposal, Recognise, ClaimProposal, ClaimFails, Revalidates, Objects, Reject,
       Send, Verifies, Doubts, Complete, RecordDoubt, TurnEnds
<1>4. /\ shown' \in [Messages -> BOOLEAN] /\ reviewed' \in [Proposals -> SUBSET Facts]
      /\ stale' \in [Proposals -> BOOLEAN] /\ offered' \in Facts
      /\ cart' \in [Proposals -> {"none", "reviewed", "other"}]
  <2>1. ASSUME NEW r \in Runners, TurnStep(r)
        PROVE  UNCHANGED <<shown, stale, offered, cart>> /\ reviewed' \in [Proposals -> SUBSET Facts]
    BY <2>1 DEF CheckoutTypeOK, TurnStep, Begin, Propose, Carry, DropProposal, Recognise, ClaimProposal,
       ClaimFails, Revalidates, Objects, Reject, Send, Verifies, Doubts, Complete, RecordDoubt, Accept,
       TurnEnds
  <2>2. CASE ~\E r \in Runners : TurnStep(r)
    BY <2>2 DEF CheckoutTypeOK, CheckoutNext, Deliver, CustomerWrites, Lands, Expire, Reprice
  <2> QED
    BY <2>1, <2>2 DEF CheckoutTypeOK
<1>5. journal' \in [Proposals -> JournalStatus \cup {"none"}]
  <2>1. CASE UNCHANGED journal
    BY <2>1 DEF CheckoutTypeOK
  <2>2. ASSUME NEW r \in Runners,
               ClaimProposal(r) \/ ClaimFails(r) \/ Reject(r) \/ Complete(r) \/ RecordDoubt(r)
        PROVE  journal' \in [Proposals -> JournalStatus \cup {"none"}]
    BY <2>2 DEF CheckoutTypeOK, ClaimProposal, ClaimFails, Reject, Complete, RecordDoubt, Finish, JournalStatus
  <2> QED
    BY <2>1, <2>2 DEF CheckoutNext, Deliver, CustomerWrites, Lands, Expire, Reprice, TurnStep, Begin,
       Propose, Carry, DropProposal, Recognise, Revalidates, Objects, Send, Verifies, Doubts, Accept, TurnEnds
<1>6. posts' \in [Proposals -> Nat]
  <2>1. CASE UNCHANGED posts
    BY <2>1 DEF CheckoutTypeOK
  <2>2. CASE \E r \in Runners : Send(r)
    <3>1. PICK r \in Runners : Send(r)
      BY <2>2
    <3>2. Code(r) \in Proposals /\ posts[Code(r)] + 1 \in Nat
      BY <3>1 DEF Send, Goes, At, TurnsHaveOrders, Executing, Unsent, CheckoutTypeOK
    <3> QED
      BY <3>1, <3>2 DEF Send, CheckoutTypeOK
  <2> QED
    BY <2>1, <2>2 DEF CheckoutNext, Deliver, CustomerWrites, Lands, Expire, Reprice, TurnStep, Begin,
       Propose, Carry, DropProposal, Recognise, ClaimProposal, ClaimFails, Revalidates, Objects, Reject,
       Verifies, Doubts, Complete, RecordDoubt, Accept, TurnEnds
<1> QED
  BY <1>1, <1>2, <1>3, <1>4, <1>5, <1>6 DEF CheckoutTypeOK, AskType, TurnType

\* What a turn knows and answers after a step of it.
LEMMA TurnSays ==
  ASSUME CheckoutInv, NEW r \in Runners, TurnStep(r)
  PROVE  \/ turn'[r].seen = Nothing /\ turn'[r].answer = Nothing
         \/ turn'[r].message = turn[r].message /\ turn'[r].seen = turn[r].seen /\ turn'[r].answer = turn[r].answer
         \/ turn'[r].message \in Messages /\ turn'[r].seen \in Previous(turn'[r].message)
            /\ turn'[r].answer = Nothing
         \/ /\ turn'[r].message = turn[r].message /\ turn'[r].seen = Nothing
            /\ \/ turn'[r].answer = turn[r].seen
               \/ \E p \in Proposals : turn'[r].answer = Says("awaiting", p)
               \/ \E status \in JournalStatus :
                    /\ turn'[r].answer = Says(status, Code(r))
                    /\ Code(r) \in Proposals /\ turn[r].seen.proposal = Code(r)
                    /\ status = "completed" => cart[Code(r)] = "reviewed"
<1> USE DEF CheckoutInv
<1>1. turn \in [Runners -> TurnType] /\ turn[r] \in TurnType
      /\ journal \in [Proposals -> JournalStatus \cup {"none"}]
  BY DEF CheckoutTypeOK, TurnType
<1>2. turn[r].at \in {"confirming", "objecting", "verified", "doubting"} =>
        Code(r) \in Proposals /\ turn[r].seen.proposal = Code(r)
  BY DEF TurnsHaveOrders, Executing, Unsent, Known
<1>3. ASSUME NEW from, NEW to, Goes(r, from, to)
      PROVE  turn'[r].message = turn[r].message /\ turn'[r].seen = turn[r].seen /\ turn'[r].answer = turn[r].answer
  BY <1>1, <1>3 DEF Goes, TurnType
<1>4. ASSUME NEW from, NEW says, Answers(r, from, says)
      PROVE  turn'[r].message = turn[r].message /\ turn'[r].seen = Nothing /\ turn'[r].answer = says
  BY <1>1, <1>4 DEF Answers, TurnType
<1>5. CASE \E m \in Messages : Begin(r, m)
  BY <1>1, <1>5 DEF Begin
<1>6. CASE Recognise(r) \/ Revalidates(r) \/ Objects(r) \/ Send(r) \/ Verifies(r) \/ Doubts(r)
  BY <1>3, <1>6 DEF Recognise, Revalidates, Objects, Send, Verifies, Doubts
<1>7. CASE Propose(r)
  BY <1>4, <1>7 DEF Propose
<1>8. CASE Carry(r) \/ DropProposal(r)
  BY <1>4, <1>8 DEF Carry, DropProposal, Known
<1>9. CASE ClaimProposal(r)
  <2>1. CASE Owns(Code(r))
    BY <1>3, <1>9, <2>1 DEF ClaimProposal
  <2>2. CASE ~Owns(Code(r))
    <3>1. Answers(r, "confirming", Says(journal[Code(r)], Code(r))) /\ Code(r) \in Proposals
          /\ turn[r].seen.proposal = Code(r)
      BY <1>2, <1>9, <2>2 DEF ClaimProposal, At
    <3>2. journal[Code(r)] \in JournalStatus
      BY <1>1, <2>2, <3>1 DEF Owns
    <3>3. journal[Code(r)] = "completed" => cart[Code(r)] = "reviewed"
      BY <3>1 DEF ReceiptsAreTrue
    <3> QED
      BY <1>4, <3>1, <3>2, <3>3
  <2> QED
    BY <2>1, <2>2
<1>10. CASE ClaimFails(r) \/ RecordDoubt(r)
  <2>1. Code(r) \in Proposals /\ turn[r].seen.proposal = Code(r)
    BY <1>2, <1>10 DEF ClaimFails, RecordDoubt, At
  <2>2. \E from : Answers(r, from, Says("unknown", Code(r)))
    BY <1>10 DEF ClaimFails, RecordDoubt
  <2>3. "unknown" \in JournalStatus
    BY DEF JournalStatus
  <2> QED
    BY <1>4, <2>1, <2>2, <2>3
<1>11. CASE Reject(r)
  <2>1. Code(r) \in Proposals /\ turn[r].seen.proposal = Code(r)
    BY <1>2, <1>11 DEF Reject, At
  <2>2. Answers(r, "objecting", Nothing) \/ Answers(r, "objecting", Says("unknown", Code(r)))
    BY <1>11 DEF Reject
  <2>3. "unknown" \in JournalStatus
    BY DEF JournalStatus
  <2> QED
    BY <1>4, <2>1, <2>2, <2>3
<1>12. CASE Complete(r)
  <2>1. Code(r) \in Proposals /\ turn[r].seen.proposal = Code(r) /\ turn[r].at = "verified"
    BY <1>2, <1>12 DEF Complete, At
  <2>2. cart[Code(r)] = "reviewed"
    BY <2>1 DEF ClaimHasOneOwner, Executes, Executing
  <2>3. Goes(r, "verified", "doubting") \/ Answers(r, "verified", Says("completed", Code(r)))
    BY <1>12 DEF Complete
  <2>4. "completed" \in JournalStatus
    BY DEF JournalStatus
  <2> QED
    BY <1>3, <1>4, <2>1, <2>2, <2>3, <2>4
<1>13. CASE Accept(r) \/ TurnEnds(r)
  BY <1>1, <1>13 DEF Accept, TurnEnds, Off
<1> QED
  BY <1>5, <1>6, <1>7, <1>8, <1>9, <1>10, <1>11, <1>12, <1>13 DEF TurnStep

\* A turn that does not step keeps what it has.
LEMMA OthersKeep ==
  ASSUME CheckoutInv, CheckoutNext, NEW s \in Runners, ~TurnStep(s)
  PROVE  turn'[s] = turn[s]
<1>1. CASE \E r \in Runners : TurnStep(r)
  <2>1. PICK r \in Runners : TurnStep(r)
    BY <1>1
  <2> QED
    BY <2>1, OneTurnSteps DEF CheckoutInv
<1>2. CASE UNCHANGED turn
  BY <1>2
<1> QED
  BY <1>1, <1>2 DEF CheckoutNext, Deliver, CustomerWrites, Lands, Expire, Reprice

\* A reply comes from a turn.
LEMMA RepliesAreAccepted ==
  ASSUME CheckoutInv, CheckoutNext, NEW m \in Messages, reply'[m] # reply[m]
  PROVE  \E r \in Runners : m = turn[r].message /\ reply'[m] = turn[r].answer
<1>1. CASE \E r \in Runners : Accept(r)
  <2>1. PICK r \in Runners : Accept(r)
    BY <1>1
  <2> QED
    BY <2>1 DEF Accept, CheckoutInv, CheckoutTypeOK
<1>2. CASE UNCHANGED reply
  BY <1>2
<1> QED
  BY <1>1, <1>2 DEF CheckoutNext, Deliver, CustomerWrites, Lands, Expire, Reprice, TurnStep, Begin,
     Propose, Carry, DropProposal, Recognise, ClaimProposal, ClaimFails, Revalidates, Objects, Reject,
     Send, Verifies, Doubts, Complete, RecordDoubt, TurnEnds, talkVars, storeVars

LEMMA TalkStays ==
  ASSUME CheckoutInv, CheckoutNext
  PROVE  TalkIsShown'
<1>0. CheckoutTypeOK /\ TalkIsShown /\ TurnsHaveOrders /\ CheckoutTypeOK'
  BY TypesStay DEF CheckoutInv
<1>1. ASSUME NEW m \in Messages, shown'[m]
      PROVE  reply'[m] # NoReply
  <2>1. CASE shown[m]
    BY <1>0, <2>1, TalkLasts DEF TalkIsShown
  <2>2. CASE ~shown[m]
    <3>1. Deliver(m)
      BY <1>0, <1>1, <2>2 DEF CheckoutTypeOK, CheckoutNext, Deliver, CustomerWrites, Lands, Expire, Reprice,
         TurnStep, Begin, Propose, Carry, DropProposal, Recognise, ClaimProposal, ClaimFails, Revalidates,
         Objects, Reject, Send, Verifies, Doubts, Complete, RecordDoubt, Accept, TurnEnds, talkVars
    <3> QED
      BY <3>1 DEF Deliver
  <2> QED
    BY <2>1, <2>2
<1>2. ASSUME NEW m \in Messages, NEW p \in Proposals, reply'[m].proposal = p
      PROVE  reply'[m].status = "awaiting" \/ ShownBefore(p, m)'
  <2>1. CASE reply'[m] = reply[m]
    BY <1>0, <1>2, <2>1, ShownStays DEF TalkIsShown
  <2>2. CASE reply'[m] # reply[m]
    <3>1. PICK r \in Runners : m = turn[r].message /\ reply'[m] = turn[r].answer
      BY <2>2, RepliesAreAccepted
    <3>2. turn[r].answer.status = "awaiting" \/ ShownBefore(p, m)
      BY <1>0, <1>2, <3>1 DEF TalkIsShown
    <3> QED
      BY <1>0, <3>1, <3>2, ShownStays
  <2> QED
    BY <2>1, <2>2
<1>3. ASSUME NEW r \in Runners, NEW p \in Proposals, NEW m, m = turn'[r].message
      PROVE  /\ turn'[r].seen.proposal = p => ShownBefore(p, m)'
             /\ turn'[r].answer.proposal = p => turn'[r].answer.status = "awaiting" \/ ShownBefore(p, m)'
  <2>0. Nothing.proposal # p
    BY WordsAreTalk, Ranges
  <2>1. CASE turn'[r] = turn[r]
    BY <1>0, <1>3, <2>1, ShownStays DEF TalkIsShown
  <2>2. CASE TurnStep(r)
    <3>1. CASE turn'[r].seen = Nothing /\ turn'[r].answer = Nothing
      BY <2>0, <3>1
    <3>2. CASE m = turn[r].message /\ turn'[r].seen = turn[r].seen
               /\ turn'[r].answer = turn[r].answer
      BY <1>0, <3>2, ShownStays DEF TalkIsShown
    <3>3. CASE m \in Messages /\ turn'[r].seen \in Previous(m)
               /\ turn'[r].answer = Nothing
      BY <1>0, <2>0, <3>3, HistoryIsShown, ShownStays
    <3>4. CASE m = turn[r].message /\ turn'[r].seen = Nothing /\ turn'[r].answer = turn[r].seen
      BY <1>0, <2>0, <3>4, ShownStays DEF TalkIsShown
    <3>5. CASE turn'[r].seen = Nothing /\ \E q \in Proposals : turn'[r].answer = Says("awaiting", q)
      BY <2>0, <3>5, WordsDiffer
    <3>6. CASE /\ m = turn[r].message /\ turn'[r].seen = Nothing
               /\ \E status \in JournalStatus :
                    turn'[r].answer = Says(status, Code(r)) /\ turn[r].seen.proposal = Code(r)
      <4>1. turn'[r].answer.proposal = turn[r].seen.proposal
        BY <3>6, WordsDiffer
      <4> QED
        BY <1>0, <2>0, <3>6, <4>1, ShownStays DEF TalkIsShown
    <3> QED
      BY <1>3, <2>2, <3>1, <3>2, <3>3, <3>4, <3>5, <3>6, TurnSays
  <2> QED
    BY <2>1, <2>2, OthersKeep
<1> QED
  BY <1>1, <1>2, <1>3 DEF TalkIsShown, ShownBefore

LEMMA OrdersStay ==
  ASSUME CheckoutInv, CheckoutNext
  PROVE  TurnsHaveOrders'
<1>0. CheckoutTypeOK /\ TalkIsShown /\ TurnsHaveOrders /\ CheckoutTypeOK'
      /\ turn \in [Runners -> TurnType] /\ asks \in [Messages -> AskType]
  BY TypesStay DEF CheckoutInv, CheckoutTypeOK, TurnType, AskType
<1>1. ASSUME NEW m \in Messages, asks'[m].kind = "confirm"
      PROVE  asks'[m].code # 0
  <2>1. CASE asks'[m] = asks[m]
    BY <1>0, <1>1, <2>1 DEF TurnsHaveOrders
  <2>2. CASE asks'[m] # asks[m]
    <3>1. \E n \in Messages : CustomerWrites(n)
      BY <2>2 DEF CheckoutNext, Deliver, Lands, Expire, Reprice, TurnStep, Begin, Propose, Carry,
         DropProposal, Recognise, ClaimProposal, ClaimFails, Revalidates, Objects, Reject, Send,
         Verifies, Doubts, Complete, RecordDoubt, Accept, TurnEnds, talkVars
    <3>2. PICK n \in Messages, kind \in {"text", "no", "confirm", "cancel"}, p \in Proposals \cup {0} :
            /\ IF kind \in {"text", "no"} THEN p = 0 ELSE p # 0
            /\ asks' = [asks EXCEPT ![n] = [kind |-> kind, code |-> p]]
      BY <3>1 DEF CustomerWrites
    <3>3. m = n /\ asks'[m] = [kind |-> kind, code |-> p]
      BY <1>0, <2>2, <3>2
    <3> QED
      BY <1>1, <3>2, <3>3
  <2> QED
    BY <2>1, <2>2
<1>2. ASSUME NEW r \in Runners
      PROVE  /\ turn'[r].at # "off" =>
                  turn'[r].message \in Messages /\ asks'[turn'[r].message] # Absent
             /\ turn'[r].at \in Executing \cup {"confirming"} =>
                  LET a == asks'[turn'[r].message] IN
                  a.kind = "confirm" /\ a.code \in Proposals /\ turn'[r].seen.proposal = a.code
  <2>0. \A m \in Messages : asks[m] # Absent => asks'[m] = asks[m]
    BY <1>0, TalkLasts
  <2>1. CASE turn'[r] = turn[r]
    BY <1>0, <2>0, <2>1 DEF TurnsHaveOrders, Asked, Code, Known, Executing, Unsent
  <2>2. ASSUME NEW from, from # "off", turn[r].at = from,
               turn'[r].message = turn[r].message, turn'[r].seen = turn[r].seen,
               from \in Executing \cup {"confirming"}
        PROVE  LET a == asks'[turn'[r].message] IN
               turn'[r].message \in Messages /\ a # Absent
               /\ a.kind = "confirm" /\ a.code \in Proposals /\ turn'[r].seen.proposal = a.code
    BY <1>0, <2>0, <2>2 DEF TurnsHaveOrders, Asked, Code, Known
  <2>3. ASSUME NEW from, NEW to, Goes(r, from, to)
        PROVE  turn[r].at = from /\ turn'[r].at = to
               /\ turn'[r].message = turn[r].message /\ turn'[r].seen = turn[r].seen
    BY <1>0, <2>3 DEF Goes, At, TurnType
  <2>4. ASSUME NEW from, from # "off", NEW says, Answers(r, from, says)
        PROVE  turn'[r].at = "answering" /\ turn'[r].message \in Messages /\ asks'[turn'[r].message] # Absent
    <3>1. turn[r].at = from /\ turn'[r].at = "answering" /\ turn'[r].message = turn[r].message
      BY <1>0, <2>4 DEF Answers, At, TurnType
    <3> QED
      BY <1>0, <2>0, <2>4, <3>1 DEF TurnsHaveOrders
  <2>5. CASE \E m \in Messages : Begin(r, m)
    <3>1. PICK m \in Messages : Begin(r, m)
      BY <2>5
    <3>2. turn'[r].at = "reading" /\ turn'[r].message = m /\ asks[m] # Absent
      BY <1>0, <3>1 DEF Begin
    <3> QED
      BY <2>0, <3>2 DEF Executing, Unsent
  <2>6. CASE Revalidates(r) \/ Objects(r) \/ Send(r) \/ Verifies(r) \/ Doubts(r)
    <3>1. \E from \in Executing : \E to : from # "off" /\ Goes(r, from, to)
      BY <2>6 DEF Revalidates, Objects, Send, Verifies, Doubts, Executing, Unsent
    <3> QED
      BY <2>2, <2>3, <3>1
  <2>7. CASE Recognise(r)
    <3>1. turn[r].at = "reading" /\ turn'[r].message = turn[r].message /\ turn'[r].seen = turn[r].seen
          /\ asks[turn[r].message].kind = "confirm" /\ turn[r].seen.proposal = asks[turn[r].message].code
      BY <2>3, <2>7 DEF Recognise, Asked, Known, Code
    <3>2. turn[r].message \in Messages /\ asks[turn[r].message] # Absent
      BY <1>0, <3>1 DEF TurnsHaveOrders
    <3>3. asks[turn[r].message].code \in Proposals
      BY <1>0, <3>1, <3>2 DEF TurnsHaveOrders, AskType
    <3> QED
      BY <2>0, <3>1, <3>2, <3>3
  <2>8. CASE Propose(r) \/ Carry(r) \/ DropProposal(r) \/ ClaimFails(r) \/ Reject(r) \/ RecordDoubt(r)
    <3>1. \E from \in Places : \E says : from # "off" /\ Answers(r, from, says)
      BY <2>8 DEF Propose, Carry, DropProposal, ClaimFails, Reject, RecordDoubt, Places
    <3> QED
      BY <2>4, <3>1 DEF Executing, Unsent
  <2>9. CASE ClaimProposal(r) \/ Complete(r)
    <3>1. \/ \E to : Goes(r, "confirming", to) \/ Goes(r, "verified", to)
          \/ \E says : Answers(r, "confirming", says) \/ Answers(r, "verified", says)
      BY <2>9 DEF ClaimProposal, Complete
    <3>2. CASE \E to : Goes(r, "confirming", to) \/ Goes(r, "verified", to)
      BY <2>2, <2>3, <3>2 DEF Executing, Unsent
    <3>3. CASE \E says : Answers(r, "confirming", says) \/ Answers(r, "verified", says)
      BY <2>4, <3>3 DEF Executing, Unsent
    <3> QED
      BY <3>1, <3>2, <3>3
  <2>10. CASE Accept(r) \/ TurnEnds(r)
    <3>1. turn'[r] = Off
      BY <1>0, <2>10 DEF Accept, TurnEnds
    <3> QED
      BY <3>1 DEF Off, Executing, Unsent
  <2> QED
    BY <2>1, <2>5, <2>6, <2>7, <2>8, <2>9, <2>10, OthersKeep DEF TurnStep
<1> QED
  BY <1>1, <1>2 DEF TurnsHaveOrders, Asked, Code, Known, Executing, Unsent

\* Who executes a proposal did so before, or has just claimed it.
LEMMA ExecutesSince ==
  ASSUME CheckoutInv, CheckoutNext, NEW r \in Runners, NEW p \in Proposals, Executes(r, p)'
  PROVE  /\ Code(r) = p /\ Code(r)' = p
         /\ \/ Executes(r, p) /\ turn'[r] = turn[r]
            \/ Executes(r, p) /\ (Revalidates(r) \/ Objects(r) \/ Send(r) \/ Verifies(r) \/ Doubts(r) \/ Complete(r))
            \/ ClaimProposal(r) /\ journal[p] = "none" /\ journal'[p] = "started" /\ turn'[r].at = "claimed"
<1>0. CheckoutTypeOK /\ TalkIsShown /\ TurnsHaveOrders /\ turn \in [Runners -> TurnType]
      /\ turn[r] \in TurnType /\ journal \in [Proposals -> JournalStatus \cup {"none"}]
  BY DEF CheckoutInv, CheckoutTypeOK, TurnType
<1>1. turn'[r].at \in Executing /\ asks'[turn'[r].message].code = p
  BY DEF Executes, Code, Asked
<1>2. \A m \in Messages : asks[m] # Absent => asks'[m] = asks[m]
  BY <1>0, TalkLasts
<1>3. turn[r].at # "off" => asks'[turn[r].message] = asks[turn[r].message]
  BY <1>0, <1>2 DEF TurnsHaveOrders
<1>4. ASSUME NEW from, from # "off", NEW to, Goes(r, from, to)
      PROVE  turn[r].at = from /\ turn'[r].at = to /\ Code(r) = p /\ Code(r)' = p
  <2>1. turn[r].at = from /\ turn'[r].at = to /\ turn'[r].message = turn[r].message
    BY <1>0, <1>4 DEF Goes, At, TurnType
  <2> QED
    BY <1>1, <1>3, <1>4, <2>1 DEF Code, Asked
<1>5. CASE turn'[r] = turn[r]
  <2>1. turn[r].at \in Executing /\ turn[r].at # "off"
    BY <1>1, <1>5 DEF Executing, Unsent
  <2>2. Code(r) = p
    BY <1>1, <1>3, <1>5, <2>1 DEF Code, Asked
  <2> QED
    BY <1>1, <1>5, <2>1, <2>2 DEF Executes, Code, Asked
<1>6. CASE TurnStep(r)
  <2>1. ASSUME NEW from, NEW says, Answers(r, from, says)
        PROVE  FALSE
    BY <1>0, <1>1, <2>1 DEF Answers, Executing, Unsent, TurnType
  <2>2. CASE \E m \in Messages : Begin(r, m)
    BY <1>0, <1>1, <2>2 DEF Begin, Executing, Unsent
  <2>3. CASE Recognise(r)
    BY <1>1, <1>4, <2>3 DEF Recognise, Executing, Unsent
  <2>4. CASE Revalidates(r) \/ Objects(r) \/ Send(r) \/ Verifies(r) \/ Doubts(r)
    <3>1. \E from \in Executing : \E to : from # "off" /\ Goes(r, from, to)
      BY <2>4 DEF Revalidates, Objects, Send, Verifies, Doubts, Executing, Unsent
    <3> QED
      BY <1>4, <2>4, <3>1 DEF Executes
  <2>5. CASE Complete(r)
    <3>1. Goes(r, "verified", "doubting")
      BY <2>1, <2>5 DEF Complete
    <3> QED
      BY <1>4, <2>5, <3>1 DEF Executes, Executing
  <2>6. CASE ClaimProposal(r)
    <3>1. Owns(Code(r)) /\ Goes(r, "confirming", "claimed")
          /\ journal' = [journal EXCEPT ![Code(r)] = "started"]
      BY <2>1, <2>6 DEF ClaimProposal
    <3>2. Code(r) = p /\ Code(r)' = p /\ turn'[r].at = "claimed"
      BY <1>4, <3>1
    <3> QED
      BY <1>0, <2>6, <3>1, <3>2 DEF Owns
  <2>7. CASE Propose(r) \/ Carry(r) \/ DropProposal(r) \/ ClaimFails(r) \/ Reject(r) \/ RecordDoubt(r)
    BY <2>1, <2>7 DEF Propose, Carry, DropProposal, ClaimFails, Reject, RecordDoubt
  <2>8. CASE Accept(r) \/ TurnEnds(r)
    BY <1>0, <1>1, <2>8 DEF Accept, TurnEnds, Off, Executing, Unsent
  <2> QED
    BY <1>6, <2>2, <2>3, <2>4, <2>5, <2>6, <2>7, <2>8 DEF TurnStep
<1> QED
  BY <1>5, <1>6, OthersKeep

\* Who writes to the journal: a claim, or the end of an execution.
LEMMA JournalMoves ==
  ASSUME CheckoutInv, CheckoutNext, NEW p \in Proposals, journal'[p] # journal[p]
  PROVE  \/ journal[p] = "none" /\ journal'[p] = "started"
         \/ /\ journal[p] = "started"
            /\ \E r \in Runners :
                 /\ TurnStep(r) /\ Executes(r, p)
                 /\ \/ Reject(r) /\ turn[r].at = "objecting" /\ journal'[p] = "rejected"
                    \/ Complete(r) /\ turn[r].at = "verified" /\ journal'[p] = "completed"
                    \/ RecordDoubt(r) /\ turn[r].at = "doubting" /\ journal'[p] = "unknown"
<1>0. CheckoutTypeOK /\ TurnsHaveOrders /\ journal \in [Proposals -> JournalStatus \cup {"none"}]
  BY DEF CheckoutInv, CheckoutTypeOK
<1>1. ASSUME NEW q, NEW status, journal' = [journal EXCEPT ![q] = status]
      PROVE  q = p /\ journal'[p] = status
  BY <1>0, <1>1
<1>2. PICK r \in Runners : ClaimProposal(r) \/ ClaimFails(r) \/ Reject(r) \/ Complete(r) \/ RecordDoubt(r)
  BY DEF CheckoutNext, Deliver, CustomerWrites, Lands, Expire, Reprice, TurnStep, Begin, Propose, Carry,
     DropProposal, Recognise, Revalidates, Objects, Send, Verifies, Doubts, Accept, TurnEnds, storeVars
<1>3. CASE ClaimProposal(r) \/ ClaimFails(r)
  <2>1. Owns(Code(r)) /\ journal' = [journal EXCEPT ![Code(r)] = "started"]
    BY <1>3 DEF ClaimProposal, ClaimFails
  <2> QED
    BY <1>1, <2>1 DEF Owns
<1>4. CASE Reject(r)
  <2>1. Finish(Code(r), "rejected") /\ turn[r].at = "objecting"
    BY <1>4 DEF Reject, At
  <2> QED
    BY <1>1, <1>4, <2>1 DEF Finish, Executes, Executing, Unsent, TurnStep
<1>5. CASE Complete(r)
  <2>1. Finish(Code(r), "completed") /\ turn[r].at = "verified"
    BY <1>5 DEF Complete, At
  <2> QED
    BY <1>1, <1>5, <2>1 DEF Finish, Executes, Executing, Unsent, TurnStep
<1>6. CASE RecordDoubt(r)
  <2>1. Finish(Code(r), "unknown") /\ turn[r].at = "doubting"
    BY <1>6 DEF RecordDoubt, At
  <2> QED
    BY <1>1, <1>6, <2>1 DEF Finish, Executes, Executing, Unsent, TurnStep
<1> QED
  BY <1>2, <1>3, <1>4, <1>5, <1>6

\* Only who has checked a proposal sends its request.
LEMMA PostsMove ==
  ASSUME CheckoutInv, CheckoutNext, NEW p \in Proposals, posts'[p] # posts[p]
  PROVE  /\ \E r \in Runners : Send(r) /\ Executes(r, p) /\ turn[r].at = "checked" /\ turn'[r].at = "sent"
         /\ posts[p] = 0 /\ posts'[p] = 1 /\ journal[p] = "started" /\ journal'[p] = "started"
<1>0. CheckoutTypeOK /\ posts \in [Proposals -> Nat] /\ turn \in [Runners -> TurnType]
  BY DEF CheckoutInv, CheckoutTypeOK, TurnType
<1>1. PICK r \in Runners : Send(r)
  BY DEF CheckoutNext, Deliver, CustomerWrites, Lands, Expire, Reprice, TurnStep, Begin, Propose, Carry,
     DropProposal, Recognise, ClaimProposal, ClaimFails, Revalidates, Objects, Reject, Verifies, Doubts,
     Complete, RecordDoubt, Accept, TurnEnds, storeVars
<1>2. Code(r) = p /\ posts'[p] = posts[p] + 1 /\ UNCHANGED journal
  BY <1>0, <1>1 DEF Send, storeVars
<1>3. turn[r].at = "checked" /\ turn'[r].at = "sent"
  BY <1>0, <1>1 DEF Send, Goes, At, TurnType
<1>4. Executes(r, p) /\ turn[r].at \in Unsent /\ turn[r].at # "doubting"
  BY <1>2, <1>3 DEF Executes, Executing, Unsent
<1>5. journal[p] = "started" /\ posts[p] = 0
  BY <1>4 DEF CheckoutInv, ClaimHasOneOwner
<1> QED
  BY <1>1, <1>2, <1>3, <1>4, <1>5

LEMMA OwnersStay ==
  ASSUME CheckoutInv, CheckoutNext
  PROVE  ClaimHasOneOwner' /\ AtMostOnePost'
<1>0. CheckoutTypeOK /\ TalkIsShown /\ TurnsHaveOrders /\ ClaimHasOneOwner /\ AtMostOnePost /\ ReceiptsAreTrue
      /\ turn \in [Runners -> TurnType] /\ posts \in [Proposals -> Nat]
  BY DEF CheckoutInv, CheckoutTypeOK, TurnType
<1>1. ASSUME NEW p \in Proposals, NEW r \in Runners, NEW s \in Runners, Executes(r, p)', Executes(s, p)'
      PROVE  r = s
  <2>1. CASE Executes(r, p) /\ Executes(s, p)
    BY <1>0, <2>1 DEF ClaimHasOneOwner
  <2>2. CASE ~Executes(r, p)
    <3>1. ClaimProposal(r) /\ journal[p] = "none"
      BY <1>1, <2>2, ExecutesSince
    <3>2. CASE Executes(s, p)
      BY <1>0, <3>1, <3>2 DEF ClaimHasOneOwner
    <3>3. CASE ~Executes(s, p)
      <4>1. ClaimProposal(s)
        BY <1>1, <3>3, ExecutesSince
      <4>2. turn[r].at = "confirming" /\ turn'[s].at \in Executing /\ turn'[r].at \in Executing
            /\ turn[s].at = "confirming"
        BY <1>1, <3>1, <4>1 DEF ClaimProposal, At, Executes
      <4>3. TurnStep(r)
        BY <3>1 DEF TurnStep
      <4>4. r # s => turn'[s] = turn[s]
        BY <1>0, <4>3, OneTurnSteps
      <4> QED
        BY <4>2, <4>4 DEF Executing, Unsent
    <3> QED
      BY <3>2, <3>3
  <2>3. CASE ~Executes(s, p)
    <3>1. ClaimProposal(s) /\ journal[p] = "none"
      BY <1>1, <2>3, ExecutesSince
    <3>2. ~Executes(r, p)
      BY <1>0, <3>1 DEF ClaimHasOneOwner
    <3> QED
      BY <2>2, <3>2
  <2> QED
    BY <2>1, <2>2, <2>3
<1>2. ASSUME NEW p \in Proposals, journal'[p] \in {"none", "rejected"}
      PROVE  posts'[p] = 0
  <2>1. posts'[p] = posts[p]
    BY <1>2, PostsMove
  <2>2. CASE journal'[p] = journal[p]
    BY <1>0, <1>2, <2>1, <2>2 DEF ClaimHasOneOwner
  <2>3. CASE journal'[p] # journal[p]
    <3>1. PICK r \in Runners : Executes(r, p) /\ turn[r].at = "objecting"
      BY <1>2, <2>3, JournalMoves
    <3> QED
      BY <1>0, <2>1, <3>1 DEF ClaimHasOneOwner, Unsent
  <2> QED
    BY <2>2, <2>3
<1>3. ASSUME NEW p \in Proposals, NEW r \in Runners, Executes(r, p)'
      PROVE  /\ journal'[p] = "started" \/ (journal'[p] = "completed" /\ turn'[r].at = "doubting")
             /\ posts'[p] = 0 <=> turn'[r].at \in Unsent
             /\ turn'[r].at = "verified" => cart'[p] = "reviewed"
  <2>0. cart[p] = "reviewed" => cart'[p] = "reviewed"
    BY <1>0, TalkLasts
  <2>1. ASSUME NEW s \in Runners, Executes(s, p), Executes(r, p)
        PROVE  s = r
    BY <1>0, <2>1 DEF ClaimHasOneOwner
  <2>2. CASE ClaimProposal(r) /\ journal[p] = "none" /\ journal'[p] = "started" /\ turn'[r].at = "claimed"
    <3>1. posts[p] = 0 /\ posts'[p] = posts[p]
      BY <1>0, <2>2, PostsMove DEF ClaimHasOneOwner
    <3> QED
      BY <2>2, <3>1 DEF Unsent
  <2>3. CASE Executes(r, p) /\ turn'[r] = turn[r]
    <3>1. ASSUME NEW s \in Runners, Executes(s, p)
          PROVE  ~Send(s) /\ ~Reject(s) /\ ~Complete(s) /\ ~RecordDoubt(s)
      <4>1. s = r /\ turn'[s] = turn[s]
        BY <2>1, <2>3, <3>1
      <4>2. ASSUME NEW from, NEW to, from # to, Goes(s, from, to)
            PROVE  FALSE
        BY <1>0, <4>1, <4>2 DEF Goes, At, TurnType
      <4>3. ASSUME NEW from, from # "answering", NEW says, Answers(s, from, says)
            PROVE  FALSE
        BY <1>0, <4>1, <4>3 DEF Answers, At, TurnType
      <4> QED
        BY <4>2, <4>3 DEF Send, Reject, Complete, RecordDoubt
    <3>2. posts'[p] = posts[p]
      BY <3>1, PostsMove
    <3>3. journal[p] # "none"
      BY <1>0, <2>3 DEF ClaimHasOneOwner
    <3>4. journal'[p] = journal[p]
      BY <3>1, <3>3, JournalMoves
    <3> QED
      BY <1>0, <2>0, <2>3, <3>2, <3>4 DEF ClaimHasOneOwner
  <2>4. CASE Executes(r, p) /\ (Revalidates(r) \/ Objects(r) \/ Send(r) \/ Verifies(r) \/ Doubts(r))
    <3>1. PICK from \in {"claimed", "checked", "sent"}, to \in {"checked", "objecting", "sent", "verified", "doubting"} :
            /\ Goes(r, from, to) /\ UNCHANGED <<journal, cart>>
            /\ \/ UNCHANGED posts /\ (from \in Unsent <=> to \in Unsent)
               \/ from \in Unsent /\ to \notin Unsent /\ posts' = [posts EXCEPT ![Code(r)] = @ + 1]
            /\ to = "verified" => cart[Code(r)] = "reviewed"
      BY <2>4 DEF Revalidates, Objects, Send, Verifies, Doubts, Unsent, storeVars
    <3>2. turn[r].at = from /\ turn'[r].at = to /\ Code(r) = p
      BY <1>0, <2>4, <3>1 DEF Goes, At, TurnType, Executes
    <3>3. journal[p] = "started" /\ (posts[p] = 0 <=> from \in Unsent)
      BY <1>0, <2>4, <3>2 DEF ClaimHasOneOwner
    <3>4. posts'[p] = 0 <=> to \in Unsent
      <4>1. posts[p] \in Nat /\ p \in Proposals
        BY <1>0
      <4> QED
        BY <1>0, <3>1, <3>2, <3>3, <4>1
    <3> QED
      BY <3>1, <3>2, <3>3, <3>4
  <2>5. CASE Executes(r, p) /\ Complete(r)
    <3>1. Goes(r, "verified", "doubting") \/ turn'[r].at = "answering"
      BY <1>0, <2>5 DEF Complete, Answers, TurnType
    <3>2. turn'[r].at # "answering"
      BY <1>3 DEF Executes, Executing, Unsent
    <3>3. turn[r].at = "verified" /\ turn'[r].at = "doubting"
      BY <1>0, <3>1, <3>2 DEF Goes, At, TurnType
    <3>4. journal[p] = "started" /\ posts[p] # 0 /\ UNCHANGED posts
      BY <1>0, <2>5, <3>3 DEF ClaimHasOneOwner, Unsent, Complete
    <3>5. journal'[p] \in {"started", "completed"}
      BY <2>1, <2>5, <3>3, <3>4, JournalMoves
    <3> QED
      BY <3>3, <3>4, <3>5 DEF Unsent
  <2> QED
    BY <1>3, <2>2, <2>3, <2>4, <2>5, ExecutesSince
<1>4. ASSUME NEW p \in Proposals
      PROVE  posts'[p] <= 1
  <2>1. CASE posts'[p] = posts[p]
    BY <1>0, <2>1 DEF AtMostOnePost
  <2>2. CASE posts'[p] # posts[p]
    <3>1. posts'[p] = 1
      BY <2>2, PostsMove
    <3> QED
      BY <3>1
  <2> QED
    BY <2>1, <2>2
<1>5. AtMostOnePost'
  BY <1>4 DEF AtMostOnePost
<1>6. ClaimHasOneOwner'
  BY <1>1, <1>2, <1>3 DEF ClaimHasOneOwner
<1> QED
  BY <1>5, <1>6

LEMMA LinksStay ==
  ASSUME CheckoutInv, CheckoutNext
  PROVE  LinksAreTrue'
<1>0. CheckoutTypeOK /\ TalkIsShown /\ LinksAreTrue /\ ReceiptsAreTrue
  BY DEF CheckoutInv
<1>1. ASSUME NEW r \in Runners, NEW p \in Proposals,
             turn'[r].seen = Says("completed", p) \/ turn'[r].answer = Says("completed", p)
      PROVE  cart[p] = "reviewed"
  <2>0. Nothing # Says("completed", p) /\ \A q \in Proposals : Says("awaiting", q) # Says("completed", p)
    BY DEF Nothing, Says
  <2>1. CASE turn'[r] = turn[r]
    BY <1>0, <1>1, <2>1 DEF LinksAreTrue
  <2>2. CASE TurnStep(r)
    <3>1. CASE turn'[r].seen \in Previous(turn'[r].message) /\ turn'[r].answer = Nothing
      <4>1. \E k \in Messages : reply[k] = Says("completed", p)
        BY <1>1, <2>0, <3>1 DEF Previous, Latest
      <4> QED
        BY <1>0, <4>1 DEF ReceiptsAreTrue
    <3>2. CASE /\ turn'[r].seen = Nothing
               /\ \E status \in JournalStatus :
                    turn'[r].answer = Says(status, Code(r)) /\ (status = "completed" => cart[Code(r)] = "reviewed")
      BY <1>1, <2>0, <3>2 DEF Says
    <3> QED
      BY <1>0, <1>1, <2>0, <2>2, <3>1, <3>2, TurnSays DEF LinksAreTrue
  <2> QED
    BY <2>1, <2>2, OthersKeep
<1>2. \A p \in Proposals : cart[p] = "reviewed" => cart'[p] = "reviewed"
  BY <1>0, TalkLasts
<1> QED
  BY <1>1, <1>2 DEF LinksAreTrue

LEMMA ReceiptsStay ==
  ASSUME CheckoutInv, CheckoutNext
  PROVE  ReceiptsAreTrue'
<1>0. CheckoutTypeOK /\ TalkIsShown /\ ClaimHasOneOwner /\ LinksAreTrue /\ ReceiptsAreTrue /\ ClaimHasOneOwner'
  BY OwnersStay DEF CheckoutInv
<1>1. \A p \in Proposals : cart[p] = "reviewed" => cart'[p] = "reviewed"
  BY <1>0, TalkLasts
<1>2. ASSUME NEW p \in Proposals, journal'[p] = "completed"
      PROVE  cart[p] = "reviewed"
  <2>1. CASE journal'[p] = journal[p]
    BY <1>0, <1>2, <2>1 DEF ReceiptsAreTrue
  <2>2. CASE journal'[p] # journal[p]
    <3>1. \E r \in Runners : Executes(r, p) /\ turn[r].at = "verified"
      BY <1>2, <2>2, JournalMoves
    <3> QED
      BY <1>0, <3>1 DEF ClaimHasOneOwner
  <2> QED
    BY <2>1, <2>2
<1>3. ASSUME NEW p \in Proposals, NEW m \in Messages, reply'[m] = Says("completed", p)
      PROVE  cart[p] = "reviewed"
  BY <1>0, <1>3, RepliesAreAccepted DEF ReceiptsAreTrue, LinksAreTrue
<1>4. \A p \in Proposals : journal'[p] = "rejected" => posts'[p] = 0
  BY <1>0 DEF ClaimHasOneOwner
<1> QED
  BY <1>1, <1>2, <1>3, <1>4 DEF ReceiptsAreTrue

\* Consent once given stays.
LEMMA ConsentLasts ==
  ASSUME CheckoutInv, CheckoutNext, NEW p \in Proposals, Consented(p)
  PROVE  Consented(p)'
<1>0. CheckoutTypeOK /\ TalkIsShown
  BY DEF CheckoutInv
<1>1. PICK m, n \in Messages :
        /\ m < n /\ shown[m] /\ reply[m] = Says("awaiting", p)
        /\ asks[n] = [kind |-> "confirm", code |-> p]
  BY DEF Consented
<1>2. reply[m] # NoReply /\ asks[n] # Absent
  BY <1>0, <1>1 DEF TalkIsShown, Absent
<1>3. shown'[m] /\ reply'[m] = reply[m] /\ asks'[n] = asks[n]
  BY <1>0, <1>1, <1>2, TalkLasts
<1> QED
  BY <1>1, <1>3 DEF Consented

\* Who sends a request has its confirmation.
LEMMA ConsentStays ==
  ASSUME CheckoutInv, CheckoutNext
  PROVE  OnlyWithConsent'
<1>0. CheckoutTypeOK /\ TalkIsShown /\ TurnsHaveOrders /\ OnlyWithConsent
      /\ posts \in [Proposals -> Nat] /\ asks \in [Messages -> AskType]
  BY DEF CheckoutInv, CheckoutTypeOK, AskType
<1>1. ASSUME NEW p \in Proposals, posts'[p] > 0
      PROVE  Consented(p)
  <2>1. CASE posts'[p] = posts[p]
    BY <1>0, <1>1, <2>1 DEF OnlyWithConsent
  <2>2. CASE posts'[p] # posts[p]
    <3>1. PICK r \in Runners : Executes(r, p)
      BY <2>2, PostsMove
    <3> DEFINE n == turn[r].message
    <3>2. n \in Messages /\ asks[n].kind = "confirm" /\ asks[n].code = p /\ turn[r].seen.proposal = p
      BY <1>0, <3>1 DEF TurnsHaveOrders, Executes, Executing, Unsent, Code, Asked, Known
    <3>3. ShownBefore(p, n)
      BY <1>0, <3>2 DEF TalkIsShown
    <3>4. asks[n] = [kind |-> "confirm", code |-> p]
      BY <1>0, <3>2 DEF AskType
    <3> QED
      BY <3>2, <3>3, <3>4 DEF ShownBefore, Consented
  <2> QED
    BY <2>1, <2>2
<1> QED
  BY <1>1, ConsentLasts DEF OnlyWithConsent

-----------------------------------------------------------------------------
(* The theorems *)

LEMMA CheckoutStarts == CheckoutInit => CheckoutInv
<1> SUFFICES ASSUME CheckoutInit PROVE CheckoutInv
  OBVIOUS
<1> USE DEF CheckoutInit
<1>1. CheckoutTypeOK
  BY WordsAreTalk DEF CheckoutTypeOK, AskType, TurnType
<1>2. TalkIsShown
  BY WordsAreTalk, Ranges DEF TalkIsShown, Off
<1>3. TurnsHaveOrders
  BY DEF TurnsHaveOrders, Absent, Off, Executing, Unsent
<1>4. ClaimHasOneOwner
  BY DEF ClaimHasOneOwner, Executes, Executing, Unsent, Off
<1>5. LinksAreTrue
  BY DEF LinksAreTrue, Off, Nothing, Says
<1>6. AtMostOnePost /\ OnlyWithConsent
  BY DEF AtMostOnePost, OnlyWithConsent
<1>7. ReceiptsAreTrue
  BY DEF ReceiptsAreTrue, NoReply, Says
<1> QED
  BY <1>1, <1>2, <1>3, <1>4, <1>5, <1>6, <1>7 DEF CheckoutInv

LEMMA CheckoutStutters == CheckoutInv /\ UNCHANGED checkoutVars => CheckoutInv'
BY DEF checkoutVars, CheckoutInv, CheckoutTypeOK, TalkIsShown, ShownBefore, TurnsHaveOrders, Asked, Code,
   Known, ClaimHasOneOwner, Executes, LinksAreTrue, AtMostOnePost, OnlyWithConsent, Consented, ReceiptsAreTrue

\* The inductive invariant holds in every reachable state: whatever names a
\* proposal comes after its review, turns past the command have their
\* confirmation, and a claim has one owner (execute_checkout and its journal).
THEOREM CheckoutInvariant == CheckoutSpec => []CheckoutInv
<1>1. CheckoutInv /\ CheckoutNext => CheckoutInv'
  <2> SUFFICES ASSUME CheckoutInv, CheckoutNext PROVE CheckoutInv'
    OBVIOUS
  <2>1. CheckoutTypeOK'
    BY TypesStay DEF CheckoutInv
  <2> QED
    BY <2>1, TalkStays, OrdersStay, OwnersStay, LinksStay, ConsentStays, ReceiptsStay DEF CheckoutInv
<1> QED
  BY <1>1, CheckoutStarts, CheckoutStutters, PTL DEF CheckoutSpec

\* However often a confirmation is repeated, run again or cut short, the store
\* gets one request for a proposal (execute_checkout's docstring).
THEOREM OnePostPerProposal == CheckoutSpec => []AtMostOnePost
<1>1. CheckoutInv => AtMostOnePost
  BY DEF CheckoutInv
<1> QED
  BY <1>1, CheckoutInvariant, PTL

\* A cart is asked for only after a delivered reply showed the proposal and a
\* later message confirmed it (load_history, handle_checkout_command).
THEOREM CartsHaveConsent == CheckoutSpec => []OnlyWithConsent
<1>1. CheckoutInv => OnlyWithConsent
  BY DEF CheckoutInv
<1> QED
  BY <1>1, CheckoutInvariant, PTL

\* Journal and replies say completed only of a cart that is there as reviewed,
\* rejected only of a proposal never sent (CheckoutJournal.finish).
THEOREM ReceiptsHold == CheckoutSpec => []ReceiptsAreTrue
<1>1. CheckoutInv => ReceiptsAreTrue
  BY DEF CheckoutInv
<1> QED
  BY <1>1, CheckoutInvariant, PTL

-----------------------------------------------------------------------------
(* Refinement: DirectCheckout implements PurchasePromise.  Every action is   *)
(* one step of the promise or none.                                          *)

Consents == {p \in Proposals : Consented(p)}

PurchaseStep == [Purchase!PurchaseNext]_(Purchase!purchaseVars)

\* Consent comes with a delivery or a message of the customer, for one proposal.
LEMMA ConsentIsGiven ==
  ASSUME CheckoutInv, CheckoutNext, UNCHANGED <<posts, cart, journal>>
  PROVE  PurchaseStep
<1>0. Consents \subseteq Consents'
  BY ConsentLasts DEF Consents
<1>1. CASE \A p \in Proposals : Consented(p)' => Consented(p)
  <2>1. Consents' = Consents
    BY <1>0, <1>1 DEF Consents
  <2> QED
    BY <2>1 DEF PurchaseStep, Purchase!purchaseVars, Consents
<1>2. CASE \E p \in Proposals : Consented(p)' /\ ~Consented(p)
  <2>1. PICK p \in Proposals : Consented(p)' /\ ~Consented(p)
    BY <1>2
  <2>2. ASSUME NEW q \in Proposals, Consented(q)', ~Consented(q) PROVE q = p
    <3>1. CASE \E m \in Messages : Deliver(m)
      <4>1. PICK d \in Messages : Deliver(d)
        BY <3>1
      <4>2. ASSUME NEW o \in Proposals, Consented(o)', ~Consented(o) PROVE reply[d] = Says("awaiting", o)
        BY <4>1, <4>2 DEF Deliver, Consented, CheckoutInv, CheckoutTypeOK
      <4> QED
        BY <2>1, <2>2, <4>2, WordsDiffer
    <3>2. CASE \E m \in Messages : CustomerWrites(m)
      <4>1. PICK d \in Messages : CustomerWrites(d)
        BY <3>2
      <4>2. ASSUME NEW o \in Proposals, Consented(o)', ~Consented(o)
            PROVE  asks'[d] = [kind |-> "confirm", code |-> o]
        BY <4>1, <4>2 DEF CustomerWrites, Consented, CheckoutInv, CheckoutTypeOK
      <4>3. asks'[d] = [kind |-> "confirm", code |-> p] /\ asks'[d] = [kind |-> "confirm", code |-> q]
        BY <2>1, <2>2, <4>2
      <4>4. [kind |-> "confirm", code |-> p].code = [kind |-> "confirm", code |-> q].code
        BY <4>3, Zenon
      <4> QED
        BY <4>4
    <3>3. CASE /\ UNCHANGED <<asks, shown>>
               /\ \A m \in Messages : reply[m] # NoReply => reply'[m] = reply[m]
               /\ \A m \in Messages : shown[m] => reply[m] # NoReply
      BY <2>2, <3>3 DEF Consented
    <3>4. ASSUME NEW r \in Runners, TurnStep(r) PROVE UNCHANGED <<asks, shown>>
      BY <3>4 DEF TurnStep, Begin, Propose, Carry, DropProposal, Recognise, ClaimProposal, ClaimFails,
         Revalidates, Objects, Reject, Send, Verifies, Doubts, Complete, RecordDoubt, Accept, TurnEnds,
         talkVars
    <3>5. (\E d \in Messages : Deliver(d) \/ CustomerWrites(d)) \/ UNCHANGED <<asks, shown>>
      BY <3>4 DEF CheckoutNext, Lands, Expire, Reprice, talkVars
    <3> QED
      BY <3>1, <3>2, <3>3, <3>5, TalkLasts DEF CheckoutInv, TalkIsShown
  <2>3. Consents' = Consents \cup {p}
    BY <1>0, <2>1, <2>2 DEF Consents
  <2>4. Purchase!Consent(p)
    BY <2>3 DEF Purchase!Consent, Consents
  <2> QED
    BY <2>4 DEF PurchaseStep, Purchase!PurchaseNext
<1> QED
  BY <1>1, <1>2

\* A step of an execution gives no consent.
LEMMA ExecutionsTalkNot ==
  ASSUME UNCHANGED talkVars
  PROVE  {p \in Proposals : Consented(p)}' = {p \in Proposals : Consented(p)}
BY DEF talkVars, Consented

LEMMA PurchaseInitially == CheckoutInit => Purchase!PurchaseInit
BY DEF CheckoutInit, Purchase!PurchaseInit, Consented

\* The end of an execution closes its proposal, and says what is so.
LEMMA PurchaseCloses ==
  ASSUME CheckoutInv, NEW r \in Runners, Reject(r) \/ Complete(r) \/ RecordDoubt(r)
  PROVE  PurchaseStep
<1>0. journal \in [Proposals -> JournalStatus \cup {"none"}] /\ posts \in [Proposals -> Nat]
  BY DEF CheckoutInv, CheckoutTypeOK
<1>1. UNCHANGED <<talkVars, posts, cart>>
  BY DEF Reject, Complete, RecordDoubt
<1>2. CASE UNCHANGED journal
  BY <1>1, <1>2, ExecutionsTalkNot DEF PurchaseStep, Purchase!purchaseVars
<1>3. CASE ~UNCHANGED journal
  <2>1. PICK v \in {"completed", "rejected", "unknown"} :
          /\ Finish(Code(r), v)
          /\ \/ v = "rejected" /\ turn[r].at = "objecting"
             \/ v = "completed" /\ turn[r].at = "verified"
             \/ v = "unknown" /\ turn[r].at = "doubting"
    BY <1>3 DEF Reject, Complete, RecordDoubt, At
  <2>2. PICK p \in Proposals : p = Code(r)
    BY <2>1 DEF CheckoutInv, TurnsHaveOrders, Executing, Unsent
  <2>3. Executes(r, p)
    BY <2>1, <2>2 DEF Executes, Executing, Unsent
  <2>4. /\ v = "rejected" <=> posts[p] = 0
        /\ v = "completed" => cart[p] = "reviewed"
    BY <2>1, <2>3 DEF CheckoutInv, ClaimHasOneOwner, Unsent
  <2>5. journal[p] = "started" /\ journal' = [journal EXCEPT ![p] = v]
    BY <2>1, <2>2 DEF Finish
  <2>6. Purchase!Close(p, v)
    BY <1>0, <1>1, <2>4, <2>5, ExecutionsTalkNot DEF Purchase!Close
  <2> QED
    BY <2>6 DEF PurchaseStep, Purchase!PurchaseNext
<1> QED
  BY <1>2, <1>3

\* A claim is nothing to the promise: the verdict is still open.
LEMMA PurchaseClaims ==
  ASSUME CheckoutInv, NEW r \in Runners, ClaimProposal(r) \/ ClaimFails(r)
  PROVE  PurchaseStep
<1>0. journal \in [Proposals -> JournalStatus \cup {"none"}]
  BY DEF CheckoutInv, CheckoutTypeOK
<1>1. UNCHANGED <<talkVars, posts, cart>>
  BY DEF ClaimProposal, ClaimFails
<1>2. \/ UNCHANGED journal
      \/ journal[Code(r)] = "none" /\ journal' = [journal EXCEPT ![Code(r)] = "started"]
  BY DEF ClaimProposal, ClaimFails, Owns
<1>3. \A p \in Proposals :
        journal'[p] = journal[p] \/ (journal[p] = "none" /\ journal'[p] = "started")
  BY <1>0, <1>2
<1> QED
  BY <1>1, <1>3, ExecutionsTalkNot DEF PurchaseStep, Purchase!purchaseVars

\* The request leaves once, with consent.
LEMMA PurchaseOrders ==
  ASSUME CheckoutInv, CheckoutNext, NEW r \in Runners, Send(r)
  PROVE  PurchaseStep
<1>0. posts \in [Proposals -> Nat] /\ OnlyWithConsent'
  BY ConsentStays DEF CheckoutInv, CheckoutTypeOK
<1>1. PICK p \in Proposals : p = Code(r)
  BY DEF CheckoutInv, TurnsHaveOrders, Executing, Unsent, Send, Goes, At
<1>2. UNCHANGED <<talkVars, journal, cart>> /\ posts' = [posts EXCEPT ![p] = @ + 1]
  BY <1>1 DEF Send
<1>3. posts[p] = 0 /\ journal[p] = "started"
  <2>1. posts'[p] # posts[p]
    BY <1>0, <1>2
  <2> QED
    BY <2>1, PostsMove
<1>4. posts' = [posts EXCEPT ![p] = 1] /\ posts'[p] > 0
  BY <1>0, <1>2, <1>3
<1>5. Consented(p)
  BY <1>0, <1>2, <1>4, ExecutionsTalkNot DEF OnlyWithConsent
<1>6. Purchase!Order(p)
  BY <1>2, <1>3, <1>4, <1>5, ExecutionsTalkNot DEF Purchase!Order
<1> QED
  BY <1>6 DEF PurchaseStep, Purchase!PurchaseNext

LEMMA PurchaseMakes ==
  ASSUME CheckoutInv, NEW p \in Proposals, Lands(p)
  PROVE  PurchaseStep
<1>1. posts[p] = 1
  BY DEF CheckoutInv, CheckoutTypeOK, AtMostOnePost, Lands
<1>2. PICK c \in {"reviewed", "other"} : cart' = [cart EXCEPT ![p] = c]
  BY DEF Lands
<1>3. Purchase!Make(p, c)
  BY <1>1, <1>2, ExecutionsTalkNot DEF Purchase!Make, Lands
<1> QED
  BY <1>3 DEF PurchaseStep, Purchase!PurchaseNext

LEMMA PurchaseNextStep == CheckoutInv /\ [CheckoutNext]_checkoutVars => PurchaseStep
<1> SUFFICES ASSUME CheckoutInv, [CheckoutNext]_checkoutVars PROVE PurchaseStep
  OBVIOUS
<1>1. CASE UNCHANGED checkoutVars
  BY <1>1, ExecutionsTalkNot DEF PurchaseStep, Purchase!purchaseVars, checkoutVars, talkVars
<1>2. CASE CheckoutNext /\ UNCHANGED <<posts, cart, journal>>
  BY <1>2, ConsentIsGiven
<1>3. CASE CheckoutNext /\ ~UNCHANGED <<posts, cart, journal>>
  <2>1. (\E p \in Proposals : Lands(p))
        \/ \E r \in Runners : \/ ClaimProposal(r) \/ ClaimFails(r) \/ Send(r)
                              \/ Reject(r) \/ Complete(r) \/ RecordDoubt(r)
    BY <1>3 DEF CheckoutNext, Deliver, CustomerWrites, Expire, Reprice, TurnStep, Begin, Propose,
       Carry, DropProposal, Recognise, Revalidates, Objects, Verifies, Doubts, Accept, TurnEnds,
       storeVars
  <2> QED
    BY <1>3, <2>1, PurchaseMakes, PurchaseClaims, PurchaseOrders, PurchaseCloses
<1> QED
  BY <1>1, <1>2, <1>3

\* DirectCheckout implements PurchasePromise: for any number of messages,
\* proposals and runners, a cart is asked for once, after consent, and the
\* journal's verdict is given once and is so (execute_checkout with
\* CheckoutJournal, behind load_history).
THEOREM CheckoutKeepsPromise == CheckoutSpec => KeepsPurchasePromise
BY CheckoutInvariant, PurchaseInitially, PurchaseNextStep, PTL
   DEF CheckoutSpec, KeepsPurchasePromise, Purchase!PurchaseSpec, PurchaseStep

=============================================================================
