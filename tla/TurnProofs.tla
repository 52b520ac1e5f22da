----------------------------- MODULE TurnProofs -----------------------------
(***************************************************************************)
(* Theorems about what a turn stands on, for every value of the constants: *)
(* the calls it may make (CallBudget), the attendants it must not answer   *)
(* over (HumanTakeover), the cart it fills (ShoppingCart), and the order   *)
(* it makes of one (AssistedOrder).                                        *)
(***************************************************************************)
EXTENDS CallBudget, HumanTakeover, AssistedOrder, ShoppingCart, FiniteSetTheorems, TLAPS

-----------------------------------------------------------------------------
(* Calls: the reply and the review of a repair are paid for, whatever the  *)
(* ceilings and however the calls before them went.                        *)

\* A call is held back until a reply was asked for.
Spared == IF taken = {} /\ limit >= 2 THEN 1 ELSE 0

\* While a primary's call is in flight its reservation is the last.
OwnIsLast ==
  call.via = "responses" =>
    /\ Len(reasons) >= 1
    /\ reasons[Len(reasons)].type = call.type
    /\ reasons[Len(reasons)].via = "responses"
    /\ reasons[Len(reasons)].attempt > call.before

\* Two attempts a call, of which the second is still to come in one in flight.
AttemptsPaired ==
  attempts + (IF call.via = "responses" THEN 1 ELSE 0) <= 2 * used

\* The reservations are as many as the calls, none younger than the attempts.
ReasonsMatch ==
  used = Len(reasons) /\ \A i \in 1..Len(reasons) : reasons[i].attempt <= attempts

\* The calls of the review, and the one that is left for it.
ReviewIsFunded ==
  /\ review # "none" => "clarification" \in taken
  /\ review = "repairing" => call.type = "response_composition" /\ used < limit
  /\ review = "judging" => call.type = "judge"
  /\ review \in {"drafted", "rejected", "done"} => Quiet
  /\ review = "drafted" /\ round > 1 => used < limit

BudgetInv ==
  /\ BudgetTypeOK
  /\ used + Spared <= limit
  /\ OwnIsLast /\ AttemptsPaired /\ ReasonsMatch /\ ReviewIsFunded

-----------------------------------------------------------------------------
\* Under the invariant the ceiling of attempts refuses nothing the budget allows.
LEMMA BudgetIsTheCeiling ==
  ASSUME BudgetInv, used < limit PROVE HasTransport
<1>1. attempts \in Nat /\ used \in Nat /\ limit \in Nat /\ attempts <= 2 * used
  BY DEF BudgetInv, BudgetTypeOK, AttemptsPaired
<1>2. QED BY <1>1 DEF HasTransport

\* Init satisfies it.
LEMMA BudgetInitially == BudgetInit => BudgetInv
<1> SUFFICES ASSUME BudgetInit PROVE BudgetInv OBVIOUS
<1>1. limit \in Nat \ {0} BY BudgetAssumption DEF BudgetInit
<1>2. BudgetTypeOK
  BY <1>1 DEF BudgetInit, BudgetTypeOK, NoCall, CallTypes
<1>3. used + Spared <= limit BY <1>1 DEF BudgetInit, Spared
<1>4. OwnIsLast /\ AttemptsPaired /\ ReasonsMatch /\ ReviewIsFunded
  BY DEF BudgetInit, OwnIsLast, AttemptsPaired, ReasonsMatch, ReviewIsFunded, NoCall
<1>5. QED BY <1>2, <1>3, <1>4 DEF BudgetInv

-----------------------------------------------------------------------------
\* An entry of a stack of reservations.
LEMMA EntryType ==
  ASSUME NEW s \in Seq(Reservations), NEW i \in 1..Len(s)
  PROVE  s[i] \in Reservations /\ s[i].attempt \in Nat
<1>1. s[i] \in Reservations OBVIOUS
<1>2. QED BY <1>1 DEF Reservations

\* What a reservation keeps: typing, the pairing and the stack.  `n`, `asked`
\* and `stack` are the budget as the call finds it.
LEMMA RegisterKeeps ==
  ASSUME BudgetTypeOK,
         NEW t \in CallTypes, NEW via \in {"responses", "chat"}, NEW n \in Nat,
         NEW asked \in SUBSET Reserved,
         NEW stack \in Seq(Reservations),
         n = Len(stack), \A i \in 1..Len(stack) : stack[i].attempt <= attempts,
         attempts + (IF via = "responses" THEN 2 ELSE 1) <= 2 * (n + 1),
         Register(t, via, n, asked, stack)
  PROVE  /\ used' \in Nat /\ attempts' \in Nat /\ taken' \subseteq Reserved
         /\ reasons' \in Seq(Reservations)
         /\ call' \in [via : {"none", "responses", "chat"}, type : CallTypes, before : Nat]
         /\ OwnIsLast' /\ AttemptsPaired' /\ ReasonsMatch'
         /\ used' = n + 1 /\ taken' = asked \cup ({t} \cap Reserved)
         /\ call'.type = t /\ call'.via = via
<1> DEFINE last == [type |-> t, via |-> via, attempt |-> attempts + 1]
<1>1. attempts \in Nat BY DEF BudgetTypeOK
<1>2. used' = n + 1 /\ attempts' = attempts + 1 /\ taken' = asked \cup ({t} \cap Reserved)
  BY DEF Register
<1>3. reasons' = Append(stack, last) /\ call' = [via |-> via, type |-> t, before |-> attempts]
  BY DEF Register
<1>4. last \in Reservations BY <1>1 DEF Reservations
<1>5. reasons' \in Seq(Reservations)
  BY <1>3, <1>4
<1>6. Len(reasons') = n + 1 /\ reasons'[n + 1] = last BY <1>3, <1>4
<1>7. \A i \in 1..n : reasons'[i] = stack[i] BY <1>3, <1>4
<1>8. call' \in [via : {"none", "responses", "chat"}, type : CallTypes, before : Nat]
  BY <1>1, <1>3
<1>9. call'.via = via /\ call'.type = t /\ call'.before = attempts BY <1>3
<1>10. OwnIsLast' BY <1>1, <1>6, <1>9 DEF OwnIsLast
<1>11. AttemptsPaired' BY <1>1, <1>2, <1>9 DEF AttemptsPaired
<1>12. ReasonsMatch'
  <2>1. ASSUME NEW i \in 1..(n + 1) PROVE reasons'[i].attempt <= attempts'
    <3>1. CASE i = n + 1 BY <1>1, <1>2, <1>6, <3>1
    <3>2. CASE i \in 1..n
      <4>1. stack[i].attempt <= attempts /\ stack[i].attempt \in Nat BY <3>2, EntryType
      <4>2. QED BY <1>1, <1>2, <1>7, <3>2, <4>1
    <3>3. QED BY <3>1, <3>2
  <2>2. QED BY <1>2, <1>6, <2>1 DEF ReasonsMatch
<1>13. taken' \subseteq Reserved BY <1>2
<1>14. QED BY <1>1, <1>2, <1>5, <1>8, <1>9, <1>10, <1>11, <1>12, <1>13

\* A call that never registered gets nothing back.
LEMMA NothingBack ==
  ASSUME BudgetInv, NEW t PROVE ~Refundable(t, attempts)
<1>1. reasons \in Seq(Reservations)
      /\ attempts \in Nat
  BY DEF BudgetInv, BudgetTypeOK
<1>2. ASSUME reasons # <<>> PROVE reasons[Len(reasons)].attempt <= attempts
  <2>1. Len(reasons) \in 1..Len(reasons) BY <1>1, <1>2
  <2>2. QED BY <2>1 DEF BudgetInv, ReasonsMatch
<1>3. ASSUME reasons # <<>> PROVE reasons[Len(reasons)].attempt \in Nat
  <2>1. Len(reasons) \in 1..Len(reasons) BY <1>1, <1>3
  <2>2. QED BY <1>1, <2>1, EntryType
<1>4. QED BY <1>1, <1>2, <1>3 DEF Refundable

\* A call that begins: its effect, if nothing was in flight.
LEMMA BeginKeeps ==
  ASSUME BudgetInv, Quiet, NEW t \in CallTypes, Begin(t)
  PROVE  /\ used' \in Nat /\ attempts' \in Nat /\ taken' \subseteq Reserved
         /\ reasons' \in Seq(Reservations)
         /\ call' \in [via : {"none", "responses", "chat"}, type : CallTypes, before : Nat]
         /\ OwnIsLast' /\ AttemptsPaired' /\ ReasonsMatch'
         /\ used' = used + 1 /\ taken' = taken \cup ({t} \cap Reserved)
         /\ call'.type = t
         /\ Fits(t, used, taken, limit)
<1>1. BudgetTypeOK /\ ReasonsMatch BY DEF BudgetInv
<1>2. /\ used \in Nat /\ attempts \in Nat /\ taken \in SUBSET Reserved
      /\ reasons \in Seq(Reservations)
      /\ used = Len(reasons) /\ \A i \in 1..Len(reasons) : reasons[i].attempt <= attempts
  BY <1>1 DEF BudgetTypeOK, ReasonsMatch
<1>3. attempts <= 2 * used BY <1>2 DEF BudgetInv, AttemptsPaired, Quiet
<1>4. attempts + 2 <= 2 * (used + 1) BY <1>2, <1>3
<1>5. CASE Admits(t) /\ Register(t, "responses", used, taken, reasons)
  BY <1>1, <1>2, <1>4, <1>5, RegisterKeeps DEF Admits
<1>6. CASE Again(t, attempts)
  <2>1. Returned(t, attempts) = [used |-> used, taken |-> taken, reasons |-> reasons]
    BY NothingBack DEF Returned
  <2>2. Register(t, "chat", used, taken, reasons) /\ Fits(t, used, taken, limit)
    BY <1>6, <2>1 DEF Again, FitsAgain
  <2>3. attempts + 1 <= 2 * (used + 1) BY <1>2, <1>3
  <2>4. QED BY <1>1, <1>2, <2>2, <2>3, RegisterKeeps
<1>7. QED BY <1>5, <1>6 DEF Begin

\* What is held back stays held back when a call goes out.
LEMMA SparedAfter ==
  ASSUME NEW t \in CallTypes, NEW n \in Nat, NEW asked \in SUBSET Reserved,
         limit \in Nat, limit' = limit, Fits(t, n, asked, limit),
         used' = n + 1, taken' = asked \cup ({t} \cap Reserved)
  PROVE  used' + Spared' <= limit'
<1>1. CASE t \in Reserved
  <2>1. taken' # {} BY <1>1
  <2>2. n < limit BY <1>1 DEF Fits, Hold
  <2>3. QED BY <2>1, <2>2 DEF Spared
<1>2. CASE t \notin Reserved
  <2>1. taken' = asked BY <1>2
  <2>2. QED BY <1>2, <2>1 DEF Fits, Hold, Spared
<1>3. QED BY <1>1, <1>2

-----------------------------------------------------------------------------
(* One lemma for each action.                                               *)

LEMMA WorkKeeps == ASSUME BudgetInv, Work PROVE BudgetInv'
<1>1. PICK t \in CallTypes : Begin(t) BY DEF Work
<1>2. review = "none" /\ Quiet /\ UNCHANGED <<limit, review, mode, round>> BY DEF Work
<1>3. BudgetTypeOK BY DEF BudgetInv
<1>4. used \in Nat /\ taken \in SUBSET Reserved /\ limit \in Nat BY <1>3 DEF BudgetTypeOK
<1>5. used' + Spared' <= limit'
  BY <1>1, <1>2, <1>4, BeginKeeps, SparedAfter
<1>6. ReviewIsFunded' BY <1>2 DEF ReviewIsFunded
<1>7. BudgetTypeOK' BY <1>1, <1>2, <1>3, BeginKeeps DEF BudgetTypeOK
<1>8. QED BY <1>1, <1>2, <1>5, <1>6, <1>7, BeginKeeps DEF BudgetInv

LEMMA PromoteKeeps == ASSUME BudgetInv, Promote PROVE BudgetInv'
<1>1. /\ review = "none" /\ limit' = Raised
      /\ UNCHANGED <<used, taken, attempts, reasons, call, review, mode, round>>
  BY DEF Promote
<1>2. BudgetTypeOK BY DEF BudgetInv
<1>3. limit \in Nat \ {0} /\ limit' \in Nat \ {0} /\ limit' >= limit /\ used \in Nat
  BY <1>1, <1>2, BudgetAssumption DEF BudgetTypeOK, Raised
<1>4. used + Spared <= limit BY DEF BudgetInv
<1>5. used + Spared' <= limit'
  <2>1. CASE limit >= 2 BY <1>1, <1>3, <1>4, <2>1 DEF Spared
  <2>2. CASE limit = 1
    <3>1. used <= 1 BY <1>3, <1>4, <2>2 DEF Spared
    <3>2. CASE limit' >= 2 BY <1>1, <1>3, <3>1, <3>2 DEF Spared
    <3>3. CASE limit' = 1 BY <1>1, <1>3, <3>1, <3>3 DEF Spared
    <3>4. QED BY <1>3, <3>2, <3>3
  <2>3. QED BY <1>3, <2>1, <2>2
<1>6. OwnIsLast' /\ AttemptsPaired' /\ ReasonsMatch'
  BY <1>1 DEF BudgetInv, OwnIsLast, AttemptsPaired, ReasonsMatch
<1>7. ReviewIsFunded' BY <1>1 DEF ReviewIsFunded
<1>8. BudgetTypeOK' BY <1>1, <1>2, <1>3 DEF BudgetTypeOK
<1>9. QED BY <1>1, <1>5, <1>6, <1>7, <1>8 DEF BudgetInv

\* The end of a call moves the review as it should.
LEMMA FollowKeeps ==
  ASSUME BudgetInv, NEW ok \in BOOLEAN, Follow(ok), call' = NoCall,
         used' = used, taken' = taken
  PROVE  /\ ReviewIsFunded' /\ limit' = limit /\ mode' = mode /\ round' \in Nat
         /\ review' \in {"none", "drafted", "judging", "rejected", "repairing", "done"}
<1>1. BudgetTypeOK /\ ReviewIsFunded BY DEF BudgetInv
<1>2. Quiet' BY DEF Quiet, NoCall
<1>3. CASE review = "judging"
  <2>1. review' \in {"done", "rejected"} /\ UNCHANGED <<limit, mode, round>>
    BY <1>3 DEF Follow
  <2>2. QED BY <1>1, <1>2, <1>3, <2>1 DEF ReviewIsFunded, BudgetTypeOK
<1>4. CASE review = "repairing"
  <2>1. /\ review' \in {"drafted", "done"} /\ round' \in {round, round + 1}
        /\ UNCHANGED <<limit, mode>>
    BY <1>4 DEF Follow
  <2>2. round' \in Nat BY <1>1, <2>1 DEF BudgetTypeOK
  <2>3. QED BY <1>1, <1>2, <1>4, <2>1, <2>2 DEF ReviewIsFunded
<1>5. CASE review \notin {"judging", "repairing"}
  <2>1. UNCHANGED <<limit, review, mode, round>> BY <1>5 DEF Follow
  <2>2. QED BY <1>1, <1>2, <1>5, <2>1 DEF ReviewIsFunded, BudgetTypeOK
<1>6. QED BY <1>3, <1>4, <1>5

LEMMA CallEndsKeeps == ASSUME BudgetInv, CallEnds PROVE BudgetInv'
<1>1. PICK ok \in BOOLEAN : Follow(ok) BY DEF CallEnds
<1>2. call' = NoCall /\ UNCHANGED <<used, taken, attempts, reasons>> BY DEF CallEnds
<1>3. /\ ReviewIsFunded' /\ limit' = limit /\ mode' = mode /\ round' \in Nat
      /\ review' \in {"none", "drafted", "judging", "rejected", "repairing", "done"}
  BY <1>1, <1>2, FollowKeeps
<1>4. BudgetTypeOK' BY <1>2, <1>3 DEF BudgetInv, BudgetTypeOK, NoCall, CallTypes
<1>5. used' + Spared' <= limit' BY <1>2, <1>3 DEF BudgetInv, Spared
<1>6. OwnIsLast' BY <1>2 DEF OwnIsLast, NoCall
<1>7. ReasonsMatch' BY <1>2 DEF BudgetInv, ReasonsMatch
<1>8. AttemptsPaired'
  <2>1. attempts \in Nat /\ used \in Nat BY DEF BudgetInv, BudgetTypeOK
  <2>2. attempts <= 2 * used BY <2>1 DEF BudgetInv, AttemptsPaired
  <2>3. call'.via = "none" BY <1>2 DEF NoCall
  <2>4. QED BY <1>2, <2>1, <2>2, <2>3 DEF AttemptsPaired
<1>9. QED BY <1>3, <1>4, <1>5, <1>6, <1>7, <1>8 DEF BudgetInv

\* The fall-back takes the place of the call that failed and is never refused.
LEMMA FallBackKeeps == ASSUME BudgetInv, FallBack PROVE BudgetInv'
<1> DEFINE t == call.type
           n == used - 1
           asked == taken \ {t}
           stack == SubSeq(reasons, 1, Len(reasons) - 1)
<1>1. call.via = "responses" BY DEF FallBack
<1>2. BudgetTypeOK /\ ReasonsMatch /\ OwnIsLast /\ AttemptsPaired /\ ReviewIsFunded
  BY DEF BudgetInv
<1>3. /\ used \in Nat /\ attempts \in Nat /\ limit \in Nat /\ taken \in SUBSET Reserved
      /\ t \in CallTypes /\ call.before \in Nat
      /\ reasons \in Seq(Reservations)
  BY <1>2 DEF BudgetTypeOK
<1>4. Len(reasons) \in Nat /\ Len(reasons) >= 1 /\ used = Len(reasons) /\ reasons # <<>>
  BY <1>1, <1>2, <1>3 DEF OwnIsLast, ReasonsMatch
<1>5. Refundable(t, call.before)
  BY <1>1, <1>2, <1>4 DEF OwnIsLast, Refundable
<1>6. Returned(t, call.before) = [used |-> n, taken |-> asked, reasons |-> stack]
  BY <1>5 DEF Returned
<1>7. n \in Nat /\ asked \in SUBSET Reserved BY <1>3, <1>4
<1>8. /\ stack \in Seq(Reservations)
      /\ Len(stack) = n /\ \A i \in 1..n : stack[i] = reasons[i]
  <2>1. Len(reasons) - 1 \in 0..Len(reasons) /\ n = Len(reasons) - 1 BY <1>4
  <2>2. QED BY <1>3, <1>4, <2>1
<1>9. \A i \in 1..Len(stack) : stack[i].attempt <= attempts
  <2>1. \A i \in 1..n : i \in 1..Len(reasons) BY <1>4
  <2>2. QED BY <1>2, <1>8, <2>1 DEF ReasonsMatch
<1>10. attempts + 1 <= 2 * used BY <1>1, <1>2 DEF AttemptsPaired
<1>11. used + Spared <= limit BY DEF BudgetInv
<1>12. Fits(t, n, asked, limit)
  <2>1. used <= limit BY <1>3, <1>11 DEF Spared
  <2>2. CASE t \in Reserved BY <1>3, <1>4, <2>1, <2>2 DEF Fits, Hold
  <2>3. CASE t \notin Reserved
    <3>1. asked = taken BY <1>3, <2>3
    <3>2. CASE taken = {} /\ limit >= 2
      BY <1>3, <1>4, <1>11, <3>1, <3>2 DEF Fits, Hold, Spared
    <3>3. CASE ~(taken = {} /\ limit >= 2)
      BY <1>3, <1>4, <2>1, <3>1, <3>3 DEF Fits, Hold
    <3>4. QED BY <3>2, <3>3
  <2>4. QED BY <2>2, <2>3
<1>13. HasTransport
  <2>1. used <= limit BY <1>3, <1>11 DEF Spared
  <2>2. QED BY <1>3, <1>10, <2>1 DEF HasTransport
<1>14. FitsAgain(t, call.before) BY <1>6, <1>12, <1>13 DEF FitsAgain
<1>15. /\ Register(t, "chat", n, asked, stack)
       /\ UNCHANGED <<limit, review, mode, round>>
  BY <1>6, <1>14 DEF FallBack, Again
<1>16. attempts + 1 <= 2 * (n + 1) BY <1>3, <1>4, <1>10
<1>17. /\ used' \in Nat /\ attempts' \in Nat /\ taken' \subseteq Reserved
       /\ reasons' \in Seq(Reservations)
       /\ call' \in [via : {"none", "responses", "chat"}, type : CallTypes, before : Nat]
       /\ OwnIsLast' /\ AttemptsPaired' /\ ReasonsMatch'
       /\ used' = n + 1 /\ taken' = asked \cup ({t} \cap Reserved)
       /\ call'.type = t
  <2>1. n = Len(stack) BY <1>8
  <2>2. QED BY <1>2, <1>3, <1>7, <1>8, <1>9, <1>15, <1>16, <2>1, RegisterKeeps
<1>18. used' = used /\ taken' = taken \cup ({t} \cap Reserved) BY <1>3, <1>4, <1>17
<1>19. used' + Spared' <= limit'
  BY <1>3, <1>7, <1>12, <1>15, <1>17, SparedAfter
<1>20. review \notin {"drafted", "rejected", "done"} BY <1>1, <1>2 DEF ReviewIsFunded, Quiet
<1>21. ReviewIsFunded'
  BY <1>2, <1>15, <1>17, <1>18, <1>20 DEF ReviewIsFunded
<1>22. BudgetTypeOK' BY <1>2, <1>15, <1>17 DEF BudgetTypeOK
<1>23. QED BY <1>17, <1>19, <1>21, <1>22 DEF BudgetInv

LEMMA BeginReviewKeeps ==
  ASSUME BudgetInv, NEW m \in {"shadow", "enforce"}, NEW seeded \in BOOLEAN,
         BeginReview(m, seeded)
  PROVE  BudgetInv'
<1>1. /\ review = "none" /\ Quiet /\ mode' = m /\ taken' = Reserved /\ round' = 1
      /\ limit' \in {limit, Raised} /\ review' \in {"rejected", "drafted", "done"}
      /\ UNCHANGED <<used, attempts, reasons, call>>
  BY DEF BeginReview
<1>2. BudgetTypeOK BY DEF BudgetInv
<1>3. limit \in Nat \ {0} /\ limit' \in Nat \ {0} /\ limit' >= limit /\ used \in Nat
  BY <1>1, <1>2, BudgetAssumption DEF BudgetTypeOK, Raised
<1>4. used <= limit BY <1>3 DEF BudgetInv, Spared
<1>5. used' + Spared' <= limit' BY <1>1, <1>3, <1>4 DEF Spared, Reserved
<1>6. OwnIsLast' /\ AttemptsPaired' /\ ReasonsMatch'
  BY <1>1 DEF BudgetInv, OwnIsLast, AttemptsPaired, ReasonsMatch
<1>7. ReviewIsFunded' BY <1>1 DEF ReviewIsFunded, Reserved, Quiet
<1>8. BudgetTypeOK' BY <1>1, <1>2, <1>3 DEF BudgetTypeOK
<1>9. QED BY <1>5, <1>6, <1>7, <1>8 DEF BudgetInv

\* Where a step of the review calls nothing.
LEMMA ReviewStops ==
  ASSUME BudgetInv, Quiet, review' = "done",
         UNCHANGED <<used, taken, attempts, reasons, call>>, UNCHANGED <<limit, mode, round>>,
         review # "none"
  PROVE  BudgetInv'
<1>1. BudgetTypeOK' BY DEF BudgetInv, BudgetTypeOK
<1>2. used' + Spared' <= limit' BY DEF BudgetInv, Spared
<1>3. OwnIsLast' /\ AttemptsPaired' /\ ReasonsMatch'
  BY DEF BudgetInv, OwnIsLast, AttemptsPaired, ReasonsMatch
<1>4. ReviewIsFunded' BY DEF BudgetInv, ReviewIsFunded, Quiet
<1>5. QED BY <1>1, <1>2, <1>3, <1>4 DEF BudgetInv

LEMMA JudgeKeeps == ASSUME BudgetInv, Judge PROVE BudgetInv'
<1>1. review = "drafted" /\ Quiet /\ UNCHANGED <<limit, mode, round>> BY DEF Judge
<1>2. CASE Begin("judge") /\ review' = "judging"
  <2>1. "judge" \in CallTypes BY DEF CallTypes
  <2>2. BudgetTypeOK /\ ReviewIsFunded BY DEF BudgetInv
  <2>3. used \in Nat /\ taken \in SUBSET Reserved /\ limit \in Nat BY <2>2 DEF BudgetTypeOK
  <2>4. used' + Spared' <= limit' BY <1>1, <1>2, <2>1, <2>3, BeginKeeps, SparedAfter
  <2>5. ReviewIsFunded'
    BY <1>1, <1>2, <2>1, <2>2, BeginKeeps DEF ReviewIsFunded
  <2>6. BudgetTypeOK' BY <1>1, <1>2, <2>1, <2>2, BeginKeeps DEF BudgetTypeOK
  <2>7. QED BY <1>1, <1>2, <2>1, <2>4, <2>5, <2>6, BeginKeeps DEF BudgetInv
<1>3. CASE review' = "done" /\ UNCHANGED <<used, taken, attempts, reasons, call>>
  BY <1>1, <1>3, ReviewStops
<1>4. QED BY <1>2, <1>3 DEF Judge

\* Composition and judgement fit together, so after the one the other does.
LEMMA RepairKeeps == ASSUME BudgetInv, Repair PROVE BudgetInv'
<1>1. review = "rejected" /\ Quiet /\ UNCHANGED <<limit, mode, round>> BY DEF Repair
<1>2. CASE /\ CanAfford(<<"response_composition", "judge">>, taken, limit)
           /\ Begin("response_composition") /\ review' = "repairing"
  <2>1. "response_composition" \in CallTypes BY DEF CallTypes
  <2>2. BudgetTypeOK /\ ReviewIsFunded BY DEF BudgetInv
  <2>3. used \in Nat /\ taken \in SUBSET Reserved /\ limit \in Nat BY <2>2 DEF BudgetTypeOK
  <2>4. used' + Spared' <= limit' BY <1>1, <1>2, <2>1, <2>3, BeginKeeps, SparedAfter
  <2>5. used + 1 < limit
    <3> DEFINE calls == <<"response_composition", "judge">>
    <3>1. 2 \in 1..Len(calls) /\ calls[2] = "judge" OBVIOUS
    <3>2. Fits("judge", used + 2 - 1, taken \cup (Reserved \cap {calls[j] : j \in 1..(2-1)}), limit)
      BY <1>2, <3>1 DEF CanAfford
    <3>3. "clarification" \in taken BY <1>1, <2>2 DEF ReviewIsFunded
    <3>4. Hold("judge", taken \cup (Reserved \cap {calls[j] : j \in 1..(2-1)}), limit) = 0
      BY <3>3 DEF Hold
    <3>5. QED BY <2>3, <3>2, <3>4 DEF Fits
  <2>6. used' < limit' BY <1>1, <1>2, <2>1, <2>3, <2>5, BeginKeeps
  <2>7. ReviewIsFunded'
    BY <1>1, <1>2, <2>1, <2>2, <2>6, BeginKeeps DEF ReviewIsFunded
  <2>8. BudgetTypeOK' BY <1>1, <1>2, <2>1, <2>2, BeginKeeps DEF BudgetTypeOK
  <2>9. QED BY <1>1, <1>2, <2>1, <2>4, <2>7, <2>8, BeginKeeps DEF BudgetInv
<1>3. CASE review' = "done" /\ UNCHANGED <<used, taken, attempts, reasons, call>>
  BY <1>1, <1>3, ReviewStops
<1>4. QED BY <1>2, <1>3 DEF Repair

LEMMA BudgetStep == BudgetInv /\ [BudgetNext]_budgetVars => BudgetInv'
<1> SUFFICES ASSUME BudgetInv, [BudgetNext]_budgetVars PROVE BudgetInv' OBVIOUS
<1>1. CASE Work BY <1>1, WorkKeeps
<1>2. CASE Promote BY <1>2, PromoteKeeps
<1>3. CASE CallEnds BY <1>3, CallEndsKeeps
<1>4. CASE FallBack BY <1>4, FallBackKeeps
<1>5. CASE \E m \in {"shadow", "enforce"}, seeded \in BOOLEAN : BeginReview(m, seeded)
  BY <1>5, BeginReviewKeeps
<1>6. CASE Judge BY <1>6, JudgeKeeps
<1>7. CASE Repair BY <1>7, RepairKeeps
<1>8. CASE UNCHANGED budgetVars
  BY <1>8 DEF budgetVars, BudgetInv, BudgetTypeOK, Spared, OwnIsLast, AttemptsPaired,
              ReasonsMatch, ReviewIsFunded, Quiet
<1>9. QED BY <1>1, <1>2, <1>3, <1>4, <1>5, <1>6, <1>7, <1>8 DEF BudgetNext

-----------------------------------------------------------------------------
\* The budget, the reservations and the attempts of a turn agree in every state.
THEOREM BudgetInvariant == BudgetSpec => []BudgetInv
BY BudgetInitially, BudgetStep, PTL DEF BudgetSpec

\* The call that makes the reply is let through whatever was spent before it.
THEOREM RepliesAreFunded == BudgetSpec => []ReplyIsFunded
<1>1. BudgetInv => ReplyIsFunded
  <2> SUFFICES ASSUME BudgetInv, taken = {}, limit >= 2
               PROVE Admits("response_composition") /\ Admits("clarification")
    BY DEF ReplyIsFunded
  <2>1. used \in Nat /\ limit \in Nat BY DEF BudgetInv, BudgetTypeOK
  <2>2. used < limit BY <2>1 DEF BudgetInv, Spared
  <2>3. HasTransport BY <2>2, BudgetIsTheCeiling
  <2>4. QED BY <2>1, <2>2, <2>3 DEF Admits, Fits, Hold, Reserved
<1>2. QED BY <1>1, BudgetInvariant, PTL

\* A reply composed again is judged again.
THEOREM RepairsAreReviewed == BudgetSpec => []RepairIsReviewed
<1>1. BudgetInv => RepairIsReviewed
  <2> SUFFICES ASSUME BudgetInv, review = "drafted", round > 1 PROVE Admits("judge")
    BY DEF RepairIsReviewed
  <2>1. used \in Nat /\ limit \in Nat BY DEF BudgetInv, BudgetTypeOK
  <2>2. used < limit /\ "clarification" \in taken BY DEF BudgetInv, ReviewIsFunded
  <2>3. HasTransport BY <2>2, BudgetIsTheCeiling
  <2>4. QED BY <2>1, <2>2, <2>3 DEF Admits, Fits, Hold
<1>2. QED BY <1>1, BudgetInvariant, PTL

-----------------------------------------------------------------------------
(* Attendants *)

Ages == 0..Never

Rows == [assigned : BOOLEAN, bot : BOOLEAN, status : {"open", "waiting", "closed"},
         human : Ages, last : 0..LongAgo]

Looks == [pc : {"idle", "load", "seed", "allowed", "blocked", "queued", "sent"},
          human : Ages, blind : BOOLEAN, heard : Ages, cause : Ages]

TakeoverTypes ==
  /\ conversa \in [Threads -> Rows]
  /\ pause \in Ages /\ heard \in Ages /\ acted \in Ages /\ noticed \in Ages
  /\ look \in [Checkers -> Looks]

\* The stamp of the thread is at least as fresh as the latest attendant's
\* message that was noted, until it is so old that it is cleaned up.
PauseIsHeard == pause <= heard \/ (pause = Never /\ heard >= LongAgo)

\* A stamp is never fresher than what may have caused it.
PauseHasCause == Cause <= pause

\* The same of the rows, and of what a checker has read of a row.
RowsHaveCause ==
  /\ \A t \in Threads : acted <= conversa[t].human
  /\ \A k \in Checkers : Checking(k) => acted <= look[k].human

\* Who found no stamp could not have missed an attendant's message.
SeedersHeard ==
  \A k \in Checkers : look[k].pc = "seed" /\ ~look[k].blind => look[k].heard >= LongAgo

TakeoverInv ==
  /\ TakeoverTypes
  /\ PauseIsHeard /\ PauseHasCause /\ RowsHaveCause /\ SeedersHeard
  /\ AttendantIsHeard /\ SilenceHasCause

-----------------------------------------------------------------------------
\* What the assumptions say in arithmetic.
LEMMA AgesAreNumbers ==
  /\ Idle \in Nat /\ 0 < Idle /\ LongAgo \in Nat /\ Idle < LongAgo /\ Never = LongAgo + 1
  /\ 0 \in Ages /\ LongAgo \in Ages /\ Never \in Ages
  /\ \A a : a \in Ages <=> a \in Nat /\ a <= Never
BY TakeoverAssumption DEF TakeoverAssumption, LongAgo, Never, Ages

\* Ages stay ages, and keep their order, as time passes.
LEMMA OlderIsMonotone ==
  /\ \A a \in Ages : Older(a) \in Ages /\ a <= Older(a) /\ (a = Never <=> Older(a) = Never)
  /\ \A a \in 0..LongAgo : Older(a) \in 0..LongAgo
  /\ \A a, b \in Ages : a <= b => Older(a) <= Older(b)
  /\ \A a, b \in Ages : Newer(a, b) \in Ages /\ Newer(a, b) <= a /\ Newer(a, b) <= b
  /\ \A a, b, c \in Ages : Newer(a, b) <= c <=> a <= c \/ b <= c
BY AgesAreNumbers DEF Older, Newer, Ages

LEMMA TakeoverInitially == TakeoverInit => TakeoverInv
<1> SUFFICES ASSUME TakeoverInit PROVE TakeoverInv OBVIOUS
<1> USE AgesAreNumbers DEF TakeoverInit, NoLook
<1>1. TakeoverTypes
  <2>1. LongAgo \in 0..LongAgo OBVIOUS
  <2>2. QED BY <2>1 DEF TakeoverTypes, Threads, Rows, Looks
<1>2. PauseIsHeard BY DEF PauseIsHeard
<1>3. PauseHasCause BY DEF PauseHasCause, Cause, Newer
<1>4. RowsHaveCause BY DEF RowsHaveCause, Checking
<1>5. SeedersHeard /\ AttendantIsHeard /\ SilenceHasCause
  BY DEF SeedersHeard, AttendantIsHeard, SilenceHasCause
<1>6. QED BY <1>1, <1>2, <1>3, <1>4, <1>5 DEF TakeoverInv


\* What the invariant says of stamps and rows.
LEMMA StampFacts ==
  ASSUME TakeoverInv
  PROVE  /\ pause \in Ages /\ heard \in Ages /\ acted \in Ages /\ noticed \in Ages
         /\ Cause \in Ages /\ Cause <= pause /\ Cause <= acted
         /\ pause <= heard \/ (pause = Never /\ heard >= LongAgo)
         /\ conversa \in [Threads -> Rows]
         /\ \A t \in Threads : conversa[t].human \in Ages /\ acted <= conversa[t].human
BY OlderIsMonotone
   DEF TakeoverInv, TakeoverTypes, RowsHaveCause, PauseHasCause, PauseIsHeard, Cause, Rows

\* What it says of one checker.
LEMMA LookFacts ==
  ASSUME TakeoverInv, NEW k \in Checkers
  PROVE  /\ look[k] \in Looks
         /\ Checking(k) => acted <= look[k].human
         /\ look[k].pc = "seed" /\ ~look[k].blind => look[k].heard >= LongAgo
BY DEF TakeoverInv, TakeoverTypes, RowsHaveCause, SeedersHeard

\* A row that is stamped anew.
LEMMA RowAged ==
  ASSUME NEW c \in Rows, NEW h \in Ages, NEW l \in 0..LongAgo
  PROVE  /\ [c EXCEPT !.human = h, !.last = l] \in Rows
         /\ [c EXCEPT !.human = h, !.last = l].human = h
<1>1. [c EXCEPT !.human = h] \in Rows BY DEF Rows
<1> DEFINE d == [c EXCEPT !.human = h]
<1>2. d \in Rows BY <1>1
<1> HIDE DEF d
<1>3. [d EXCEPT !.last = l] \in Rows /\ [d EXCEPT !.last = l].human = d.human
  BY <1>2 DEF Rows
<1>4. d.human = h BY DEF d, Rows
<1>5. QED BY <1>3, <1>4 DEF d

\* A step of the world, from what it does to the stamps.
LEMMA WorldMoves ==
  ASSUME TakeoverInv, UNCHANGED look,
         pause' \in Ages, heard' \in Ages, acted' \in Ages, noticed' \in Ages,
         conversa' \in [Threads -> Rows],
         pause' <= heard' \/ (pause' = Never /\ heard' >= LongAgo),
         acted' <= pause' \/ noticed' <= pause',
         \A t \in Threads : acted' <= conversa'[t].human,
         acted' <= acted \/ \A k \in Checkers : ~Checking(k)
  PROVE  TakeoverInv'
<1>1. TakeoverTypes' BY DEF TakeoverInv, TakeoverTypes
<1>2. PauseIsHeard' BY DEF PauseIsHeard
<1>3. PauseHasCause' BY OlderIsMonotone DEF PauseHasCause, Cause
<1>4. RowsHaveCause'
  <2>1. ASSUME NEW k \in Checkers, Checking(k)' PROVE acted' <= look'[k].human
    <3>1. Checking(k) /\ look'[k] = look[k] BY <2>1 DEF Checking
    <3>2. acted <= look[k].human /\ look[k].human \in Ages /\ acted \in Ages
      BY <3>1, LookFacts, StampFacts DEF Looks
    <3>3. QED BY <3>1, <3>2, AgesAreNumbers
  <2>2. QED BY <2>1 DEF RowsHaveCause
<1>5. SeedersHeard' /\ AttendantIsHeard' /\ SilenceHasCause'
  BY DEF TakeoverInv, SeedersHeard, AttendantIsHeard, SilenceHasCause
<1>6. QED BY <1>1, <1>2, <1>3, <1>4, <1>5 DEF TakeoverInv

\* A step of checker k, from what it does to the stamps and what it learns.
LEMMA LookMoves ==
  ASSUME TakeoverInv, NEW k \in Checkers, NEW l \in Looks, Become(k, l),
         UNCHANGED <<heard, acted>>, conversa' \in [Threads -> Rows],
         \A t \in Threads : conversa'[t].human = conversa[t].human,
         pause' \in Ages, noticed' \in Ages,
         pause' <= heard \/ (pause' = Never /\ heard >= LongAgo),
         acted <= pause' \/ noticed' <= pause',
         l.pc \in {"load", "seed"} => acted <= l.human,
         l.pc = "seed" /\ ~l.blind => l.heard >= LongAgo,
         l.pc = "allowed" /\ ~l.blind => l.heard >= Idle,
         l.pc = "blocked" => l.cause < Idle
  PROVE  TakeoverInv'
<1>1. look \in [Checkers -> Looks] /\ look' = [look EXCEPT ![k] = l]
  BY DEF Become, TakeoverInv, TakeoverTypes
<1>2. \A j \in Checkers : look'[j] = IF j = k THEN l ELSE look[j]
  BY <1>1
<1>3. TakeoverTypes' BY <1>1, StampFacts DEF TakeoverTypes
<1>4. PauseIsHeard' BY DEF PauseIsHeard
<1>5. PauseHasCause' BY StampFacts, OlderIsMonotone DEF PauseHasCause, Cause
<1>6. RowsHaveCause' BY <1>2 DEF RowsHaveCause, Checking, TakeoverInv
<1>7. SeedersHeard' /\ AttendantIsHeard' /\ SilenceHasCause'
  BY <1>2 DEF SeedersHeard, AttendantIsHeard, SilenceHasCause, TakeoverInv
<1>8. QED BY <1>3, <1>4, <1>5, <1>6, <1>7 DEF TakeoverInv

-----------------------------------------------------------------------------
\* The steps of the world.
LEMMA PassKeeps == TakeoverInv /\ Pass => TakeoverInv'
<1> SUFFICES ASSUME TakeoverInv, Pass PROVE TakeoverInv' OBVIOUS
<1>1. /\ pause' = Older(pause) /\ heard' = Older(heard) /\ acted' = Older(acted)
      /\ noticed' = Older(noticed) /\ UNCHANGED look
      /\ \A k \in Checkers : ~Checking(k)
      /\ conversa' = [t \in Threads |->
           [conversa[t] EXCEPT !.human = Older(@), !.last = Older(@)]]
  BY DEF Pass
<1>2. \A t \in Threads : conversa'[t] \in Rows /\ conversa'[t].human = Older(conversa[t].human)
  <2> SUFFICES ASSUME NEW t \in Threads
               PROVE  conversa'[t] \in Rows /\ conversa'[t].human = Older(conversa[t].human)
    OBVIOUS
  <2> DEFINE c == conversa[t]
  <2>1. c \in Rows BY StampFacts
  <2>2. Older(c.human) \in Ages /\ Older(c.last) \in 0..LongAgo
    BY <2>1, OlderIsMonotone DEF Rows
  <2>3. conversa'[t] = [c EXCEPT !.human = Older(c.human), !.last = Older(c.last)]
    BY <1>1
  <2> HIDE DEF c
  <2>4. conversa'[t] \in Rows /\ conversa'[t].human = Older(c.human)
    <3> DEFINE h == Older(c.human)
               l == Older(c.last)
    <3>1. conversa'[t] = [c EXCEPT !.human = h, !.last = l] BY <2>3
    <3>2. h \in Ages /\ l \in 0..LongAgo BY <2>2
    <3> HIDE DEF h, l
    <3>3. /\ [c EXCEPT !.human = h, !.last = l] \in Rows
          /\ [c EXCEPT !.human = h, !.last = l].human = h
      BY <2>1, <3>2, RowAged, Zenon
    <3>4. conversa'[t] \in Rows /\ conversa'[t].human = h BY <3>1, <3>3, Zenon
    <3>5. QED BY <3>4 DEF h
  <2>5. QED BY <2>4 DEF c
<1>3. conversa' \in [Threads -> Rows] BY <1>1, <1>2
<1>4. ASSUME NEW t \in Threads PROVE acted' <= conversa'[t].human
  <2>1. acted <= conversa[t].human /\ acted \in Ages /\ conversa[t].human \in Ages
    BY StampFacts
  <2>2. Older(acted) <= Older(conversa[t].human) BY <2>1, OlderIsMonotone
  <2>3. QED BY <1>1, <1>2, <2>2
<1>5. pause' <= heard' \/ (pause' = Never /\ heard' >= LongAgo)
  BY <1>1, StampFacts, OlderIsMonotone, AgesAreNumbers DEF Older
<1>6. acted' <= pause' \/ noticed' <= pause'
  <2>1. acted <= pause \/ noticed <= pause BY StampFacts, OlderIsMonotone DEF Cause
  <2>2. QED BY <1>1, <2>1, StampFacts, OlderIsMonotone
<1>7. pause' \in Ages /\ heard' \in Ages /\ acted' \in Ages /\ noticed' \in Ages
  BY <1>1, StampFacts, OlderIsMonotone
<1>8. QED BY <1>1, <1>3, <1>4, <1>5, <1>6, <1>7, WorldMoves

\* What customer and attendants do: an act of an attendant is never older than
\* what was known.
LEMMA ActsKeep ==
  ASSUME TakeoverInv, conversa' \in [Threads -> Rows], UNCHANGED <<look, noticed>>,
         \/ UNCHANGED <<pause, heard>>
         \/ pause' = Newer(pause, 0) /\ heard' = 0 /\ acted' = 0
         \/ pause' = Never /\ pause = LongAgo /\ UNCHANGED heard,
         acted' = 0 \/ (acted' = acted /\ \A t \in Threads : conversa'[t].human = conversa[t].human)
  PROVE  TakeoverInv'
<1> USE AgesAreNumbers
<1>1. acted' \in Ages /\ acted' <= acted /\ \A t \in Threads : acted' <= conversa'[t].human
  <2>1. \A t \in Threads : conversa'[t].human \in Ages BY DEF Rows
  <2>2. QED BY <2>1, StampFacts
<1>2. pause' \in Ages /\ heard' \in Ages /\ noticed' \in Ages
  BY StampFacts, OlderIsMonotone
<1>3. pause' <= heard' \/ (pause' = Never /\ heard' >= LongAgo)
  <2>1. CASE UNCHANGED <<pause, heard>> BY <2>1, StampFacts
  <2>2. CASE pause' = Newer(pause, 0) /\ heard' = 0 BY <2>2, StampFacts, OlderIsMonotone
  <2>3. CASE pause' = Never /\ pause = LongAgo /\ UNCHANGED heard
    BY <2>3, StampFacts
  <2>4. QED BY <2>1, <2>2, <2>3
<1>4. acted' <= pause' \/ noticed' <= pause'
  <2>1. acted <= pause \/ noticed <= pause BY StampFacts, OlderIsMonotone DEF Cause
  <2>2. CASE acted' = 0 BY <1>2, <2>2
  <2>3. CASE acted' = acted /\ UNCHANGED <<pause, heard>> BY <2>1, <2>3
  <2>4. CASE acted' = acted /\ pause' = Never /\ pause = LongAgo BY <2>1, <2>4, StampFacts
  <2>5. QED BY <2>2, <2>3, <2>4
<1>5. QED BY <1>1, <1>2, <1>3, <1>4, WorldMoves

LEMMA CustomerMessageKeeps ==
  ASSUME TakeoverInv, NEW t \in Threads, CustomerMessage(t) PROVE TakeoverInv'
<1>1. conversa' = [conversa EXCEPT ![t].last = 0,
                                   ![t].status = IF @ = "closed" THEN "open" ELSE @]
  BY DEF CustomerMessage
<1> DEFINE f == [conversa EXCEPT ![t].last = 0]
<1>2. f \in [Threads -> Rows] /\ \A u \in Threads : f[u].human = conversa[u].human
  BY StampFacts, AgesAreNumbers DEF Rows
<1>3. conversa' = [f EXCEPT ![t].status = IF @ = "closed" THEN "open" ELSE @] BY <1>1
<1> HIDE DEF f
<1>4. conversa' \in [Threads -> Rows] /\ \A u \in Threads : conversa'[u].human = conversa[u].human
  BY <1>2, <1>3 DEF Rows
<1>5. QED BY <1>4, ActsKeep DEF CustomerMessage, Agent

LEMMA AssumeKeeps ==
  ASSUME TakeoverInv, NEW t \in Threads, Assume(t) PROVE TakeoverInv'
<1>1. PICK h \in {0, conversa[t].human} :
        conversa' = [conversa EXCEPT ![t].assigned = TRUE, ![t].bot = FALSE,
                                     ![t].status = "open", ![t].human = h]
  BY DEF Assume
<1>2. h \in Ages BY StampFacts, AgesAreNumbers
<1> DEFINE f == [conversa EXCEPT ![t].assigned = TRUE]
           g == [f EXCEPT ![t].bot = FALSE]
           e == [g EXCEPT ![t].status = "open"]
<1>3. conversa' = [e EXCEPT ![t].human = h] BY <1>1
<1>4. f \in [Threads -> Rows] BY StampFacts DEF Rows
<1> HIDE DEF f
<1>5. g \in [Threads -> Rows] BY <1>4 DEF Rows
<1> HIDE DEF g
<1>6. e \in [Threads -> Rows] BY <1>5 DEF Rows
<1> HIDE DEF e
<1>7. conversa' \in [Threads -> Rows] BY <1>3, <1>6, <1>2 DEF Rows
<1>8. QED BY <1>7, ActsKeep DEF Assume, Agent

LEMMA ReleaseKeeps ==
  ASSUME TakeoverInv, NEW t \in Threads, NEW status \in {"open", "closed"}, Release(t, status)
  PROVE  TakeoverInv'
<1>1. conversa' = [conversa EXCEPT ![t].assigned = FALSE, ![t].bot = (status = "open"),
                                   ![t].status = status]
  BY DEF Release
<1> DEFINE f == [conversa EXCEPT ![t].assigned = FALSE]
           g == [f EXCEPT ![t].bot = (status = "open")]
<1>2. conversa' = [g EXCEPT ![t].status = status] BY <1>1
<1>3. f \in [Threads -> Rows] BY StampFacts DEF Rows
<1> HIDE DEF f
<1>4. g \in [Threads -> Rows] BY <1>3 DEF Rows
<1> HIDE DEF g
<1>5. conversa' \in [Threads -> Rows] BY <1>2, <1>4 DEF Rows
<1>6. QED BY <1>5, ActsKeep DEF Release, Agent

LEMMA AttendantWritesKeeps == TakeoverInv /\ AttendantWrites => TakeoverInv'
<1> SUFFICES ASSUME TakeoverInv, AttendantWrites PROVE TakeoverInv' OBVIOUS
<1>1. PICK h \in {0, conversa["own"].human} :
        conversa' = [conversa EXCEPT !["own"].last = 0, !["own"].human = h]
  BY DEF AttendantWrites
<1>2. h \in Ages BY StampFacts, AgesAreNumbers DEF Threads
<1> DEFINE f == [conversa EXCEPT !["own"].last = 0]
<1>3. conversa' = [f EXCEPT !["own"].human = h] BY <1>1
<1>4. f \in [Threads -> Rows] BY StampFacts, AgesAreNumbers DEF Rows, Threads
<1> HIDE DEF f
<1>5. conversa' \in [Threads -> Rows] BY <1>3, <1>4, <1>2 DEF Rows
<1>6. UNCHANGED <<look, noticed>> /\ acted' = 0
      /\ ((pause' = Newer(pause, 0) /\ heard' = 0) \/ UNCHANGED <<pause, heard>>)
  BY DEF AttendantWrites, Stamp
<1>7. QED BY <1>5, <1>6, ActsKeep

\* A message of the agent's own stamps the pause with now, and is noted.
LEMMA OwnMessageReturnsKeeps == TakeoverInv /\ OwnMessageReturns => TakeoverInv'
<1> SUFFICES ASSUME TakeoverInv, OwnMessageReturns PROVE TakeoverInv' OBVIOUS
<1>1. /\ pause' = Newer(pause, 0) /\ noticed' = 0
      /\ UNCHANGED <<look, conversa, heard, acted>>
  BY DEF OwnMessageReturns, Stamp
<1>2. 0 \in Ages /\ \A a \in Ages : 0 <= a BY AgesAreNumbers
<1>3. pause' \in Ages /\ pause' <= pause BY <1>1, <1>2, StampFacts, OlderIsMonotone
<1>4. pause' <= heard' \/ (pause' = Never /\ heard' >= LongAgo)
  BY <1>1, <1>2, StampFacts, OlderIsMonotone
<1>5. /\ heard' \in Ages /\ acted' \in Ages /\ noticed' \in Ages
      /\ conversa' \in [Threads -> Rows] /\ noticed' <= pause' /\ acted' <= acted
      /\ \A t \in Threads : acted' <= conversa'[t].human
  BY <1>1, <1>2, <1>3, StampFacts, AgesAreNumbers
<1>6. UNCHANGED look BY <1>1
<1>7. QED BY <1>3, <1>4, <1>5, <1>6, WorldMoves

LEMMA CleanKeeps == TakeoverInv /\ Clean => TakeoverInv'
BY StampFacts, ActsKeep DEF Clean

LEMMA GrowsOldKeeps == TakeoverInv /\ GrowsOld => TakeoverInv'
BY StampFacts, ActsKeep DEF GrowsOld

-----------------------------------------------------------------------------
\* The steps of a check.
LEMMA NoLookType == NoLook \in Looks /\ Unled \in Looks
BY AgesAreNumbers DEF NoLook, Unled, Looks

LEMMA VerdictIsSound ==
  ASSUME TakeoverInv, NEW l \in Looks, NEW age \in Ages, Cause <= age,
         age >= Idle /\ ~l.blind => l.heard >= Idle
  PROVE  LET v == Verdict(l, age)
         IN  /\ v \in Looks /\ v.pc \in {"allowed", "blocked"}
             /\ v.pc = "allowed" /\ ~v.blind => v.heard >= Idle
             /\ v.pc = "blocked" => v.cause < Idle
<1> DEFINE w == [l EXCEPT !.pc = IF age >= Idle THEN "allowed" ELSE "blocked"]
<1>1. /\ w \in Looks /\ w.blind = l.blind /\ w.heard = l.heard
      /\ w.pc = IF age >= Idle THEN "allowed" ELSE "blocked"
  BY DEF Looks
<1>2. Verdict(l, age) = [w EXCEPT !.cause = Cause] BY DEF Verdict
<1> HIDE DEF w
<1>3. Cause \in Ages BY StampFacts
<1>4. /\ [w EXCEPT !.cause = Cause] \in Looks
      /\ [w EXCEPT !.cause = Cause].cause = Cause
      /\ [w EXCEPT !.cause = Cause].pc = w.pc
      /\ [w EXCEPT !.cause = Cause].heard = w.heard
      /\ [w EXCEPT !.cause = Cause].blind = w.blind
  BY <1>1, <1>3 DEF Looks
<1>5. w.pc = "blocked" => Cause < Idle BY <1>1, <1>3, AgesAreNumbers
<1>6. w.pc = "allowed" /\ ~w.blind => w.heard >= Idle BY <1>1
<1>7. QED BY <1>1, <1>2, <1>4, <1>5, <1>6

LEMMA CheckRowKeeps ==
  ASSUME TakeoverInv, NEW k \in Checkers, CheckRow(k) PROVE TakeoverInv'
<1>1. \/ Become(k, Unled)
      \/ \E t \in Threads : Become(k, [NoLook EXCEPT !.pc = "load", !.human = conversa[t].human])
  <2>1. Picked \subseteq Threads BY DEF Picked, Threads
  <2>2. QED BY <2>1 DEF CheckRow
<1>2. UNCHANGED <<conversa, pause, heard, acted, noticed>> BY DEF CheckRow, World
<1>3. pause \in Ages /\ noticed \in Ages /\ conversa' \in [Threads -> Rows]
      /\ (pause <= heard \/ (pause = Never /\ heard >= LongAgo))
      /\ (acted <= pause \/ noticed <= pause)
  BY <1>2, StampFacts, OlderIsMonotone DEF Cause
<1>4. CASE Become(k, Unled)
  <2>1. Unled \in Looks /\ Unled.pc = "allowed" /\ Unled.blind
    BY NoLookType DEF Unled, NoLook
  <2>2. QED BY <1>2, <1>3, <1>4, <2>1, LookMoves
<1>5. ASSUME NEW t \in Threads, NEW l, Become(k, l),
             l = [NoLook EXCEPT !.pc = "load", !.human = conversa[t].human]
      PROVE  TakeoverInv'
  <2>1. conversa[t].human \in Ages /\ acted <= conversa[t].human BY StampFacts
  <2>2. l \in Looks /\ l.pc = "load" /\ l.human = conversa[t].human
    BY <1>5, <2>1, AgesAreNumbers DEF NoLook, Looks
  <2>3. QED BY <1>2, <1>3, <1>5, <2>1, <2>2, LookMoves
<1>6. QED BY <1>1, <1>4, <1>5

LEMMA CheckPauseKeeps ==
  ASSUME TakeoverInv, NEW k \in Checkers, CheckPause(k) PROVE TakeoverInv'
<1> DEFINE l == [look[k] EXCEPT !.heard = heard]
<1>1. UNCHANGED <<conversa, pause, heard, acted, noticed>> /\ look[k].pc = "load"
  BY DEF CheckPause, World
<1>2. /\ pause \in Ages /\ noticed \in Ages /\ conversa' \in [Threads -> Rows]
      /\ pause <= heard \/ (pause = Never /\ heard >= LongAgo)
      /\ acted <= pause \/ noticed <= pause
      /\ heard \in Ages /\ Cause <= pause
  BY <1>1, StampFacts, OlderIsMonotone DEF Cause
<1>3. look[k] \in Looks /\ acted <= look[k].human BY <1>1, LookFacts DEF Checking
<1>4. l \in Looks /\ l.heard = heard /\ l.human = look[k].human BY <1>2, <1>3 DEF Looks
<1>5. \/ pause # Never /\ Become(k, Verdict(l, pause))
      \/ pause = Never /\ Become(k, [l EXCEPT !.pc = "seed"])
      \/ Become(k, [l EXCEPT !.pc = "seed", !.blind = TRUE])
  BY DEF CheckPause
<1> HIDE DEF l
<1>6. CASE pause # Never /\ Become(k, Verdict(l, pause))
  <2> DEFINE v == Verdict(l, pause)
  <2>1. pause >= Idle => l.heard >= Idle BY <1>2, <1>4, <1>6, AgesAreNumbers
  <2>2. /\ v \in Looks /\ v.pc \in {"allowed", "blocked"}
        /\ v.pc = "allowed" /\ ~v.blind => v.heard >= Idle
        /\ v.pc = "blocked" => v.cause < Idle
    BY <1>2, <1>4, <2>1, VerdictIsSound
  <2> HIDE DEF v
  <2>3. QED BY <1>1, <1>2, <1>6, <2>2, LookMoves DEF v
<1>7. CASE pause = Never /\ Become(k, [l EXCEPT !.pc = "seed"])
  <2> DEFINE w == [l EXCEPT !.pc = "seed"]
  <2>1. w \in Looks /\ w.pc = "seed" /\ w.heard = heard /\ w.human = look[k].human
    BY <1>4 DEF Looks
  <2>2. heard >= LongAgo BY <1>2, <1>7, AgesAreNumbers
  <2>3. Become(k, w) BY <1>7
  <2> HIDE DEF w
  <2>4. QED BY <1>1, <1>2, <1>3, <2>1, <2>2, <2>3, LookMoves
<1>8. CASE Become(k, [l EXCEPT !.pc = "seed", !.blind = TRUE])
  <2> DEFINE w == [l EXCEPT !.pc = "seed", !.blind = TRUE]
  <2>1. w \in Looks /\ w.pc = "seed" /\ w.blind /\ w.human = look[k].human
    BY <1>4 DEF Looks
  <2>2. Become(k, w) BY <1>8
  <2> HIDE DEF w
  <2>3. QED BY <1>1, <1>2, <1>3, <2>1, <2>2, LookMoves
<1>9. QED BY <1>5, <1>6, <1>7, <1>8

LEMMA SeedKeeps ==
  ASSUME TakeoverInv, NEW k \in Checkers, Seed(k) PROVE TakeoverInv'
<1> DEFINE l == look[k]
<1>1. UNCHANGED <<conversa, heard, acted>> /\ l.pc = "seed" BY DEF Seed, World
<1>2. l \in Looks /\ acted <= l.human /\ (~l.blind => l.heard >= LongAgo) /\ l.human \in Ages
  BY <1>1, LookFacts DEF Checking, Looks
<1>3. /\ pause \in Ages /\ noticed \in Ages /\ conversa' \in [Threads -> Rows]
      /\ heard \in Ages /\ acted \in Ages /\ Cause \in Ages /\ Cause <= pause /\ Cause <= acted
      /\ pause <= heard \/ (pause = Never /\ heard >= LongAgo)
      /\ acted <= pause \/ noticed <= pause
  BY <1>1, StampFacts, OlderIsMonotone DEF Cause
<1> HIDE DEF l
<1>4. CASE l.human # Never /\ Become(k, Verdict(l, l.human)) /\ UNCHANGED noticed
           /\ (Stamp(l.human) \/ UNCHANGED pause)
  <2> DEFINE v == Verdict(l, l.human)
  <2>1. Cause <= l.human /\ (l.human >= Idle /\ ~l.blind => l.heard >= Idle)
    BY <1>2, <1>3, AgesAreNumbers DEF Looks
  <2>2. /\ v \in Looks /\ v.pc \in {"allowed", "blocked"}
        /\ v.pc = "allowed" /\ ~v.blind => v.heard >= Idle
        /\ v.pc = "blocked" => v.cause < Idle
    BY <1>2, <2>1, VerdictIsSound
  <2>3. pause' = pause \/ pause' = Newer(pause, l.human) BY <1>4 DEF Stamp
  <2>4. pause' \in Ages BY <1>2, <1>3, <2>3 DEF Newer
  <2>5. pause' <= heard \/ (pause' = Never /\ heard >= LongAgo)
    BY <1>2, <1>3, <1>4, <2>3, AgesAreNumbers DEF Newer
  <2>6. acted <= pause' \/ noticed' <= pause'
    BY <1>2, <1>3, <1>4, <2>3 DEF Newer
  <2> HIDE DEF v
  <2>7. QED BY <1>1, <1>3, <1>4, <2>2, <2>4, <2>5, <2>6, LookMoves DEF v
<1>5. CASE Stamp(0) /\ noticed' = 0 /\ Become(k, [l EXCEPT !.pc = "blocked", !.cause = 0])
  <2> DEFINE w == [l EXCEPT !.pc = "blocked", !.cause = 0]
  <2>1. w \in Looks /\ w.pc = "blocked" /\ w.cause = 0 BY <1>2, AgesAreNumbers DEF Looks
  <2>2. pause' = 0 BY <1>3, <1>5, AgesAreNumbers DEF Stamp, Newer
  <2>3. Become(k, w) BY <1>5
  <2> HIDE DEF w
  <2>4. pause' \in Ages /\ noticed' \in Ages /\ noticed' <= pause' /\ pause' <= heard /\ 0 < Idle
    BY <1>3, <1>5, <2>2, AgesAreNumbers
  <2>5. QED BY <1>1, <1>3, <2>1, <2>3, <2>4, LookMoves
<1>6. CASE Become(k, Unled) /\ UNCHANGED <<pause, noticed>>
  <2>1. Unled \in Looks /\ Unled.pc = "allowed" /\ Unled.blind
    BY NoLookType DEF Unled, NoLook
  <2>2. QED BY <1>1, <1>3, <1>6, <2>1, LookMoves
<1>7. \/ l.human # Never /\ Become(k, Verdict(l, l.human)) /\ UNCHANGED noticed
           /\ (Stamp(l.human) \/ UNCHANGED pause)
      \/ Stamp(0) /\ noticed' = 0 /\ Become(k, [l EXCEPT !.pc = "blocked", !.cause = 0])
      \/ Become(k, Unled) /\ UNCHANGED <<pause, noticed>>
  BY DEF Seed, l
<1>8. QED BY <1>4, <1>5, <1>6, <1>7

\* The rest of the turn, once the verdict is there.
LEMMA TurnKeeps ==
  ASSUME TakeoverInv, NEW k \in Checkers, Leave(k) \/ Reply(k) \/ Record(k) \/ Transfer(k)
  PROVE  TakeoverInv'
<1>1. UNCHANGED <<pause, heard, acted, noticed>> BY DEF Leave, Reply, Record, Transfer, Turn
<1>2. \/ Become(k, NoLook)
      \/ \E pc \in {"queued", "sent"} : Become(k, [NoLook EXCEPT !.pc = pc])
  BY DEF Leave, Reply, Record, Transfer
<1>3. conversa' \in [Threads -> Rows] /\ \A t \in Threads : conversa'[t].human = conversa[t].human
  <2>1. CASE UNCHANGED conversa BY <2>1, StampFacts
  <2>2. CASE conversa' = [conversa EXCEPT !["own"].bot = FALSE,
                 !["own"].status = IF conversa["own"].assigned THEN @ ELSE "waiting"]
    <3> DEFINE f == [conversa EXCEPT !["own"].bot = FALSE]
    <3>1. conversa' = [f EXCEPT !["own"].status = IF conversa["own"].assigned THEN @
                                                  ELSE "waiting"]
      BY <2>2
    <3>2. f \in [Threads -> Rows] /\ \A t \in Threads : f[t].human = conversa[t].human
      BY StampFacts DEF Rows, Threads
    <3> HIDE DEF f
    <3>3. QED BY <3>1, <3>2 DEF Rows, Threads
  <2>3. QED BY <2>1, <2>2 DEF Leave, Reply, Record, Transfer
<1>4. /\ pause \in Ages /\ noticed \in Ages
      /\ pause <= heard \/ (pause = Never /\ heard >= LongAgo)
      /\ acted <= pause \/ noticed <= pause
  BY StampFacts, OlderIsMonotone DEF Cause
<1>5. CASE Become(k, NoLook)
  <2>1. NoLook \in Looks /\ NoLook.pc = "idle" BY NoLookType DEF NoLook
  <2>2. QED BY <1>1, <1>3, <1>4, <1>5, <2>1, LookMoves
<1>6. ASSUME NEW pc \in {"queued", "sent"}, Become(k, [NoLook EXCEPT !.pc = pc])
      PROVE  TakeoverInv'
  <2> DEFINE w == [NoLook EXCEPT !.pc = pc]
  <2>1. w \in Looks /\ w.pc \in {"queued", "sent"} BY NoLookType DEF NoLook, Looks
  <2>2. Become(k, w) BY <1>6
  <2> HIDE DEF w
  <2>3. QED BY <1>1, <1>3, <1>4, <2>1, <2>2, LookMoves
<1>7. QED BY <1>2, <1>5, <1>6

LEMMA TakeoverStep == TakeoverInv /\ [TakeoverNext]_takeoverVars => TakeoverInv'
<1> SUFFICES ASSUME TakeoverInv, [TakeoverNext]_takeoverVars PROVE TakeoverInv' OBVIOUS
<1>1. CASE Pass BY <1>1, PassKeeps
<1>2. CASE Clean \/ GrowsOld BY <1>2, CleanKeeps, GrowsOldKeeps
<1>3. CASE AttendantWrites \/ OwnMessageReturns
  BY <1>3, AttendantWritesKeeps, OwnMessageReturnsKeeps
<1>4. ASSUME NEW t \in Threads, CustomerMessage(t) PROVE TakeoverInv'
  BY <1>4, CustomerMessageKeeps
<1>5. ASSUME NEW t \in Threads, Assume(t) PROVE TakeoverInv' BY <1>5, AssumeKeeps
<1>6. ASSUME NEW t \in Threads, NEW status \in {"open", "closed"}, Release(t, status)
      PROVE  TakeoverInv'
  BY <1>6, ReleaseKeeps
<1>7. ASSUME NEW k \in Checkers, Check(k) PROVE TakeoverInv'
  BY <1>7, CheckRowKeeps, CheckPauseKeeps, SeedKeeps, TurnKeeps DEF Check
<1>8. CASE UNCHANGED takeoverVars
  BY <1>8 DEF takeoverVars, TakeoverInv, TakeoverTypes, PauseIsHeard, PauseHasCause, Cause,
     RowsHaveCause, Checking, SeedersHeard, AttendantIsHeard, SilenceHasCause
<1>9. QED BY <1>1, <1>2, <1>3, <1>4, <1>5, <1>6, <1>7, <1>8 DEF TakeoverNext

\* Every reachable state satisfies the invariant, for any number of turns of
\* the thread and any idle time.
THEOREM TakeoverInvariant == TakeoverSpec => []TakeoverInv
<1>1. QED BY TakeoverInitially, TakeoverStep, PTL DEF TakeoverSpec

\* No turn that could read the pause answers within the idle time of an
\* attendant's message that was noted.
THEOREM AttendantsAreHeard == TakeoverSpec => []AttendantIsHeard
<1>1. TakeoverInv => AttendantIsHeard BY DEF TakeoverInv
<1>2. QED BY <1>1, TakeoverInvariant, PTL

\* The agent is silent only within the idle time of a cause.
THEOREM SilencesHaveCause == TakeoverSpec => []SilenceHasCause
<1>1. TakeoverInv => SilenceHasCause BY DEF TakeoverInv
<1>2. QED BY <1>1, TakeoverInvariant, PTL

-----------------------------------------------------------------------------
(* Memory: what a turn knows of three states. *)

Minds == [some : BOOLEAN, context : Int, cleared : BOOLEAN, cart : Nat, link : Nat,
          items : [Wares -> Nat], order : Nat, awaiting : BOOLEAN, review : [Wares -> Nat],
          ambiguous : BOOLEAN]

\* What was never written says nothing.
Silent(m) == ~m.some => m = Nothing

\* The states of the memory; what was told was told in the end.
MemoryTypes ==
  /\ told \in Minds /\ richest \in Minds /\ kept \in Minds
  /\ Silent(told) /\ Silent(richest) /\ Silent(kept)
  /\ richest.some => told.some

LEMMA BlankIsMind ==
  /\ Empty \in [Wares -> Nat] /\ Blank \in Minds /\ Nothing \in Minds
  /\ Blank.review = Empty /\ Blank.order = 0 /\ Blank.some /\ Blank.context = 0 /\ Blank.cart = 0
  /\ Nothing.review = Empty /\ Nothing.order = 0 /\ ~Nothing.some /\ Nothing.context = 0
  /\ Nothing.cart = 0 /\ Nothing.ambiguous = FALSE /\ Nothing.cleared = FALSE
<1>1. Empty \in [Wares -> Nat] BY DEF Empty
<1>2. Blank \in Minds BY <1>1 DEF Blank, Minds
<1>3. Nothing \in Minds BY <1>2 DEF Nothing, Minds
<1>4. QED BY <1>1, <1>2, <1>3 DEF Blank, Nothing

\* One state is completed from another.
LEMMA MergeOfTwo ==
  ASSUME NEW a \in Minds, NEW b \in Minds, a.some, b.some, ~Foreign(a, b)
  PROVE  /\ Merge(a, b) \in Minds /\ Merge(a, b).some
         /\ Merge(a, b).review = a.review /\ Merge(a, b).ambiguous = a.ambiguous
         /\ Merge(a, b).context = a.context /\ Merge(a, b).cleared = a.cleared
         /\ Merge(a, b).cart = (IF a.cart = 0 /\ ~a.cleared THEN b.cart ELSE a.cart)
         /\ Merge(a, b).order = (IF a.order = 0 THEN b.order ELSE a.order)
<1> DEFINE c == [a EXCEPT !.cart = IF a.cart = 0 /\ ~a.cleared THEN b.cart ELSE a.cart]
           d == [c EXCEPT !.link = IF a.link = 0 /\ ~a.cleared THEN b.link ELSE a.link]
           e == [d EXCEPT !.order = IF a.order = 0 THEN b.order ELSE a.order]
           f == [e EXCEPT !.awaiting = a.awaiting \/ (b.awaiting /\ ~a.cleared)]
           Same(x) == x.some = a.some /\ x.context = a.context /\ x.cleared = a.cleared
                      /\ x.review = a.review /\ x.ambiguous = a.ambiguous
<1>1. Merge(a, b) = f
  <2>1. c.link = a.link /\ c.cleared = a.cleared /\ c.order = a.order /\ c.awaiting = a.awaiting
    BY DEF Minds
  <2>2. d.order = a.order /\ d.awaiting = a.awaiting BY DEF Minds
  <2>3. e.awaiting = a.awaiting BY DEF Minds
  <2>4. QED BY <2>1, <2>2, <2>3 DEF Merge
<1>2. c \in Minds /\ Same(c) /\ c.cart = (IF a.cart = 0 /\ ~a.cleared THEN b.cart ELSE a.cart)
  BY DEF Minds
<1> HIDE DEF c
<1>3. d \in Minds /\ Same(d) /\ d.cart = c.cart BY <1>2 DEF Minds
<1> HIDE DEF d
<1>4. e \in Minds /\ Same(e) /\ e.cart = d.cart
      /\ e.order = (IF a.order = 0 THEN b.order ELSE a.order)
  BY <1>3 DEF Minds
<1> HIDE DEF e
<1>5. f \in Minds /\ Same(f) /\ f.cart = e.cart /\ f.order = e.order BY <1>4 DEF Minds
<1> HIDE DEF f
<1>6. QED BY <1>1, <1>2, <1>3, <1>4, <1>5

\* The cases of the merge.
LEMMA MergeKeeps ==
  ASSUME NEW a \in Minds, NEW b \in Minds, Silent(a), Silent(b)
  PROVE  /\ Merge(a, b) \in Minds /\ Silent(Merge(a, b))
         /\ Merge(a, b).some <=> a.some \/ b.some
         /\ a.some => /\ Merge(a, b).review = a.review /\ Merge(a, b).ambiguous = a.ambiguous
                      /\ Merge(a, b).context = a.context
         /\ ~b.some => Merge(a, b) = a
         /\ ~a.some /\ b.some => Merge(a, b) = b
         /\ Merge(a, b).cart \in {a.cart, b.cart}
         /\ a.cart # 0 => Merge(a, b).cart = a.cart
         /\ a.order # 0 => Merge(a, b).order # 0
         /\ a.context = 0 => (Merge(a, b).order # 0 <=> a.order # 0 \/ b.order # 0)
         /\ a.context = 0 /\ b.context = 0 => Merge(a, b).context = 0
<1>1. CASE ~b.some
  <2>1. Merge(a, b) = a BY <1>1 DEF Merge
  <2>2. b.order = 0 BY <1>1, BlankIsMind DEF Silent
  <2>3. QED BY <1>1, <2>1, <2>2
<1>2. CASE b.some /\ ~a.some
  <2>1. Merge(a, b) = b BY <1>2 DEF Merge
  <2>2. a.order = 0 /\ a.cart = 0 BY <1>2, BlankIsMind DEF Silent
  <2>3. QED BY <1>2, <2>1, <2>2
<1>3. CASE b.some /\ a.some /\ Foreign(a, b)
  <2>1. Merge(a, b) = a BY <1>3 DEF Merge
  <2>2. a.context = 0 => a.order # 0 BY <1>3 DEF Foreign
  <2>3. QED BY <1>3, <2>1, <2>2
<1>4. CASE b.some /\ a.some /\ ~Foreign(a, b)
  BY <1>4, MergeOfTwo DEF Silent
<1>5. QED BY <1>1, <1>2, <1>3, <1>4

\* What a turn may start with, of whichever reads succeeded.
LEMMA ToldFacts ==
  ASSUME MemoryTypes
  PROVE  /\ ToldSoFar \in Minds /\ Silent(ToldSoFar) /\ (ToldSoFar.some <=> told.some)
         /\ ToldSoFar.review = told.review /\ ToldSoFar.ambiguous = told.ambiguous
         /\ ToldSoFar.cart \in {told.cart, richest.cart}
         /\ told.cart # 0 => ToldSoFar.cart = told.cart
         /\ told.context = 0 =>
              (ToldSoFar.order # 0 <=> told.order # 0 \/ richest.order # 0)
         /\ told.context = 0 /\ richest.context = 0 => ToldSoFar.context = 0
<1>1. told \in Minds /\ richest \in Minds /\ Silent(told) /\ Silent(richest)
      /\ (richest.some => told.some)
  BY DEF MemoryTypes
<1>2. ~told.some => ToldSoFar = told BY <1>1, MergeKeeps DEF ToldSoFar
<1>3. QED BY <1>1, <1>2, MergeKeeps DEF ToldSoFar

\* Some turn's state, said to be one.
LEMMA SomeMind ==
  ASSUME NEW m \in Minds, Silent(m), NEW x, x = [m EXCEPT !.some = TRUE]
  PROVE  /\ x \in Minds /\ x.some
         /\ x.review = m.review /\ x.ambiguous = m.ambiguous /\ x.context = m.context
         /\ x.order = m.order /\ x.cart = m.cart /\ x.cleared = m.cleared
BY DEF Minds

LEMMA RememberedKeeps ==
  ASSUME MemoryTypes, NEW way \in Ways
  PROVE  /\ Remembered(way) \in Minds /\ Remembered(way).some
         /\ Remembered(way).cart \in {told.cart, richest.cart, kept.cart, 0}
         /\ way \in {"told only", "neither"} \/ (way = "both" /\ (told.some \/ ~kept.some))
              => Remembered(way).review \in {told.review, Empty}
<1>1. /\ ToldSoFar \in Minds /\ Silent(ToldSoFar) /\ (ToldSoFar.some <=> told.some)
      /\ ToldSoFar.review = told.review
      /\ ToldSoFar.cart \in {told.cart, richest.cart}
  BY ToldFacts
<1>2. kept \in Minds /\ Silent(kept) BY DEF MemoryTypes
<1>3. PICK m \in Minds : /\ Silent(m) /\ Remembered(way) = [m EXCEPT !.some = TRUE]
                         /\ m.cart \in {told.cart, richest.cart, kept.cart, 0}
                         /\ way \in {"told only", "neither"}
                              \/ (way = "both" /\ (told.some \/ ~kept.some))
                              => m.review \in {told.review, Empty}
  <2>1. CASE way = "both"
    <3>1. told.some \/ ~kept.some => Merge(ToldSoFar, kept).review = told.review
      BY <1>1, <1>2, MergeKeeps
    <3>2. Remembered(way) = [Merge(ToldSoFar, kept) EXCEPT !.some = TRUE] BY <2>1 DEF Remembered
    <3>3. /\ Merge(ToldSoFar, kept) \in Minds /\ Silent(Merge(ToldSoFar, kept))
          /\ Merge(ToldSoFar, kept).cart \in {ToldSoFar.cart, kept.cart}
      BY <1>1, <1>2, MergeKeeps
    <3>4. QED BY <1>1, <2>1, <3>1, <3>2, <3>3
  <2>2. CASE way = "kept first"
    <3>1. Remembered(way) = [Merge(kept, ToldSoFar) EXCEPT !.some = TRUE] BY <2>2 DEF Remembered
    <3>2. /\ Merge(kept, ToldSoFar) \in Minds /\ Silent(Merge(kept, ToldSoFar))
          /\ Merge(kept, ToldSoFar).cart \in {ToldSoFar.cart, kept.cart}
      BY <1>1, <1>2, MergeKeeps
    <3>3. QED BY <1>1, <2>2, <3>1, <3>2
  <2>3. CASE way = "told only"
    <3>1. Remembered(way) = [ToldSoFar EXCEPT !.some = TRUE] BY <2>3 DEF Remembered
    <3>2. QED BY <1>1, <2>3, <3>1
  <2>4. CASE way = "kept only"
    <3>1. Remembered(way) = [kept EXCEPT !.some = TRUE] BY <2>4 DEF Remembered
    <3>2. QED BY <1>2, <2>4, <3>1
  <2>5. CASE way = "neither"
    <3>1. Remembered(way) = [Nothing EXCEPT !.some = TRUE] BY <2>5 DEF Remembered
    <3>2. QED BY <2>5, <3>1, BlankIsMind DEF Silent
  <2>6. QED BY <2>1, <2>2, <2>3, <2>4, <2>5 DEF Ways
<1>4. QED BY <1>3, SomeMind

\* Where nothing failed and no new request was made, what is remembered is all
\* that was known of an order.
LEMMA BothRemembered ==
  ASSUME MemoryTypes, told.context = 0, richest.context = 0, kept.context = 0
  PROVE  /\ Remembered("both").context = 0
         /\ Remembered("both").order # 0 <=> told.order # 0 \/ richest.order # 0 \/ kept.order # 0
         /\ told.some \/ ~kept.some => Remembered("both").ambiguous = told.ambiguous
         /\ told.cart # 0 => Remembered("both").cart = told.cart
<1> DEFINE m == Merge(ToldSoFar, kept)
<1>1. /\ ToldSoFar \in Minds /\ Silent(ToldSoFar) /\ (ToldSoFar.some <=> told.some)
      /\ ToldSoFar.ambiguous = told.ambiguous /\ ToldSoFar.context = 0
      /\ ToldSoFar.order # 0 <=> told.order # 0 \/ richest.order # 0
      /\ told.cart # 0 => ToldSoFar.cart = told.cart
  BY ToldFacts
<1>2. kept \in Minds /\ Silent(kept) BY DEF MemoryTypes
<1>3. /\ m \in Minds /\ Silent(m) /\ m.context = 0
      /\ m.order # 0 <=> ToldSoFar.order # 0 \/ kept.order # 0
      /\ told.some \/ ~kept.some => m.ambiguous = told.ambiguous
      /\ told.cart # 0 => m.cart = told.cart
  BY <1>1, <1>2, MergeKeeps
<1>4. Remembered("both") = [m EXCEPT !.some = TRUE] BY DEF Remembered
<1> HIDE DEF m
<1>5. QED BY <1>1, <1>3, <1>4, SomeMind

\* A cart or everything is forgotten.
LEMMA ExpiredMind ==
  ASSUME NEW m \in Minds
  PROVE  /\ Expired(m) \in Minds /\ Expired(m).some = m.some /\ Expired(m).review = Empty
         /\ Expired(m).context = m.context /\ Expired(m).order = m.order /\ Expired(m).cart = 0
<1> DEFINE a == [m EXCEPT !.cart = 0]
           b == [a EXCEPT !.link = 0]
           c == [b EXCEPT !.items = Empty]
           d == [c EXCEPT !.awaiting = FALSE]
           e == [d EXCEPT !.review = Empty]
           Same(x) == x \in Minds /\ x.some = m.some /\ x.context = m.context /\ x.order = m.order
                      /\ x.cart = 0
<1>1. Expired(m) = [e EXCEPT !.cleared = TRUE] BY DEF Expired
<1>2. Same(a) BY DEF Minds
<1> HIDE DEF a
<1>3. Same(b) BY <1>2 DEF Minds
<1> HIDE DEF b
<1>4. Same(c) BY <1>3, BlankIsMind DEF Minds
<1> HIDE DEF c
<1>5. Same(d) BY <1>4 DEF Minds
<1> HIDE DEF d
<1>6. Same(e) /\ e.review = Empty BY <1>5, BlankIsMind DEF Minds
<1> HIDE DEF e
<1>7. QED BY <1>1, <1>6 DEF Minds

LEMMA RenewedMind ==
  ASSUME NEW n \in Int
  PROVE  /\ Renewed(n) \in Minds /\ Renewed(n).some /\ Renewed(n).review = Empty
         /\ Renewed(n).context = n /\ Renewed(n).order = 0 /\ Renewed(n).cart = 0
BY BlankIsMind DEF Renewed, Minds

LEMMA StartsAreMinds ==
  ASSUME MemoryTypes, NEW way \in Ways, NEW n \in Int, NEW m \in Starts(way, n)
  PROVE  /\ m \in Minds /\ m.some
         /\ m.cart \in {told.cart, richest.cart, kept.cart, 0}
         /\ way \in {"told only", "neither"} \/ (way = "both" /\ (told.some \/ ~kept.some))
              => m.review \in {told.review, Empty}
         /\ m = Remembered(way) \/ m.context = n
              \/ (MayExpire(Remembered(way)) /\ m = Expired(Remembered(way)))
<1>1. \/ m = Remembered(way) \/ m = Renewed(n)
      \/ MayExpire(Remembered(way)) /\ m = Expired(Remembered(way))
  BY DEF Starts
<1>2. Remembered(way) \in Minds /\ Remembered(way).some BY RememberedKeeps
<1>3. CASE m = Remembered(way) BY <1>3, RememberedKeeps
<1>4. CASE m = Renewed(n) BY <1>4, RenewedMind
<1>5. CASE MayExpire(Remembered(way)) /\ m = Expired(Remembered(way)) BY <1>2, <1>5, ExpiredMind
<1>6. QED BY <1>1, <1>3, <1>4, <1>5

\* What is kept, and what is told.
LEMMA KeepKeeps ==
  ASSUME MemoryTypes, NEW s \in Minds, s.some, Keep(s) \/ KeepBadly(s)
  PROVE  /\ kept' \in Minds /\ Silent(kept') /\ kept'.cart \in {s.cart, kept.cart}
         /\ s.context = 0 /\ kept.context = 0 =>
              /\ kept'.context = 0
              /\ kept'.order # 0 => s.order # 0 \/ kept.order # 0
              /\ kept.order # 0 /\ s.order # 0 => kept'.order # 0
<1>1. Silent(s) /\ kept \in Minds /\ Silent(kept) BY DEF Silent, MemoryTypes
<1>2. /\ Merge(s, kept) \in Minds /\ Silent(Merge(s, kept))
      /\ Merge(s, kept).cart \in {s.cart, kept.cart}
      /\ s.context = 0 => (Merge(s, kept).order # 0 <=> s.order # 0 \/ kept.order # 0)
      /\ s.context = 0 /\ kept.context = 0 => Merge(s, kept).context = 0
  BY <1>1, MergeKeeps
<1>3. kept' \in {Merge(s, kept), s, kept} BY DEF Keep, KeepBadly
<1>4. QED BY <1>1, <1>2, <1>3

LEMMA TellKeeps ==
  ASSUME MemoryTypes, NEW s \in Minds, s.some, Tell(s)
  PROVE  /\ told' = s /\ richest' \in {s, richest} /\ Silent(told') /\ Silent(richest')
         /\ richest.order # 0 => richest'.order # 0
<1>1. ASSUME NEW x \in Minds, NEW y \in Minds, Score(x) >= Score(y), y.order # 0
      PROVE  x.order # 0
  BY <1>1 DEF Score, Minds
<1>2. QED BY <1>1 DEF Tell, MemoryTypes, Silent

-----------------------------------------------------------------------------
(* Orders *)

SalePcs == {"idle", "change", "review", "yes", "no", "facts", "preflight", "post", "reconcile",
            "keep", "answer"}
Sales == [pc : SalePcs, mind : Minds, shows : [Wares -> Nat], sent : BOOLEAN]

OrderTypes ==
  /\ MemoryTypes /\ sale \in Sales /\ sale.mind.some /\ sales \in Int
  /\ basket \in [Wares -> Nat] /\ placed \in Seq([Wares -> Nat]) /\ seen \in [Wares -> Nat]
  /\ \A o \in adrift : o.goods \in [Wares -> Nat]

\* The review a turn may confirm is the last one shown, or the one its own
\* reply will show.
Shown(t) == IF t.shows = Empty THEN seen ELSE t.shows
ReviewWasShown ==
  /\ "adopted" \notin excuses =>
       told.review \in {Empty, seen} /\ sale.mind.review \in {Empty, Shown(sale)}
  /\ sale.pc \notin {"keep", "answer"} => sale.shows = Empty
  /\ sale.pc \in {"facts", "preflight", "post"} => sale.mind.review # Empty /\ sale.mind.order = 0

\* Nothing was asked anew, and a turn knows of an order that was kept.
NoneForgotten ==
  /\ told.context = 0 /\ richest.context = 0 /\ kept.context = 0 /\ sale.mind.context = 0
  /\ kept.order # 0 /\ sale.pc # "idle" => sale.mind.order # 0

\* The next turn will know of an order, or look for it.
Traced(mind) == mind.order # 0 \/ mind.ambiguous
Known == told.order # 0 \/ richest.order # 0 \/ kept.order # 0

\* The one order of the cart leaves a trace, in the turn that posted it and in
\* what the next will remember.
OrderIsTraced ==
  excuses = {} /\ placed # <<>> =>
    /\ Len(placed) = 1 /\ sale.pc # "post"
    /\ sale.sent \/ Known \/ told.ambiguous
    /\ sale.pc \notin {"idle", "reconcile"} => Traced(sale.mind)
    /\ sale.pc = "preflight" => sale.mind.ambiguous

\* Only a turn that posted looks for what it may have made.
ReconcilersPosted == sale.pc = "reconcile" => sale.sent
SentIsOver == sale.sent => sale.pc \in {"reconcile", "keep", "answer"}

OrderInv ==
  /\ OrderTypes /\ ReviewWasShown /\ (excuses = {} => NoneForgotten) /\ OrderIsTraced
  /\ ReconcilersPosted /\ SentIsOver

-----------------------------------------------------------------------------
\* One field of a turn is changed.
LEMMA SalePc ==
  ASSUME NEW t \in Sales, NEW v \in SalePcs, NEW e, e = [t EXCEPT !.pc = v]
  PROVE  e \in Sales /\ e.pc = v /\ e.mind = t.mind /\ e.shows = t.shows /\ e.sent = t.sent
BY DEF Sales

LEMMA SaleMind ==
  ASSUME NEW t \in Sales, NEW v \in Minds, NEW e, e = [t EXCEPT !.mind = v]
  PROVE  e \in Sales /\ e.pc = t.pc /\ e.mind = v /\ e.shows = t.shows /\ e.sent = t.sent
BY DEF Sales

LEMMA SaleShows ==
  ASSUME NEW t \in Sales, NEW v \in [Wares -> Nat], NEW e, e = [t EXCEPT !.shows = v]
  PROVE  e \in Sales /\ e.pc = t.pc /\ e.mind = t.mind /\ e.shows = v /\ e.sent = t.sent
BY DEF Sales

LEMMA SaleSent ==
  ASSUME NEW t \in Sales, NEW v \in BOOLEAN, NEW e, e = [t EXCEPT !.sent = v]
  PROVE  e \in Sales /\ e.pc = t.pc /\ e.mind = t.mind /\ e.shows = t.shows /\ e.sent = v
BY DEF Sales

LEMMA NoSaleFacts ==
  /\ NoSale \in Sales /\ NoSale.pc = "idle" /\ NoSale.mind = Blank /\ NoSale.shows = Empty
  /\ NoSale.sent = FALSE
BY BlankIsMind DEF NoSale, Sales, SalePcs

LEMMA OrderInitially == OrderInit => OrderInv
<1> SUFFICES ASSUME OrderInit PROVE OrderInv OBVIOUS
<1>1. MemoryTypes BY BlankIsMind DEF OrderInit, MemoryInit, MemoryTypes, Silent
<1>2. OrderTypes BY <1>1, BlankIsMind, NoSaleFacts DEF OrderInit, OrderTypes
<1>3. ReviewWasShown BY BlankIsMind, NoSaleFacts DEF OrderInit, MemoryInit, ReviewWasShown
<1>4. NoneForgotten BY BlankIsMind, NoSaleFacts DEF OrderInit, MemoryInit, NoneForgotten
<1>5. OrderIsTraced /\ ReconcilersPosted /\ SentIsOver
  BY NoSaleFacts DEF OrderInit, OrderIsTraced, ReconcilersPosted, SentIsOver
<1>6. QED BY <1>2, <1>3, <1>4, <1>5 DEF OrderInv

\* The turn's mind while it runs.
LEMMA SaleFacts ==
  ASSUME OrderInv
  PROVE  /\ MemoryTypes /\ sale \in Sales
         /\ sale.mind \in Minds /\ sale.mind.some /\ sale.sent \in BOOLEAN /\ sale.pc \in SalePcs
         /\ sale.shows \in [Wares -> Nat] /\ sales \in Int
         /\ basket \in [Wares -> Nat] /\ seen \in [Wares -> Nat]
         /\ placed \in Seq([Wares -> Nat]) /\ \A o \in adrift : o.goods \in [Wares -> Nat]
         /\ told \in Minds /\ richest \in Minds /\ kept \in Minds
         /\ Empty \in [Wares -> Nat]
BY BlankIsMind DEF OrderInv, OrderTypes, MemoryTypes, Sales

\* A mind made of the turn's: the order and the request stay.
Follows(m) ==
  /\ m \in Minds /\ m.some /\ m.context = sale.mind.context
  /\ sale.mind.order # 0 => m.order # 0

\* What the turn makes of its mind: the order and the doubt stay as they are.
LEMMA ReviewChanges ==
  ASSUME OrderInv
  PROVE  /\ Follows(sale.mind) /\ Follows(NotReady(sale.mind))
         /\ NotReady(sale.mind).review = Empty
         /\ NotReady(sale.mind).order = sale.mind.order
         /\ NotReady(sale.mind).ambiguous = sale.mind.ambiguous
         /\ LET m == [sale.mind EXCEPT !.review = basket, !.awaiting = TRUE] IN
              /\ Follows(m) /\ m.review = basket
              /\ m.order = sale.mind.order /\ m.ambiguous = sale.mind.ambiguous
<1> DEFINE a == sale.mind
           c == [a EXCEPT !.review = Empty]
           d == [a EXCEPT !.review = basket]
           Same(x) == x \in Minds /\ x.some /\ x.context = a.context /\ x.order = a.order
                      /\ x.ambiguous = a.ambiguous
<1>1. a \in Minds /\ a.some /\ Empty \in [Wares -> Nat] /\ basket \in [Wares -> Nat] BY SaleFacts
<1>2. NotReady(a) = [c EXCEPT !.awaiting = FALSE]
      /\ [a EXCEPT !.review = basket, !.awaiting = TRUE] = [d EXCEPT !.awaiting = TRUE]
  BY DEF NotReady
<1>3. Same(c) /\ c.review = Empty /\ Same(d) /\ d.review = basket BY <1>1 DEF Minds
<1> HIDE DEF c, d
<1>4. Same([c EXCEPT !.awaiting = FALSE]) /\ [c EXCEPT !.awaiting = FALSE].review = Empty
  BY <1>3 DEF Minds
<1>5. Same([d EXCEPT !.awaiting = TRUE]) /\ [d EXCEPT !.awaiting = TRUE].review = basket
  BY <1>3 DEF Minds
<1>6. QED BY <1>1, <1>2, <1>4, <1>5 DEF Follows

LEMMA PlacedChanges ==
  ASSUME OrderInv, NEW n \in Nat \ {0}
  PROVE  Follows(Placed(sale.mind, n)) /\ Placed(sale.mind, n).order = n
         /\ Placed(sale.mind, n).review = Empty
<1> DEFINE a == sale.mind
           c == [a EXCEPT !.order = n]
           d == [c EXCEPT !.review = Empty]
           e == [d EXCEPT !.awaiting = FALSE]
           Same(x) == x \in Minds /\ x.some /\ x.context = a.context /\ x.order = n
<1>1. a \in Minds /\ a.some /\ Empty \in [Wares -> Nat] BY SaleFacts
<1>2. Placed(a, n) = [e EXCEPT !.ambiguous = FALSE] BY DEF Placed
<1>3. Same(c) BY <1>1 DEF Minds
<1> HIDE DEF c
<1>4. Same(d) /\ d.review = Empty BY <1>1, <1>3 DEF Minds
<1> HIDE DEF d
<1>5. Same(e) /\ e.review = Empty BY <1>4 DEF Minds
<1> HIDE DEF e
<1>6. Same([e EXCEPT !.ambiguous = FALSE]) /\ [e EXCEPT !.ambiguous = FALSE].review = Empty
  BY <1>5 DEF Minds
<1>7. QED BY <1>2, <1>6 DEF Follows

\* A failed attempt that leaves a doubt.
LEMMA FailedChanges ==
  ASSUME OrderInv, NEW doubt \in BOOLEAN
  PROVE  /\ Follows(Failed(sale.mind, doubt)) /\ Failed(sale.mind, doubt).ambiguous = doubt
         /\ Failed(sale.mind, doubt).review = sale.mind.review
<1>1. sale.mind \in Minds /\ sale.mind.some BY SaleFacts
<1>2. QED BY <1>1 DEF Failed, Follows, Minds

\* A turn that has its result, a mind in which the order of the cart is traced.
LEMMA ResultKeeps ==
  ASSUME OrderInv, NEW m, Follows(m), NEW c \in [Wares -> Nat],
         sale.pc # "idle", sale' \in Sales, sale'.pc = "keep", sale'.mind = m, sale'.shows = c,
         sale'.sent = sale.sent,
         UNCHANGED <<told, richest, kept, seen, placed, adrift, sales>>, basket' \in [Wares -> Nat],
         excuses \subseteq excuses',
         m.review \in {Empty, IF c = Empty THEN sale.mind.review ELSE c}, c # Empty \/ sale.shows = Empty,
         excuses = {} /\ placed # <<>> => Traced(m)
  PROVE  OrderInv'
<1>1. OrderTypes' BY DEF OrderInv, OrderTypes, Follows, MemoryTypes
<1>2. ReviewWasShown' BY DEF OrderInv, ReviewWasShown, Shown
<1>3. excuses' = {} => NoneForgotten' BY DEF OrderInv, NoneForgotten, Follows
<1>4. OrderIsTraced' BY DEF OrderInv, OrderIsTraced, Traced, Known
<1>5. ReconcilersPosted' /\ SentIsOver' BY DEF ReconcilersPosted, SentIsOver
<1>6. QED BY <1>1, <1>2, <1>3, <1>4, <1>5 DEF OrderInv

LEMMA EndKeeps ==
  ASSUME OrderInv, NEW m, Follows(m), EndTurn(m), sale.pc \notin {"idle", "keep", "answer"},
         UNCHANGED <<told, richest, seen, placed, adrift, sales>>, basket' \in [Wares -> Nat],
         excuses \subseteq excuses', m.review \in {Empty, sale.mind.review},
         excuses = {} /\ placed # <<>> => Traced(m)
  PROVE  OrderInv'
<1> DEFINE t == [sale EXCEPT !.pc = "keep"]
<1>1. sale' = [t EXCEPT !.mind = m] /\ UNCHANGED kept BY DEF EndTurn
<1>2. "keep" \in SalePcs /\ m \in Minds /\ sale \in Sales /\ Empty \in [Wares -> Nat]
  BY SaleFacts DEF SalePcs, Follows
<1>3. t \in Sales /\ t.pc = "keep" /\ t.shows = sale.shows /\ t.sent = sale.sent
  BY <1>2, SalePc
<1> HIDE DEF t
<1>4. /\ sale' \in Sales /\ sale'.pc = "keep" /\ sale'.mind = m /\ sale'.shows = sale.shows
      /\ sale'.sent = sale.sent
  BY <1>1, <1>2, <1>3, SaleMind
<1>5. sale.shows = Empty BY DEF OrderInv, ReviewWasShown
<1>6. QED BY <1>1, <1>2, <1>4, <1>5, ResultKeeps

LEMMA ShowKeeps ==
  ASSUME OrderInv, Show(sale.mind), sale.pc \notin {"idle", "keep", "answer"},
         UNCHANGED <<told, richest, seen, placed, adrift, sales, basket, excuses>>,
         excuses = {} /\ placed # <<>> => Traced(sale.mind)
  PROVE  OrderInv'
<1> DEFINE m == [sale.mind EXCEPT !.review = basket, !.awaiting = TRUE]
           t == [sale EXCEPT !.pc = "keep"]
           u == [t EXCEPT !.shows = basket]
<1>1. sale' = [u EXCEPT !.mind = m] /\ UNCHANGED kept BY DEF Show
<1>2. /\ Follows(m) /\ m.review = basket
      /\ m.order = sale.mind.order /\ m.ambiguous = sale.mind.ambiguous
  BY ReviewChanges
<1>3. "keep" \in SalePcs /\ m \in Minds /\ sale \in Sales /\ basket \in [Wares -> Nat]
  BY <1>2, SaleFacts DEF SalePcs, Follows
<1> HIDE DEF m
<1>4. t \in Sales /\ t.pc = "keep" /\ t.sent = sale.sent BY <1>3, SalePc
<1> HIDE DEF t
<1>5. u \in Sales /\ u.pc = "keep" /\ u.shows = basket /\ u.sent = sale.sent
  BY <1>3, <1>4, SaleShows
<1> HIDE DEF u
<1>6. /\ sale' \in Sales /\ sale'.pc = "keep" /\ sale'.mind = m /\ sale'.shows = basket
      /\ sale'.sent = sale.sent
  BY <1>1, <1>3, <1>5, SaleMind
<1>7. sale.shows = Empty BY DEF OrderInv, ReviewWasShown
<1>8. m.review \in {Empty, IF basket = Empty THEN sale.mind.review ELSE basket} BY <1>2
<1>9. excuses = {} /\ placed # <<>> => Traced(m) BY <1>2 DEF Traced
<1>10. QED BY <1>1, <1>2, <1>3, <1>6, <1>7, <1>8, <1>9, ResultKeeps

\* A turn that goes on.
LEMMA GoOnKeeps ==
  ASSUME OrderInv, NEW pc \in {"facts", "preflight", "post"}, GoOn(pc),
         sale.pc \in {"yes", "facts", "preflight"},
         UNCHANGED <<told, richest, seen, placed, adrift, basket, sales>>,
         excuses \subseteq excuses',
         sale.mind.review # Empty /\ sale.mind.order = 0,
         pc = "preflight" => sale.mind.ambiguous,
         pc = "post" => placed = <<>> \/ excuses' # {}
  PROVE  OrderInv'
<1>1. sale' = [sale EXCEPT !.pc = pc] /\ UNCHANGED kept BY DEF GoOn
<1>2. sale \in Sales /\ pc \in SalePcs /\ sale.mind \in Minds /\ Empty \in [Wares -> Nat]
  BY SaleFacts DEF SalePcs
<1>3. /\ sale' \in Sales /\ sale'.pc = pc /\ sale'.mind = sale.mind /\ sale'.sent = sale.sent
      /\ sale'.shows = sale.shows
  BY <1>1, <1>2, SalePc
<1>4. OrderTypes' BY <1>1, <1>3 DEF OrderInv, OrderTypes, MemoryTypes
<1>5. ReviewWasShown' BY <1>1, <1>3 DEF OrderInv, ReviewWasShown, Shown
<1>6. excuses' = {} => NoneForgotten' BY <1>1, <1>3 DEF OrderInv, NoneForgotten
<1>7. OrderIsTraced' BY <1>1, <1>3 DEF OrderInv, OrderIsTraced, Traced, Known
<1>8. ReconcilersPosted' /\ SentIsOver' BY <1>3 DEF OrderInv, ReconcilersPosted, SentIsOver
<1>9. QED BY <1>4, <1>5, <1>6, <1>7, <1>8 DEF OrderInv

\* What the invariant says of the mind of a turn that is under way.
LEMMA MindIsTraced ==
  ASSUME OrderInv, sale.pc \notin {"idle", "reconcile", "post"}, excuses = {}, placed # <<>>
  PROVE  Traced(sale.mind)
BY DEF OrderInv, OrderIsTraced

-----------------------------------------------------------------------------
\* Where nothing is to be excused of its start, the turn knows what was known.
LEMMA HeardAll ==
  ASSUME OrderInv, excuses = {}, NEW way \in Ways, NEW m \in Starts(way, sales + 1),
         Doubts(way, m) = {}
  PROVE  /\ m.context = 0 /\ (kept.order # 0 => m.order # 0)
         /\ Known \/ told.ambiguous => Traced(m)
<1>1. way = "both" /\ (told.some \/ ~kept.some) /\ m.context # sales + 1
  BY DEF Doubts, ReadFails, Ways
<1>2. told.context = 0 /\ richest.context = 0 /\ kept.context = 0 /\ MemoryTypes
  BY SaleFacts DEF OrderInv, NoneForgotten
<1>3. /\ Remembered("both").context = 0
      /\ Remembered("both").order # 0 <=> Known
      /\ Remembered("both").ambiguous = told.ambiguous
  BY <1>1, <1>2, BothRemembered DEF Known
<1>4. m = Remembered(way) \/ (MayExpire(Remembered(way)) /\ m = Expired(Remembered(way)))
  <2>1. sales + 1 \in Int BY SaleFacts
  <2>2. QED BY <1>1, <1>2, <2>1, StartsAreMinds
<1>5. CASE m = Remembered(way) BY <1>1, <1>3, <1>5 DEF Traced, Known
<1>6. CASE MayExpire(Remembered(way)) /\ m = Expired(Remembered(way))
  <2>1. ~Known /\ ~told.ambiguous BY <1>1, <1>3, <1>6 DEF MayExpire
  <2>2. Remembered(way) \in Minds BY <1>2, RememberedKeeps
  <2>3. m.context = 0 BY <1>1, <1>3, <1>6, <2>2, ExpiredMind
  <2>4. QED BY <2>1, <2>3 DEF Known
<1>7. QED BY <1>4, <1>5, <1>6

LEMMA HearKeeps ==
  ASSUME OrderInv, NEW pc \in {"change", "review", "yes", "no"}, Hear(pc) PROVE OrderInv'
<1>1. sale.pc = "idle" /\ UNCHANGED <<told, richest, kept, basket, placed, adrift, seen>>
      /\ sales' = sales + 1
  BY DEF Hear, memoryVars, Store
<1>2. PICK way \in Ways : \E m \in Starts(way, sales + 1) :
        /\ sale' = [NoSale EXCEPT !.pc = pc, !.mind = m]
        /\ excuses' = excuses \cup Doubts(way, m)
  BY DEF Hear
<1>3. PICK m \in Starts(way, sales + 1) :
        /\ sale' = [NoSale EXCEPT !.pc = pc, !.mind = m]
        /\ excuses' = excuses \cup Doubts(way, m)
  BY <1>2
<1>4. /\ MemoryTypes /\ sales + 1 \in Int
      /\ m \in Minds /\ m.some
      /\ way \in {"told only", "neither"} \/ (way = "both" /\ (told.some \/ ~kept.some))
           => m.review \in {told.review, Empty}
  <2>1. MemoryTypes /\ sales + 1 \in Int BY SaleFacts
  <2>2. QED BY <2>1, StartsAreMinds
<1>5. sale' \in Sales /\ sale'.pc = pc /\ sale'.mind = m /\ sale'.sent = FALSE /\ sale'.shows = Empty
  <2> DEFINE t == [NoSale EXCEPT !.pc = pc]
  <2>1. pc \in SalePcs BY DEF SalePcs
  <2>2. t \in Sales /\ t.pc = pc /\ t.sent = FALSE /\ t.shows = Empty BY <2>1, NoSaleFacts, SalePc
  <2>3. sale' = [t EXCEPT !.mind = m] BY <1>3
  <2> HIDE DEF t
  <2>4. m \in Minds BY <1>4
  <2>5. QED BY <2>2, <2>3, <2>4, SaleMind
<1>6. OrderTypes' BY <1>1, <1>4, <1>5 DEF OrderInv, OrderTypes, MemoryTypes
<1>7. ReviewWasShown'
  <2>1. "adopted" \notin excuses' => "adopted" \notin excuses /\ m.review \in {told.review, Empty}
    <3>1. "adopted" \notin excuses' => way \notin {"kept first", "kept only"} /\ (told.some \/ ~kept.some)
      BY <1>3 DEF Doubts
    <3>2. QED BY <1>3, <1>4, <3>1 DEF Ways
  <2>2. "adopted" \notin excuses => told.review \in {Empty, seen} BY DEF OrderInv, ReviewWasShown
  <2>3. QED BY <1>1, <1>5, <2>1, <2>2 DEF ReviewWasShown, Shown
<1>8. ASSUME excuses' = {}
      PROVE  /\ excuses = {} /\ m.context = 0 /\ (kept.order # 0 => m.order # 0)
             /\ Known \/ told.ambiguous => Traced(m)
  BY <1>3, <1>8, HeardAll
<1>9. excuses' = {} => NoneForgotten' BY <1>1, <1>5, <1>8 DEF OrderInv, NoneForgotten
<1>10. OrderIsTraced'
  <2>1. ~sale.sent BY <1>1 DEF OrderInv, SentIsOver
  <2>2. QED BY <1>1, <1>5, <1>8, <2>1 DEF OrderInv, OrderIsTraced, Traced, Known
<1>11. ReconcilersPosted' /\ SentIsOver' BY <1>5 DEF ReconcilersPosted, SentIsOver
<1>12. QED BY <1>6, <1>7, <1>9, <1>10, <1>11 DEF OrderInv

\* One piece of one thing.
LEMMA ContentsAreContents == Contents \subseteq [Wares -> Nat]
BY DEF Contents

LEMMA ChangeInChatKeeps ==
  ASSUME OrderInv, NEW c \in Contents, ChangeInChat(c) PROVE OrderInv'
<1> DEFINE m1 == [sale.mind EXCEPT !.cart = 1]
           m2 == [m1 EXCEPT !.link = 1]
           m3 == [m2 EXCEPT !.items = c]
           m4 == [m3 EXCEPT !.review = Empty]
           m5 == [m4 EXCEPT !.awaiting = FALSE]
           Same(x) == x \in Minds /\ x.some /\ x.context = sale.mind.context
                      /\ x.order = sale.mind.order /\ x.ambiguous = sale.mind.ambiguous
<1>1. EndTurn(m5) /\ UNCHANGED <<told, richest, seen, sales, placed, adrift, excuses>>
      /\ basket' = c /\ sale.pc = "change"
  BY DEF ChangeInChat, Rest
<1>2. c \in [Wares -> Nat] /\ Empty \in [Wares -> Nat] BY ContentsAreContents, SaleFacts
<1>3. Same(m1) BY SaleFacts DEF Minds
<1> HIDE DEF m1
<1>4. Same(m2) BY <1>3 DEF Minds
<1> HIDE DEF m2
<1>5. Same(m3) BY <1>2, <1>4 DEF Minds
<1> HIDE DEF m3
<1>6. Same(m4) /\ m4.review = Empty BY <1>2, <1>5 DEF Minds
<1> HIDE DEF m4
<1>7. Same(m5) /\ m5.review = Empty BY <1>6 DEF Minds
<1> HIDE DEF m5
<1>8. excuses = {} /\ placed # <<>> => Traced(m5) BY <1>1, <1>7, MindIsTraced DEF Traced
<1>9. Follows(m5) BY <1>7 DEF Follows
<1>10. QED BY <1>1, <1>2, <1>7, <1>8, <1>9, EndKeeps

LEMMA ChangeOnSiteKeeps ==
  ASSUME OrderInv, NEW c \in Contents, ChangeOnSite(c) PROVE OrderInv'
<1>1. /\ basket' \in [Wares -> Nat]
      /\ UNCHANGED <<told, richest, kept, placed, adrift, sale, seen, sales, excuses>>
  BY ContentsAreContents DEF ChangeOnSite, memoryVars
<1>2. QED BY <1>1 DEF OrderInv, OrderTypes, MemoryTypes, ReviewWasShown, Shown, NoneForgotten,
                      OrderIsTraced, ReconcilersPosted, SentIsOver, Traced, Known

LEMMA ReviewKeeps == OrderInv /\ Review => OrderInv'
<1> SUFFICES ASSUME OrderInv, Review PROVE OrderInv' OBVIOUS
<1>1. sale.pc = "review"
      /\ UNCHANGED <<told, richest, seen, sales, basket, placed, adrift, excuses>>
  BY DEF Review, Rest, Store
<1>2. excuses = {} /\ placed # <<>> => Traced(sale.mind) BY <1>1, MindIsTraced
<1>3. CASE Show(sale.mind) BY <1>1, <1>2, <1>3, ShowKeeps
<1>4. CASE EndTurn(NotReady(sale.mind))
  <2>1. excuses = {} /\ placed # <<>> => Traced(NotReady(sale.mind))
    BY <1>2, ReviewChanges DEF Traced
  <2>2. QED BY <1>1, <1>4, <2>1, ReviewChanges, EndKeeps, SaleFacts
<1>5. QED BY <1>3, <1>4 DEF Review

LEMMA DeclineKeeps == OrderInv /\ Decline => OrderInv'
<1> SUFFICES ASSUME OrderInv, Decline PROVE OrderInv' OBVIOUS
<1>1. PICK m \in {NotReady(sale.mind), sale.mind} : EndTurn(m) BY DEF Decline
<1>2. sale.pc = "no" /\ UNCHANGED <<told, richest, seen, sales, basket, placed, adrift, excuses>>
  BY DEF Decline, Rest, Store
<1>3. Follows(m) /\ m.order = sale.mind.order /\ m.ambiguous = sale.mind.ambiguous
      /\ m.review \in {Empty, sale.mind.review}
  BY <1>1, ReviewChanges
<1>4. excuses = {} /\ placed # <<>> => Traced(m) BY <1>2, <1>3, MindIsTraced DEF Traced
<1>5. QED BY <1>1, <1>2, <1>3, <1>4, EndKeeps, SaleFacts

LEMMA ConfirmKeeps == OrderInv /\ Confirm => OrderInv'
<1> SUFFICES ASSUME OrderInv, Confirm PROVE OrderInv' OBVIOUS
<1>1. sale.pc = "yes" /\ UNCHANGED <<told, richest, seen, sales, basket, placed, adrift, excuses>>
  BY DEF Confirm, Rest, Store
<1>2. CASE sale.mind.review # Empty /\ sale.mind.order = 0 /\ GoOn("facts")
  BY <1>1, <1>2, GoOnKeeps
<1>3. CASE EndTurn(sale.mind)
  BY <1>1, <1>3, MindIsTraced, ReviewChanges, EndKeeps, SaleFacts
<1>4. QED BY <1>2, <1>3 DEF Confirm

LEMMA ReadFactsKeeps == OrderInv /\ ReadFacts => OrderInv'
<1> SUFFICES ASSUME OrderInv, ReadFacts PROVE OrderInv' OBVIOUS
<1>1. sale.pc = "facts"
      /\ UNCHANGED <<told, richest, seen, sales, basket, placed, adrift, excuses>>
  BY DEF ReadFacts, Rest, Store
<1>2. sale.mind.review # Empty /\ sale.mind.order = 0
  BY <1>1 DEF OrderInv, ReviewWasShown
<1>3. excuses = {} /\ placed # <<>> => Traced(sale.mind) /\ sale.mind.ambiguous
  BY <1>1, <1>2, MindIsTraced DEF Traced
<1>4. CASE sale.mind.ambiguous /\ GoOn("preflight") BY <1>1, <1>2, <1>4, GoOnKeeps
<1>5. CASE ~sale.mind.ambiguous /\ GoOn("post") BY <1>1, <1>2, <1>3, <1>5, GoOnKeeps
<1>6. CASE Show(sale.mind) BY <1>1, <1>3, <1>6, ShowKeeps
<1>7. CASE EndTurn(NotReady(sale.mind))
  <2>1. excuses = {} /\ placed # <<>> => Traced(NotReady(sale.mind))
    BY <1>3, ReviewChanges DEF Traced
  <2>2. QED BY <1>1, <1>7, <2>1, ReviewChanges, EndKeeps, SaleFacts
<1>8. QED BY <1>4, <1>5, <1>6, <1>7 DEF ReadFacts

LEMMA LookUpKeeps ==
  ASSUME OrderInv, NEW pc \in {"preflight", "reconcile"}, LookUp(pc) PROVE OrderInv'
<1>1. sale.pc = pc /\ UNCHANGED <<told, richest, seen, sales, basket, placed, adrift>>
  BY DEF LookUp, Rest, Store
<1>2. Follows(Placed(sale.mind, 1)) /\ Traced(Placed(sale.mind, 1))
      /\ Placed(sale.mind, 1).review = Empty
  <2>1. 1 \in Nat \ {0} OBVIOUS
  <2>2. QED BY <2>1, PlacedChanges DEF Traced
<1>3. Follows(Failed(sale.mind, TRUE)) /\ Traced(Failed(sale.mind, TRUE))
      /\ Failed(sale.mind, TRUE).review = sale.mind.review
  BY FailedChanges DEF Traced
<1>4. CASE EndTurn(Placed(sale.mind, 1)) /\ UNCHANGED excuses
  BY <1>1, <1>2, <1>4, EndKeeps, SaleFacts
<1>5. CASE EndTurn(Failed(sale.mind, TRUE)) /\ excuses \subseteq excuses'
  BY <1>1, <1>3, <1>5, EndKeeps, SaleFacts
<1>6. CASE pc = "preflight" /\ GoOn("post") /\ excuses \subseteq excuses'
           /\ (placed = <<>> \/ excuses' # {})
  <2>1. sale.mind.review # Empty /\ sale.mind.order = 0
    BY <1>1, <1>6 DEF OrderInv, ReviewWasShown
  <2>2. QED BY <1>1, <1>6, <2>1, GoOnKeeps
<1>7. QED BY <1>4, <1>5, <1>6 DEF LookUp

LEMMA PostOrderKeeps ==
  ASSUME OrderInv, PostOrder
  PROVE  OrderInv' /\ (placed' = placed \/ placed' = Append(placed, sale.mind.review))
<1> DEFINE m == sale.mind
           n == Len(placed) + 1
           given == adrift' = adrift \cup {[nr |-> shocks, goods |-> m.review]} /\ UNCHANGED placed
<1>1. sale.pc = "post" /\ UNCHANGED <<told, richest, kept, seen, sales, basket>>
  BY DEF PostOrder, Rest
<1>2. excuses = {} => placed = <<>> BY <1>1 DEF OrderInv, OrderIsTraced
<1>3. n \in Nat \ {0} /\ m \in Minds /\ m.some /\ sale \in Sales /\ placed \in Seq([Wares -> Nat])
  BY SaleFacts
<1>4. m.review \in [Wares -> Nat] BY <1>3 DEF Minds
<1>5. Follows(Placed(m, n)) /\ Traced(Placed(m, n)) /\ Placed(m, n).review = Empty
  BY <1>3, PlacedChanges DEF Traced
<1>6. Follows(Failed(m, FALSE)) /\ Failed(m, FALSE).review = m.review BY FailedChanges
<1>7. Follows(m) BY ReviewChanges
<1> DEFINE sent(pc, x) == sale' = [sale EXCEPT !.pc = pc, !.mind = x, !.sent = TRUE]
           made == placed' = Append(placed, m.review) /\ UNCHANGED adrift
<1>8. \/ made /\ UNCHANGED excuses /\ sent("keep", Placed(m, n))
      \/ (made \/ given) /\ UNCHANGED excuses /\ sent("reconcile", m)
      \/ UNCHANGED <<placed, adrift, excuses>> /\ sent("keep", Failed(m, FALSE))
      \/ (made \/ given) /\ excuses' = excuses \cup {"misled"} /\ sent("keep", Failed(m, FALSE))
  BY DEF PostOrder
<1>9. placed' = placed \/ placed' = Append(placed, m.review) BY <1>8
<1>10. \A o \in adrift' : o.goods \in [Wares -> Nat]
  <2>1. [nr |-> shocks, goods |-> m.review].goods = m.review OBVIOUS
  <2>2. \A o \in adrift : o.goods \in [Wares -> Nat] BY SaleFacts
  <2>3. QED BY <1>4, <1>8, <2>1, <2>2
<1>11. PICK x \in {Placed(m, n), m, Failed(m, FALSE)}, pc \in {"keep", "reconcile"} :
         /\ sent(pc, x)
         /\ excuses \subseteq excuses'
         /\ excuses' = {} /\ pc = "keep" => placed' = placed \/ Traced(x)
  BY <1>5, <1>8
<1>12. Follows(x) /\ x.review \in {Empty, m.review} BY <1>5, <1>6, <1>7
<1>13. sale' \in Sales /\ sale'.pc = pc /\ sale'.mind = x /\ sale'.sent = TRUE
       /\ sale'.shows = sale.shows
  <2> DEFINE t == [sale EXCEPT !.pc = pc]
             u == [t EXCEPT !.mind = x]
  <2>1. sale' = [u EXCEPT !.sent = TRUE] BY <1>11
  <2>2. pc \in SalePcs /\ x \in Minds BY <1>12 DEF SalePcs, Follows
  <2>3. t \in Sales /\ t.pc = pc /\ t.shows = sale.shows BY <1>3, <2>2, SalePc
  <2> HIDE DEF t
  <2>4. u \in Sales /\ u.pc = pc /\ u.mind = x /\ u.shows = sale.shows BY <2>2, <2>3, SaleMind
  <2> HIDE DEF u
  <2>5. QED BY <2>1, <2>4, SaleSent
<1>14. OrderTypes'
  <2>1. placed' \in Seq([Wares -> Nat])
    <3> DEFINE C == [Wares -> Nat]
    <3>1. placed \in Seq(C) /\ m.review \in C BY <1>3, <1>4
    <3> HIDE DEF C
    <3>2. placed' \in Seq(C) BY <1>9, <3>1
    <3>3. QED BY <3>2 DEF C
  <2>2. QED BY <1>1, <1>10, <1>12, <1>13, <2>1 DEF OrderInv, OrderTypes, MemoryTypes, Follows
<1>15. ReviewWasShown'
  BY <1>1, <1>11, <1>12, <1>13 DEF OrderInv, ReviewWasShown, Shown
<1>16. excuses' = {} => NoneForgotten'
  BY <1>1, <1>11, <1>12, <1>13 DEF OrderInv, NoneForgotten, Follows
<1>17. OrderIsTraced'
  <2> SUFFICES ASSUME excuses' = {}, placed' # <<>>
               PROVE  Len(placed') = 1 /\ (sale'.pc \notin {"idle", "reconcile"} => Traced(x))
    BY <1>13 DEF OrderIsTraced, Traced
  <2>1. placed = <<>> BY <1>2, <1>11
  <2>2. Len(placed') = 1 BY <1>4, <1>9, <2>1
  <2>3. QED BY <1>11, <1>13, <2>1, <2>2
<1>18. ReconcilersPosted' /\ SentIsOver' BY <1>13 DEF ReconcilersPosted, SentIsOver
<1>19. QED BY <1>9, <1>14, <1>15, <1>16, <1>17, <1>18 DEF OrderInv

\* An order given up is made: that is excused.
LEMMA OrderLandsLateKeeps ==
  ASSUME OrderInv, NEW o \in adrift, OrderLandsLate(o) PROVE OrderInv'
<1>1. /\ adrift' \subseteq adrift /\ placed' = Append(placed, o.goods)
      /\ excuses' = excuses \cup {"late"}
      /\ UNCHANGED <<told, richest, kept, basket, sale, seen, sales>>
  BY DEF OrderLandsLate, memoryVars
<1>2. excuses' # {} /\ ("adopted" \notin excuses' => "adopted" \notin excuses) BY <1>1
<1>3. placed' \in Seq([Wares -> Nat])
  <2> DEFINE C == [Wares -> Nat]
  <2>1. placed \in Seq(C) /\ o.goods \in C BY SaleFacts
  <2> HIDE DEF C
  <2>2. placed' \in Seq(C) BY <1>1, <2>1
  <2>3. QED BY <2>2 DEF C
<1>4. OrderTypes' BY <1>1, <1>3 DEF OrderInv, OrderTypes, MemoryTypes
<1>5. ReviewWasShown' BY <1>1, <1>2 DEF OrderInv, ReviewWasShown, Shown
<1>6. OrderIsTraced' BY <1>2 DEF OrderIsTraced
<1>7. ReconcilersPosted' /\ SentIsOver' BY <1>1 DEF OrderInv, ReconcilersPosted, SentIsOver
<1>8. QED BY <1>2, <1>4, <1>5, <1>6, <1>7 DEF OrderInv

LEMMA KeepTurnKeeps == OrderInv /\ KeepTurn => OrderInv'
<1> SUFFICES ASSUME OrderInv, KeepTurn PROVE OrderInv' OBVIOUS
<1>1. /\ sale.pc = "keep" /\ sale' = [sale EXCEPT !.pc = "answer"]
      /\ Keep(sale.mind) \/ KeepBadly(sale.mind)
      /\ UNCHANGED <<told, richest, basket, placed, adrift, seen, sales, excuses>>
  BY DEF KeepTurn, Store
<1>2. /\ sale' \in Sales /\ sale'.pc = "answer" /\ sale'.mind = sale.mind /\ sale'.sent = sale.sent
      /\ sale'.shows = sale.shows
  BY <1>1, SalePc, SaleFacts DEF SalePcs
<1>3. /\ kept' \in Minds /\ Silent(kept') /\ kept'.cart \in {sale.mind.cart, kept.cart}
      /\ sale.mind.context = 0 /\ kept.context = 0 =>
           /\ kept'.context = 0
           /\ kept'.order # 0 => sale.mind.order # 0 \/ kept.order # 0
           /\ kept.order # 0 /\ sale.mind.order # 0 => kept'.order # 0
  BY <1>1, KeepKeeps, SaleFacts
<1>4. OrderTypes' BY <1>1, <1>2, <1>3 DEF OrderInv, OrderTypes, MemoryTypes
<1>5. ReviewWasShown' BY <1>1, <1>2 DEF OrderInv, ReviewWasShown, Shown
<1>6. excuses' = {} => NoneForgotten' BY <1>1, <1>2, <1>3 DEF OrderInv, NoneForgotten
<1>7. OrderIsTraced'
  <2>1. excuses = {} /\ kept.order # 0 => kept'.order # 0
    BY <1>1, <1>3 DEF OrderInv, NoneForgotten
  <2>2. QED BY <1>1, <1>2, <2>1 DEF OrderInv, OrderIsTraced, Traced, Known
<1>8. ReconcilersPosted' /\ SentIsOver' BY <1>2 DEF ReconcilersPosted, SentIsOver
<1>9. QED BY <1>4, <1>5, <1>6, <1>7, <1>8 DEF OrderInv

LEMMA AnswerKeeps == OrderInv /\ Answer => OrderInv'
<1> SUFFICES ASSUME OrderInv, Answer PROVE OrderInv' OBVIOUS
<1>1. /\ sale.pc = "answer" /\ Tell(sale.mind) /\ sale' = NoSale /\ seen' = Shown(sale)
      /\ UNCHANGED <<kept, basket, placed, adrift, sales, excuses>>
  BY DEF Answer, Store, Shown
<1>2. /\ told' = sale.mind /\ richest' \in {sale.mind, richest}
      /\ Silent(told') /\ Silent(richest')
      /\ richest.order # 0 => richest'.order # 0
  BY <1>1, TellKeeps, SaleFacts
<1>3. OrderTypes'
  <2>1. Shown(sale) \in [Wares -> Nat] BY SaleFacts DEF Shown
  <2>2. MemoryTypes' BY <1>1, <1>2, SaleFacts DEF MemoryTypes
  <2>3. NoSale \in Sales /\ NoSale.mind.some BY NoSaleFacts, BlankIsMind
  <2>4. QED BY <1>1, <2>1, <2>2, <2>3, SaleFacts DEF OrderTypes
<1>4. sale'.pc = "idle" /\ sale'.sent = FALSE /\ sale'.mind = Blank /\ sale'.shows = Empty
  BY <1>1, NoSaleFacts
<1>5. ReviewWasShown'
  <2>1. "adopted" \notin excuses => sale.mind.review \in {Empty, Shown(sale)}
    BY DEF OrderInv, ReviewWasShown
  <2>2. QED BY <1>1, <1>2, <1>4, <2>1, BlankIsMind DEF ReviewWasShown
<1>6. excuses' = {} => NoneForgotten'
  BY <1>1, <1>2, <1>4, BlankIsMind DEF OrderInv, NoneForgotten
<1>7. OrderIsTraced'
  <2>1. excuses = {} /\ placed # <<>> => Traced(sale.mind) BY <1>1, MindIsTraced
  <2>2. QED BY <1>1, <1>2, <1>4, <2>1 DEF OrderInv, OrderIsTraced, Traced, Known
<1>8. ReconcilersPosted' /\ SentIsOver' BY <1>4 DEF ReconcilersPosted, SentIsOver
<1>9. QED BY <1>3, <1>5, <1>6, <1>7, <1>8 DEF OrderInv

LEMMA GoSilentKeeps == OrderInv /\ GoSilent => OrderInv'
<1> SUFFICES ASSUME OrderInv, GoSilent PROVE OrderInv' OBVIOUS
<1>1. /\ sale' = NoSale /\ sales' \in {sales, sales - 1}
      /\ excuses' = IF sale.sent /\ kept.order = 0 THEN excuses \cup {"forgotten"} ELSE excuses
      /\ UNCHANGED <<told, richest, kept, basket, placed, adrift, seen>>
  BY DEF GoSilent, memoryVars, Store
<1>2. excuses \subseteq excuses' /\ ("adopted" \in excuses' => "adopted" \in excuses) BY <1>1
<1>3. sale'.pc = "idle" /\ sale'.sent = FALSE /\ sale'.mind = Blank /\ sale'.shows = Empty
      /\ sale' \in Sales
  BY <1>1, NoSaleFacts
<1>4. sales' \in Int BY <1>1, SaleFacts
<1>5. OrderTypes' BY <1>1, <1>3, <1>4, BlankIsMind DEF OrderInv, OrderTypes, MemoryTypes
<1>6. ReviewWasShown' BY <1>1, <1>2, <1>3, BlankIsMind DEF OrderInv, ReviewWasShown
<1>7. excuses' = {} => NoneForgotten' BY <1>1, <1>2, <1>3, BlankIsMind DEF OrderInv, NoneForgotten
<1>8. OrderIsTraced' BY <1>1, <1>3 DEF OrderInv, OrderIsTraced, Known
<1>9. ReconcilersPosted' /\ SentIsOver' BY <1>3 DEF ReconcilersPosted, SentIsOver
<1>10. QED BY <1>5, <1>6, <1>7, <1>8, <1>9 DEF OrderInv

\* Every step keeps the invariant, and makes an order of nothing but what was
\* last shown, but for the excuses.
LEMMA OrderStep ==
  ASSUME OrderInv, [OrderNext]_orderVars
  PROVE  /\ OrderInv'
         /\ \/ placed' = placed \/ placed' = Append(placed, seen)
            \/ excuses' \cap {"adopted", "late"} # {}
<1>1. ASSUME NEW pc \in {"change", "review", "yes", "no"}, Hear(pc)
      PROVE  OrderInv' /\ placed' = placed
  BY <1>1, HearKeeps DEF Hear, Store
<1>2. ASSUME NEW c \in Contents, ChangeInChat(c) \/ ChangeOnSite(c)
      PROVE  OrderInv' /\ placed' = placed
  BY <1>2, ChangeInChatKeeps, ChangeOnSiteKeeps DEF ChangeInChat, ChangeOnSite
<1>3. CASE Review \/ Decline \/ Confirm \/ ReadFacts
  BY <1>3, ReviewKeeps, DeclineKeeps, ConfirmKeeps, ReadFactsKeeps
     DEF Review, Decline, Confirm, ReadFacts, Store
<1>4. ASSUME NEW pc \in {"preflight", "reconcile"}, LookUp(pc)
      PROVE  OrderInv' /\ placed' = placed
  BY <1>4, LookUpKeeps DEF LookUp, Store
<1>5. CASE PostOrder
  <2>1. OrderInv' /\ (placed' = placed \/ placed' = Append(placed, sale.mind.review))
    BY <1>5, PostOrderKeeps
  <2>2. "adopted" \notin excuses => sale.mind.review = seen
    BY <1>5 DEF PostOrder, OrderInv, ReviewWasShown, Shown
  <2>3. "adopted" \in excuses => excuses' \cap {"adopted", "late"} # {}
    <3>1. excuses \subseteq excuses' BY <1>5 DEF PostOrder
    <3>2. QED BY <3>1
  <2>4. QED BY <2>1, <2>2, <2>3
<1>6. CASE KeepTurn \/ Answer \/ GoSilent
  BY <1>6, KeepTurnKeeps, AnswerKeeps, GoSilentKeeps DEF KeepTurn, Answer, GoSilent, Store
<1>7. ASSUME NEW o \in adrift, OrderLandsLate(o)
      PROVE  OrderInv' /\ excuses' \cap {"adopted", "late"} # {}
  BY <1>7, OrderLandsLateKeeps DEF OrderLandsLate
<1>8. CASE UNCHANGED orderVars
  BY <1>8 DEF orderVars, Store, memoryVars, OrderInv, OrderTypes, MemoryTypes, ReviewWasShown, Shown,
     NoneForgotten, OrderIsTraced, Known, ReconcilersPosted, SentIsOver
<1>9. QED BY <1>1, <1>2, <1>3, <1>4, <1>5, <1>6, <1>7, <1>8 DEF OrderNext

\* Every reachable state satisfies the invariant, for any number of orders and
\* failures.
THEOREM OrderInvariant == OrderSpec => []OrderInv
<1>1. OrderInv /\ [OrderNext]_orderVars => OrderInv' BY OrderStep
<1>2. QED BY <1>1, OrderInitially, PTL DEF OrderSpec

\* What is ordered is what the customer was last shown, unless a turn took its
\* state from the durable session or an order given up was made late.
THEOREM OrdersAreReviewed == OrderSpec => OrderAsReviewed
<1>1. OrderInv /\ [OrderNext]_orderVars
        => [Len(placed') > Len(placed) /\ excuses' \cap {"adopted", "late"} = {}
              => placed'[Len(placed')] = seen]_placed
  <2> SUFFICES ASSUME OrderInv, [OrderNext]_orderVars, Len(placed') > Len(placed),
                      excuses' \cap {"adopted", "late"} = {}
               PROVE  placed'[Len(placed')] = seen
    OBVIOUS
  <2>1. placed' = placed \/ placed' = Append(placed, seen) BY OrderStep
  <2>2. placed \in Seq([Wares -> Nat]) /\ seen \in [Wares -> Nat] BY SaleFacts
  <2>3. QED BY <2>1, <2>2
<1>2. QED BY <1>1, OrderInvariant, PTL DEF OrderSpec, OrderAsReviewed

\* A cart is ordered twice only if the trace of the first order was lost.
THEOREM SecondOrdersHaveCause == OrderSpec => []SecondOrderNeedsCause
<1>1. OrderInv => SecondOrderNeedsCause
  <2> SUFFICES ASSUME OrderInv, Len(placed) > 1, excuses = {} PROVE FALSE
    BY DEF SecondOrderNeedsCause
  <2>1. placed # <<>> OBVIOUS
  <2>2. Len(placed) = 1 BY <2>1 DEF OrderInv, OrderIsTraced
  <2>3. QED BY <2>2
<1>2. QED BY <1>1, OrderInvariant, PTL

-----------------------------------------------------------------------------
(* Carts: whatever call fails, nothing but what was taken out is lost, and *)
(* no second cart is filled.                                               *)

DealPcs == {"idle", "look", "put", "reread", "prepare", "post", "recheck", "verify", "snap", "drop",
            "copy", "compare", "undo", "discard", "keep", "reply"}
Goods == [Wares -> Nat]
Deals == [pc : DealPcs, op : {"add", "set", "remove"}, want : Goods, todo : SUBSET Wares,
          at : SUBSET Wares, goods : Goods, read : Goods, new : Nat, mind : Minds]
CallKinds == {"post", "put", "delete"}

\* How much of one thing some contents hold.
Count(c, w) == IF c = Gone THEN 0 ELSE c[w]

\* Carts and calls are of sessions that were drawn.
StoreTypes ==
  /\ tokens \in 0..MaxTokens /\ carts \in [Token -> Goods]
  /\ \A s \in Token : s > tokens => carts[s] = Gone
  /\ \A c \in afloat : c.s \in Token /\ c.s <= tokens /\ c.call \in CallKinds /\ c.goods \in Goods
MindTypes ==
  /\ MemoryTypes /\ deal \in Deals /\ deal.mind.some /\ deals \in Int
  /\ told.cart <= tokens /\ richest.cart <= tokens /\ kept.cart <= tokens
  /\ deal.mind.cart <= tokens /\ deal.new <= tokens

\* Where the turn is in the cart.
Building == {"copy", "compare", "undo", "discard"}
Over == {"keep", "reply"}
DealSound ==
  /\ deal.pc \notin {"idle", "prepare"} \cup Over => deal.mind.cart # 0
  /\ deal.pc = "look" => deal.at = Wanted(deal.want)
  /\ deal.pc \in {"look", "recheck"} => \E w \in Wares : deal.at = {w}
  /\ deal.pc \in {"snap", "drop"} \cup Building => deal.at # {}
  /\ deal.pc \in Building => deal.new # 0 /\ deal.new # deal.mind.cart
  /\ deal.new # 0 => deal.pc \in Building \cup Over

\* While the new cart is built the old one has all the others, and after that
\* the new.
HasOthers(c, d) == \A w \in Wares : w \notin d.at => Count(c, w) = d.want[w]
OneIsFull ==
  "late" \notin strays =>
    /\ deal.pc \in {"copy", "compare", "undo"} => HasOthers(carts[deal.mind.cart], deal)
    /\ deal.pc = "discard" => HasOthers(carts[deal.new], deal)
    /\ deal.pc \in Over /\ deal.new # 0 =>
         deal.mind.cart # 0 /\ HasOthers(carts[deal.mind.cart], deal)

\* The cart the conversation knows, or is about to remember, is the only one
\* with anything in it, but for one that is being built.
Current == IF deal.pc = "idle" THEN Remembered("both").cart ELSE deal.mind.cart
OthersAreEmpty ==
  strays \subseteq {"several"} =>
    \A s \in Token : Filled(s) => s = Current \/ (s = deal.new /\ deal.pc \in Building)

\* What is about to be posted is not in the cart.
NotTwice ==
  strays \subseteq {"left"} =>
    /\ \A s \in Token : \A w \in Wares : Count(carts[s], w) <= MaxPieces
    /\ \A w \in Wares : deal.want[w] <= MaxPieces
    /\ deal.pc = "prepare" /\ deal.mind.cart # 0 =>
         \A w \in Wanted(deal.want) : Count(carts[deal.mind.cart], w) = 0
    /\ deal.pc = "post" => \A w \in deal.todo : Count(carts[deal.mind.cart], w) = 0
    /\ deal.pc = "recheck" => \A w \in deal.todo \ deal.at : Count(carts[deal.mind.cart], w) = 0
    /\ deal.pc = "copy" => \A w \in deal.todo : Count(carts[deal.new], w) = 0

CartInv == StoreTypes /\ MindTypes /\ DealSound /\ OneIsFull /\ OthersAreEmpty /\ NotTwice

-----------------------------------------------------------------------------
\* What the assumption says in arithmetic.
LEMMA CartBounds ==
  MaxTokens \in Nat /\ MaxPieces \in Nat /\ IsFiniteSet(Wares) /\ Gone \in Goods /\ Empty \in Goods
BY CartAssumption DEF CartAssumption, Gone, Empty, Goods

\* One field of a turn is changed, the others stay.
LEMMA NewPc ==
  ASSUME NEW d \in Deals, NEW v \in DealPcs, NEW e, e = [d EXCEPT !.pc = v]
  PROVE  /\ e \in Deals /\ e.pc = v /\ e.op = d.op /\ e.want = d.want /\ e.todo = d.todo
         /\ e.at = d.at /\ e.goods = d.goods /\ e.read = d.read /\ e.new = d.new /\ e.mind = d.mind
BY DEF Deals

LEMMA NewOp ==
  ASSUME NEW d \in Deals, NEW v \in {"add", "set", "remove"}, NEW e, e = [d EXCEPT !.op = v]
  PROVE  /\ e \in Deals /\ e.pc = d.pc /\ e.op = v /\ e.want = d.want /\ e.todo = d.todo
         /\ e.at = d.at /\ e.goods = d.goods /\ e.read = d.read /\ e.new = d.new /\ e.mind = d.mind
BY DEF Deals

LEMMA NewWant ==
  ASSUME NEW d \in Deals, NEW v \in Goods, NEW e, e = [d EXCEPT !.want = v]
  PROVE  /\ e \in Deals /\ e.pc = d.pc /\ e.op = d.op /\ e.want = v /\ e.todo = d.todo
         /\ e.at = d.at /\ e.goods = d.goods /\ e.read = d.read /\ e.new = d.new /\ e.mind = d.mind
BY DEF Deals

LEMMA NewTodo ==
  ASSUME NEW d \in Deals, NEW v \in SUBSET Wares, NEW e, e = [d EXCEPT !.todo = v]
  PROVE  /\ e \in Deals /\ e.pc = d.pc /\ e.op = d.op /\ e.want = d.want /\ e.todo = v
         /\ e.at = d.at /\ e.goods = d.goods /\ e.read = d.read /\ e.new = d.new /\ e.mind = d.mind
BY DEF Deals

LEMMA NewAt ==
  ASSUME NEW d \in Deals, NEW v \in SUBSET Wares, NEW e, e = [d EXCEPT !.at = v]
  PROVE  /\ e \in Deals /\ e.pc = d.pc /\ e.op = d.op /\ e.want = d.want /\ e.todo = d.todo
         /\ e.at = v /\ e.goods = d.goods /\ e.read = d.read /\ e.new = d.new /\ e.mind = d.mind
BY DEF Deals

LEMMA NewGoods ==
  ASSUME NEW d \in Deals, NEW v \in Goods, NEW e, e = [d EXCEPT !.goods = v]
  PROVE  /\ e \in Deals /\ e.pc = d.pc /\ e.op = d.op /\ e.want = d.want /\ e.todo = d.todo
         /\ e.at = d.at /\ e.goods = v /\ e.read = d.read /\ e.new = d.new /\ e.mind = d.mind
BY DEF Deals

LEMMA NewRead ==
  ASSUME NEW d \in Deals, NEW v \in Goods, NEW e, e = [d EXCEPT !.read = v]
  PROVE  /\ e \in Deals /\ e.pc = d.pc /\ e.op = d.op /\ e.want = d.want /\ e.todo = d.todo
         /\ e.at = d.at /\ e.goods = d.goods /\ e.read = v /\ e.new = d.new /\ e.mind = d.mind
BY DEF Deals

LEMMA NewNew ==
  ASSUME NEW d \in Deals, NEW v \in Nat, NEW e, e = [d EXCEPT !.new = v]
  PROVE  /\ e \in Deals /\ e.pc = d.pc /\ e.op = d.op /\ e.want = d.want /\ e.todo = d.todo
         /\ e.at = d.at /\ e.goods = d.goods /\ e.read = d.read /\ e.new = v /\ e.mind = d.mind
BY DEF Deals

LEMMA NewMind ==
  ASSUME NEW d \in Deals, NEW v \in Minds, NEW e, e = [d EXCEPT !.mind = v]
  PROVE  /\ e \in Deals /\ e.pc = d.pc /\ e.op = d.op /\ e.want = d.want /\ e.todo = d.todo
         /\ e.at = d.at /\ e.goods = d.goods /\ e.read = d.read /\ e.new = d.new /\ e.mind = v
BY DEF Deals

LEMMA NoDealType == NoDeal \in Deals /\ Blank \in Minds
<1>1. Blank \in Minds BY CartBounds DEF Blank, Minds, Goods
<1>2. QED BY <1>1, CartBounds DEF NoDeal, Deals, DealPcs

-----------------------------------------------------------------------------
\* The carts after a call.
LEMMA HeldIsCount == \A s \in Token : \A w : Held(s, w) = Count(carts[s], w)
BY DEF Held, Count

LEMMA CountIsNat ==
  ASSUME NEW c \in Goods, NEW w \in Wares PROVE Count(c, w) \in Nat
BY DEF Count, Goods

LEMMA GoneHoldsNothing ==
  ASSUME NEW w PROVE Count(Gone, w) = 0
BY DEF Count

LEMMA AfterCounts ==
  ASSUME NEW c \in Goods, NEW g \in Goods, NEW v \in Wares
  PROVE  /\ Count(After(c, "post", g), v) <= Count(c, v) + g[v]
         /\ Count(After(c, "put", g), v) <= Count(c, v) \/ Count(After(c, "put", g), v) <= g[v]
         /\ After(c, "delete", g) = Gone
<1>1. c[v] \in Nat /\ g[v] \in Nat BY DEF Goods
<1>2. Count(After(c, "post", g), v) <= Count(c, v) + g[v]
  <2> DEFINE x == After(c, "post", g)
  <2>1. x = [u \in Wares |-> (IF c = Gone THEN 0 ELSE c[u]) + g[u]] BY DEF After
  <2>2. x[v] = (IF c = Gone THEN 0 ELSE c[v]) + g[v] BY <2>1
  <2> HIDE DEF x
  <2>3. QED BY <1>1, <2>2 DEF Count, x
<1>3. Count(After(c, "put", g), v) <= Count(c, v) \/ Count(After(c, "put", g), v) <= g[v]
  <2> DEFINE x == After(c, "put", g)
  <2>1. x = [u \in Wares |-> IF c # Gone /\ g[u] > 0 /\ c[u] > 0 THEN g[u] ELSE c[u]] BY DEF After
  <2>2. x[v] = (IF c # Gone /\ g[v] > 0 /\ c[v] > 0 THEN g[v] ELSE c[v]) BY <2>1
  <2>3. c = Gone => x = Gone
    <3> SUFFICES ASSUME c = Gone PROVE x = Gone OBVIOUS
    <3>1. x = [u \in Wares |-> Gone[u]] BY <2>1
    <3>2. QED BY <3>1 DEF Gone
  <2> HIDE DEF x
  <2>4. QED BY <1>1, <2>2, <2>3 DEF Count, x
<1>4. QED BY <1>2, <1>3 DEF After

LEMMA AfterGoods ==
  ASSUME NEW c \in Goods, NEW g \in Goods, NEW kind \in CallKinds
  PROVE  After(c, kind, g) \in Goods
<1>1. \A u \in Wares : c[u] \in Nat /\ g[u] \in Nat BY DEF Goods
<1>2. CASE kind = "post"
  <2>1. After(c, kind, g) = [u \in Wares |-> (IF c = Gone THEN 0 ELSE c[u]) + g[u]]
    BY <1>2 DEF After
  <2>2. QED BY <1>1, <2>1 DEF Goods
<1>3. CASE kind = "put"
  <2>1. After(c, kind, g)
          = [u \in Wares |-> IF c # Gone /\ g[u] > 0 /\ c[u] > 0 THEN g[u] ELSE c[u]]
    BY <1>3 DEF After
  <2>2. QED BY <1>1, <2>1 DEF Goods
<1>4. CASE kind = "delete" BY <1>4, CartBounds DEF After
<1>5. QED BY <1>2, <1>3, <1>4 DEF CallKinds

\* A call touches one cart, now or when it lands.
LEMMA ChangeLeaves ==
  ASSUME StoreTypes, NEW s \in Token, s <= tokens, NEW kind \in CallKinds, NEW g \in Goods,
         Change(s, kind, g)
  PROVE  /\ carts' \in [Token -> Goods] /\ carts'[s] = After(carts[s], kind, g)
         /\ \A t \in Token \ {s} : carts'[t] = carts[t]
         /\ \A t \in Token : t > tokens => carts'[t] = Gone
<1> DEFINE x == After(carts[s], kind, g)
<1>1. carts \in [Token -> Goods] BY DEF StoreTypes
<1>2. x \in Goods BY <1>1, AfterGoods
<1>3. carts' = [carts EXCEPT ![s] = x] BY <1>1 DEF Change
<1> HIDE DEF x
<1>4. carts' \in [Token -> Goods] /\ carts'[s] = x /\ \A t \in Token \ {s} : carts'[t] = carts[t]
  BY <1>1, <1>2, <1>3
<1>5. \A t \in Token : t > tokens => carts'[t] = Gone
  <2>1. \A t \in Token : t > tokens => t # s /\ carts[t] = Gone
    BY CartBounds DEF StoreTypes, Token
  <2>2. QED BY <1>4, <2>1
<1>6. QED BY <1>4, <1>5 DEF x

LEMMA UnsureLeaves ==
  ASSUME StoreTypes, NEW s \in Token, s <= tokens, NEW kind \in CallKinds, NEW g \in Goods,
         Unsure(s, kind, g), UNCHANGED tokens
  PROVE  /\ StoreTypes'
         /\ \A t \in Token \ {s} : carts'[t] = carts[t]
         /\ carts'[s] \in {carts[s], After(carts[s], kind, g)}
         /\ Done(s, kind, g) => carts'[s] = After(carts[s], kind, g)
<1>1. CASE Done(s, kind, g)
  <2>1. Change(s, kind, g) /\ UNCHANGED afloat BY <1>1 DEF Done
  <2>2. /\ carts' \in [Token -> Goods] /\ carts'[s] = After(carts[s], kind, g)
        /\ \A t \in Token \ {s} : carts'[t] = carts[t]
        /\ \A t \in Token : t > tokens => carts'[t] = Gone
    BY <2>1, ChangeLeaves
  <2>3. StoreTypes' BY <2>1, <2>2 DEF StoreTypes
  <2>4. QED BY <2>2, <2>3
<1>2. CASE ~Done(s, kind, g) /\ Given(s, kind, g)
  <2> DEFINE c == [nr |-> slips, s |-> s, call |-> kind, goods |-> g]
  <2>1. afloat' = afloat \cup {c} /\ UNCHANGED carts BY <1>2 DEF Given
  <2>2. c.s = s /\ c.call = kind /\ c.goods = g OBVIOUS
  <2> HIDE DEF c
  <2>3. StoreTypes' BY <2>1, <2>2 DEF StoreTypes
  <2>4. QED BY <1>2, <2>1, <2>3
<1>3. QED BY <1>1, <1>2 DEF Unsure

\* What a reading may be.
LEMMA ReadingsAreGoods ==
  ASSUME StoreTypes, NEW s \in Token, NEW c \in Readings(s) PROVE c \in Goods
<1> DEFINE full == IF carts[s] = Gone THEN Empty ELSE carts[s]
<1>1. carts[s] \in Goods /\ full \in Goods BY CartBounds DEF StoreTypes
<1>2. c \in {carts[s], Gone} \cup {[full EXCEPT ![w] = n] : w \in Wares, n \in 0..MaxPieces}
  BY DEF Readings
<1> HIDE DEF full
<1>3. ASSUME NEW w \in Wares, NEW n \in 0..MaxPieces PROVE [full EXCEPT ![w] = n] \in Goods
  BY <1>1, CartBounds DEF Goods
<1>4. QED BY <1>1, <1>2, <1>3, CartBounds

\* One thing of what is wanted.
LEMMA OnlyOne ==
  ASSUME deal.want \in Goods, NEW w \in Wares
  PROVE  /\ Only(w) \in Goods /\ Only(w)[w] = deal.want[w]
         /\ \A v \in Wares : v # w => Only(w)[v] = 0
BY DEF Only, Goods

-----------------------------------------------------------------------------
LEMMA NoDealFacts ==
  /\ NoDeal \in Deals /\ NoDeal.mind = Blank /\ NoDeal.new = 0 /\ NoDeal.pc = "idle"
  /\ NoDeal.want = Empty /\ Blank.cart = 0 /\ Blank.some
  /\ \A w \in Wares : NoDeal.want[w] <= MaxPieces
<1>1. \A w \in Wares : Empty[w] <= MaxPieces BY CartBounds DEF Empty
<1>2. QED BY <1>1, NoDealType, BlankIsMind DEF NoDeal

LEMMA CartInitially == CartInit => CartInv
<1> SUFFICES ASSUME CartInit PROVE CartInv OBVIOUS
<1>1. /\ told = Nothing /\ richest = Nothing /\ kept = Nothing /\ deal = NoDeal /\ tokens = 0
      /\ carts = [s \in Token |-> Gone] /\ afloat = {} /\ deals = 0
  BY DEF CartInit, MemoryInit
<1>2. StoreTypes BY <1>1, CartBounds DEF StoreTypes
<1>3. MindTypes BY <1>1, BlankIsMind, NoDealFacts DEF MindTypes, MemoryTypes, Silent
<1>4. DealSound /\ OneIsFull BY <1>1, NoDealFacts DEF DealSound, OneIsFull, Building, Over
<1>5. OthersAreEmpty BY <1>1 DEF OthersAreEmpty, Filled
<1>6. NotTwice
  <2>1. \A s \in Token : \A w \in Wares : Count(carts[s], w) <= MaxPieces
    BY <1>1, GoneHoldsNothing, CartBounds
  <2>2. QED BY <1>1, <2>1, NoDealFacts DEF NotTwice
<1>7. QED BY <1>2, <1>3, <1>4, <1>5, <1>6 DEF CartInv

\* What the turn works on.
LEMMA DealFacts ==
  ASSUME CartInv
  PROVE  /\ deal \in Deals /\ deal.mind \in Minds /\ deal.mind.some
         /\ deal.mind.cart \in Nat /\ deal.new \in Nat
         /\ deal.want \in Goods /\ deal.todo \in SUBSET Wares /\ deal.at \in SUBSET Wares
         /\ deal.goods \in Goods /\ deal.read \in Goods /\ deal.mind.items \in Goods
         /\ deal.mind.link \in Nat
         /\ tokens \in Nat /\ tokens <= MaxTokens /\ MaxTokens \in Nat
         /\ carts \in [Token -> Goods]
         /\ \A s \in Nat \ {0} : s <= tokens => s \in Token
         /\ deal.mind.cart <= tokens /\ deal.new <= tokens
         /\ told.cart \in Nat /\ richest.cart \in Nat /\ kept.cart \in Nat
         /\ told.cart <= tokens /\ richest.cart <= tokens /\ kept.cart <= tokens
<1>1. deal \in Deals /\ carts \in [Token -> Goods] /\ deal.mind.some
      /\ deal.mind.cart <= tokens /\ deal.new <= tokens
      /\ told.cart <= tokens /\ richest.cart <= tokens /\ kept.cart <= tokens
  BY DEF CartInv, MindTypes, StoreTypes
<1>2. tokens \in Nat /\ tokens <= MaxTokens /\ MaxTokens \in Nat
  BY CartBounds DEF CartInv, StoreTypes
<1>3. \A s \in Nat \ {0} : s <= tokens => s \in Token BY <1>2 DEF Token
<1>4. deal.mind \in Minds /\ deal.new \in Nat /\ deal.want \in Goods
      /\ deal.todo \in SUBSET Wares /\ deal.at \in SUBSET Wares
      /\ deal.goods \in Goods /\ deal.read \in Goods
  BY <1>1 DEF Deals
<1>5. deal.mind.cart \in Nat /\ deal.mind.items \in Goods /\ deal.mind.link \in Nat
  BY <1>4 DEF Minds, Goods
<1>6. told.cart \in Nat /\ richest.cart \in Nat /\ kept.cart \in Nat
  BY DEF CartInv, MindTypes, MemoryTypes, Minds
<1>7. QED BY <1>1, <1>2, <1>3, <1>4, <1>5, <1>6

\* The cart of the turn.
LEMMA MineFacts ==
  ASSUME CartInv, deal.mind.cart # 0
  PROVE  /\ deal.mind.cart \in Token /\ Mine = carts[deal.mind.cart] /\ Mine \in Goods
         /\ \A w \in Wares : Held(deal.mind.cart, w) = Count(Mine, w)
BY DealFacts, HeldIsCount DEF Mine

\* What a turn may read of it.
LEMMA ReadFactsOf ==
  ASSUME CartInv, NEW s \in Token, NEW c \in Readings(s), NEW cause, Reads(s, c, cause)
  PROVE  c \in Goods /\ strays \subseteq strays' /\ (c = carts[s] \/ cause \subseteq strays')
<1>1. c \in Goods BY ReadingsAreGoods DEF CartInv
<1>2. QED BY <1>1 DEF Reads, Answered, Fail

\* The memory is as it was, and what is drawn only grows.
LEMMA MindTypesStay ==
  ASSUME CartInv, deal' \in Deals, deal'.mind.some, UNCHANGED <<told, richest, kept, deals>>,
         tokens' \in tokens..MaxTokens, deal'.mind.cart <= tokens', deal'.new <= tokens'
  PROVE  MindTypes'
<1>1. told.cart <= tokens' /\ richest.cart <= tokens' /\ kept.cart <= tokens' BY DealFacts
<1>2. MemoryTypes' BY DEF CartInv, MindTypes, MemoryTypes
<1>3. QED BY <1>1, <1>2 DEF CartInv, MindTypes

\* A turn that has its result.
LEMMA ConcludeKeeps ==
  ASSUME CartInv, NEW m \in Minds, m.some, deal' = [deal EXCEPT !.pc = "keep", !.mind = m],
         UNCHANGED <<told, richest, kept, deals>>,
         tokens' \in tokens..MaxTokens, m.cart <= tokens', StoreTypes', strays \subseteq strays',
         "late" \notin strays' /\ deal.new # 0 => m.cart # 0 /\ HasOthers(carts'[m.cart], deal),
         strays' \subseteq {"several"} =>
           \A s \in Token : carts'[s] \notin {Gone, Empty} => s = m.cart,
         strays' \subseteq {"left"} =>
           \A s \in Token : \A w \in Wares : Count(carts'[s], w) <= MaxPieces
  PROVE  CartInv'
<1>1. /\ deal' \in Deals /\ deal'.pc = "keep" /\ deal'.mind = m /\ deal'.new = deal.new
      /\ deal'.want = deal.want /\ deal'.at = deal.at
  <2> DEFINE d == [deal EXCEPT !.pc = "keep"]
  <2>1. "keep" \in DealPcs BY DEF DealPcs
  <2>2. d \in Deals /\ d.new = deal.new /\ d.want = deal.want /\ d.at = deal.at /\ d.pc = "keep"
    BY <2>1, DealFacts, NewPc
  <2> DEFINE e == [d EXCEPT !.mind = m]
  <2>3. deal' = e OBVIOUS
  <2> HIDE DEF d
  <2>4. e \in Deals /\ e.pc = d.pc /\ e.mind = m /\ e.new = d.new /\ e.want = d.want /\ e.at = d.at
    BY <2>2, NewMind
  <2> HIDE DEF e
  <2>5. QED BY <2>2, <2>3, <2>4
<1>2. MindTypes'
  <2>1. deal.new <= tokens' BY DealFacts
  <2>2. QED BY <1>1, <2>1, MindTypesStay
<1>3. DealSound' BY <1>1 DEF DealSound, Building, Over
<1>4. OneIsFull' BY <1>1 DEF OneIsFull, HasOthers, Over
<1>5. OthersAreEmpty' BY <1>1 DEF OthersAreEmpty, Filled, Current
<1>6. NotTwice' BY <1>1 DEF CartInv, NotTwice
<1>7. QED BY <1>2, <1>3, <1>4, <1>5, <1>6 DEF CartInv

\* And that left the carts alone: it goes by the cart it had, or lost it.
LEMMA ConcludedKeeps ==
  ASSUME CartInv, NEW m \in Minds, m.some, Concluded(m), UNCHANGED <<told, richest, deals>>,
         strays \subseteq strays', deal.pc \notin Building \cup {"idle"} \cup Over,
         \/ m.cart = deal.mind.cart
         \/ m.cart = 0 /\ (strays' \subseteq {"several"} => carts[deal.mind.cart] = Gone)
  PROVE  CartInv'
<1>1. deal' = [deal EXCEPT !.pc = "keep", !.mind = m] /\ UNCHANGED <<kept, tokens, carts, afloat>>
  BY DEF Concluded, Conclude, Spare, storeVars
<1>2. deal.new = 0 BY DEF CartInv, DealSound
<1>3. tokens' \in tokens..MaxTokens /\ m.cart <= tokens' BY <1>1, DealFacts
<1>4. StoreTypes' BY <1>1 DEF CartInv, StoreTypes
<1>5. strays' \subseteq {"several"} =>
        \A s \in Token : carts[s] \notin {Gone, Empty} => s = m.cart
  BY DEF CartInv, OthersAreEmpty, Filled, Current
<1>6. strays' \subseteq {"left"} => \A s \in Token : \A w \in Wares : Count(carts[s], w) <= MaxPieces
  BY DEF CartInv, NotTwice
<1>7. QED BY <1>1, <1>2, <1>3, <1>4, <1>5, <1>6, ConcludeKeeps

\* What becomes of the turn's mind: the cart stays, or is given up.
LEMMA MindChanges ==
  ASSUME NEW m \in Minds, m.some
  PROVE  /\ Lost(m) \in Minds /\ Lost(m).some /\ Lost(m).cart = 0
         /\ \A c \in Goods : /\ [m EXCEPT !.items = c] \in Minds /\ [m EXCEPT !.items = c].some
                             /\ [m EXCEPT !.items = c].cart = m.cart
         /\ \A n \in Nat : /\ [m EXCEPT !.link = n] \in Minds /\ [m EXCEPT !.link = n].some
                           /\ [m EXCEPT !.link = n].cart = m.cart
                           /\ [m EXCEPT !.cart = n] \in Minds /\ [m EXCEPT !.cart = n].some
                           /\ [m EXCEPT !.cart = n].cart = n
<1>1. \A c \in Goods : /\ [m EXCEPT !.items = c] \in Minds /\ [m EXCEPT !.items = c].some
                       /\ [m EXCEPT !.items = c].cart = m.cart
  BY DEF Minds, Goods
<1>2. \A n \in Nat : /\ [m EXCEPT !.link = n] \in Minds /\ [m EXCEPT !.link = n].some
                     /\ [m EXCEPT !.link = n].cart = m.cart
                     /\ [m EXCEPT !.cart = n] \in Minds /\ [m EXCEPT !.cart = n].some
                     /\ [m EXCEPT !.cart = n].cart = n
  BY DEF Minds
<1>3. Lost(m) \in Minds /\ Lost(m).some /\ Lost(m).cart = 0
  <2> DEFINE a == [m EXCEPT !.cart = 0]
             b == [a EXCEPT !.link = 0]
  <2>1. Lost(m) = [b EXCEPT !.items = Empty] BY DEF Lost
  <2>2. a \in Minds /\ a.some /\ a.cart = 0 BY DEF Minds
  <2> HIDE DEF a
  <2>3. b \in Minds /\ b.some /\ b.cart = 0 BY <2>2 DEF Minds
  <2> HIDE DEF b
  <2>4. QED BY <2>1, <2>3, CartBounds DEF Minds, Goods
<1>4. QED BY <1>1, <1>2, <1>3

\* A mind that has cart n with contents c, which nobody reviewed.
Fresh(m, n, c) == [m EXCEPT !.cart = n, !.items = c, !.awaiting = FALSE, !.review = Empty]

LEMMA Unreviewed ==
  ASSUME NEW m \in Minds, m.some, NEW n \in Nat, NEW c \in Goods
  PROVE  Fresh(m, n, c) \in Minds /\ Fresh(m, n, c).some /\ Fresh(m, n, c).cart = n
<1> DEFINE a == [m EXCEPT !.cart = n]
           b == [a EXCEPT !.items = c]
           d == [b EXCEPT !.awaiting = FALSE]
<1>1. Fresh(m, n, c) = [d EXCEPT !.review = Empty] BY DEF Fresh
<1>2. a \in Minds /\ a.some /\ a.cart = n BY DEF Minds
<1> HIDE DEF a
<1>3. b \in Minds /\ b.some /\ b.cart = n BY <1>2 DEF Minds, Goods
<1> HIDE DEF b
<1>4. d \in Minds /\ d.some /\ d.cart = n BY <1>3 DEF Minds
<1> HIDE DEF d
<1>5. QED BY <1>1, <1>4, BlankIsMind DEF Minds

LEMMA AsReadKeeps ==
  ASSUME CartInv, NEW c \in Goods
  PROVE  /\ AsRead(deal.mind, c) \in Minds /\ AsRead(deal.mind, c).some
         /\ AsRead(deal.mind, c).cart = deal.mind.cart
<1> DEFINE a == [deal.mind EXCEPT !.link = deal.mind.cart]
<1>1. a \in Minds /\ a.some /\ a.cart = deal.mind.cart BY DealFacts, MindChanges
<1>2. AsRead(deal.mind, c) = [a EXCEPT !.items = c] BY DEF AsRead
<1> HIDE DEF a
<1>3. QED BY <1>1, <1>2, MindChanges

\* A turn that goes on, with the carts as they were.
LEMMA GoOnWithCarts ==
  ASSUME CartInv, deal' \in Deals, deal'.mind.some,
         UNCHANGED <<told, richest, kept, tokens, carts, afloat, deals>>, strays \subseteq strays',
         deal.pc # "idle", deal'.pc # "idle", deal'.new = deal.new, deal'.want = deal.want,
         \/ deal'.mind.cart = deal.mind.cart
         \/ deal'.mind.cart = 0 /\ (strays' \subseteq {"several"} => carts[deal.mind.cart] = Gone),
         deal.pc \notin Building, deal.new = 0, DealSound', deal'.pc \notin Building,
         strays' \subseteq {"left"} /\ deal'.mind.cart # 0 =>
           /\ deal'.pc = "prepare" => \A w \in Wanted(deal.want) : Count(Mine, w) = 0
           /\ deal'.pc = "post" => \A w \in deal'.todo : Count(Mine, w) = 0
           /\ deal'.pc = "recheck" => \A w \in deal'.todo \ deal'.at : Count(Mine, w) = 0
  PROVE  CartInv'
<1>1. StoreTypes' BY DEF CartInv, StoreTypes
<1>2. MindTypes'
  <2>1. tokens' \in tokens..MaxTokens /\ deal'.mind.cart <= tokens' /\ deal'.new <= tokens'
    BY DealFacts
  <2>2. QED BY <2>1, MindTypesStay
<1>3. OneIsFull' BY DEF OneIsFull, Building
<1>4. OthersAreEmpty' BY DEF CartInv, OthersAreEmpty, Filled, Current
<1>5. NotTwice'
  <2>1. strays' \subseteq {"left"} => strays \subseteq {"left"} OBVIOUS
  <2>2. deal'.pc \in {"post", "recheck"} => deal'.mind.cart # 0 BY DEF DealSound, Over
  <2>3. deal'.pc # "copy" BY DEF Building
  <2>4. deal'.mind.cart # 0 => Mine = carts'[deal'.mind.cart]
    <3>1. 0 \notin Token BY DEF Token
    <3>2. deal'.mind.cart # 0 => deal'.mind.cart = deal.mind.cart OBVIOUS
    <3>3. QED BY <3>2 DEF Mine
  <2>5. QED BY <2>1, <2>2, <2>3, <2>4 DEF CartInv, NotTwice
<1>6. QED BY <1>1, <1>2, <1>3, <1>4, <1>5 DEF CartInv

LEMMA LookInCartKeeps ==
  ASSUME CartInv, NEW w \in Wares, LookInCart(w) PROVE CartInv'
<1> DEFINE k == deal.mind.cart
<1>1. deal.pc = "look" /\ w \in deal.at /\ UNCHANGED <<told, richest, deals>>
  BY DEF LookInCart, Still
<1>2. k # 0 /\ deal.at = Wanted(deal.want) /\ deal.at = {w} /\ deal.new = 0
  BY <1>1 DEF CartInv, DealSound, Building, Over
<1>3. k \in Token /\ Mine = carts[k] /\ Mine \in Goods BY <1>2, MineFacts
<1>4. deal \in Deals /\ deal.mind \in Minds /\ deal.mind.some BY DealFacts
<1>5. Lost(deal.mind) \in Minds /\ Lost(deal.mind).some /\ Lost(deal.mind).cart = 0
  BY <1>4, MindChanges
<1>6. deal.pc \notin Building \cup {"idle"} \cup Over BY <1>1 DEF Building, Over
<1>7. CASE Slip /\ Concluded(deal.mind)
  BY <1>1, <1>4, <1>6, <1>7, ConcludedKeeps DEF Slip, Fail
<1>8. ASSUME NEW c \in Readings(k), Reads(k, c, {"late"}),
             \/ c = Gone /\ deal' = [deal EXCEPT !.pc = "prepare", !.mind = Lost(@)] /\ Spare /\ Onward
             \/ c = Gone /\ Concluded(Lost(deal.mind))
             \/ Concluded(AsRead(deal.mind, c))
             \/ c # Gone /\ On("put") /\ Spare /\ Onward
             \/ c # Gone /\ c[w] = 0 /\ On("prepare") /\ Spare /\ Onward
             \/ Concluded(deal.mind)
      PROVE  CartInv'
  <2>1. c \in Goods /\ strays \subseteq strays' /\ (c = carts[k] \/ "late" \in strays')
    BY <1>3, <1>8, ReadFactsOf
  <2>2. CASE c = Gone /\ deal' = [deal EXCEPT !.pc = "prepare", !.mind = Lost(@)] /\ Spare /\ Onward
    <3> DEFINE d == [deal EXCEPT !.pc = "prepare"]
    <3>1. d \in Deals /\ d.pc = "prepare" /\ d.new = deal.new /\ d.want = deal.want
          /\ d.mind = deal.mind
      BY <1>4, NewPc DEF DealPcs
    <3>2. deal' = [d EXCEPT !.mind = Lost(deal.mind)] BY <2>2
    <3> HIDE DEF d
    <3>3. deal' \in Deals /\ deal'.pc = "prepare" /\ deal'.new = deal.new /\ deal'.want = deal.want
          /\ deal'.mind.cart = 0 /\ deal'.mind.some
      BY <1>5, <3>1, <3>2, NewMind
    <3>4. DealSound' BY <1>2, <3>3 DEF DealSound, Building, Over
    <3>5. deal'.pc \notin Building BY <3>3 DEF Building
    <3>6. UNCHANGED <<kept, tokens, carts, afloat>> BY <2>2 DEF Spare, Onward, storeVars
    <3>7. strays' \subseteq {"several"} => carts[k] = Gone BY <2>1, <2>2
    <3>8. QED BY <1>1, <1>2, <1>6, <2>1, <3>3, <3>4, <3>5, <3>6, <3>7, GoOnWithCarts
  <2>3. CASE c = Gone /\ Concluded(Lost(deal.mind))
    <3>1. strays' \subseteq {"several"} => carts[k] = Gone BY <2>1, <2>3
    <3>2. QED BY <1>1, <1>5, <1>6, <2>1, <2>3, <3>1, ConcludedKeeps
  <2>4. CASE Concluded(AsRead(deal.mind, c))
    BY <1>1, <1>6, <2>1, <2>4, AsReadKeeps, ConcludedKeeps
  <2>5. ASSUME NEW pc \in {"put", "prepare"}, On(pc), Spare, Onward, c # Gone,
               pc = "prepare" => c[w] = 0
        PROVE CartInv'
    <3>1. /\ deal' \in Deals /\ deal'.pc = pc /\ deal'.new = deal.new /\ deal'.want = deal.want
          /\ deal'.mind = deal.mind /\ deal'.at = deal.at
      BY <1>4, <2>5, NewPc DEF On, DealPcs
    <3>2. DealSound' BY <1>2, <3>1 DEF DealSound, Building, Over
    <3>3. deal'.pc \notin Building /\ deal'.pc # "idle" /\ deal'.pc \notin {"post", "recheck"}
      BY <3>1 DEF Building
    <3>4. strays' \subseteq {"left"} /\ pc = "prepare" => \A v \in Wanted(deal.want) : Count(Mine, v) = 0
      <4>1. strays' \subseteq {"left"} => Mine = c BY <1>3, <2>1
      <4>2. QED BY <1>2, <2>5, <4>1 DEF Count
    <3>5. UNCHANGED <<kept, tokens, carts, afloat>> BY <2>5 DEF Spare, Onward, storeVars
    <3>6. QED BY <1>1, <1>2, <1>4, <1>6, <2>1, <3>1, <3>2, <3>3, <3>4, <3>5, GoOnWithCarts
  <2>6. CASE Concluded(deal.mind) BY <1>1, <1>4, <1>6, <2>1, <2>6, ConcludedKeeps
  <2>7. "put" \in {"put", "prepare"} /\ "prepare" \in {"put", "prepare"} /\ "put" # "prepare" OBVIOUS
  <2>8. QED BY <1>8, <2>2, <2>3, <2>4, <2>5, <2>6, <2>7
<1>9. QED
  <2>1. CASE \E c \in Readings(k) :
          /\ Reads(k, c, {"late"})
          /\ \/ c = Gone /\ deal' = [deal EXCEPT !.pc = "prepare", !.mind = Lost(@)] /\ Spare /\ Onward
             \/ c = Gone /\ Concluded(Lost(deal.mind))
             \/ Concluded(AsRead(deal.mind, c))
             \/ c # Gone /\ On("put") /\ Spare /\ Onward
             \/ c # Gone /\ c[w] = 0 /\ On("prepare") /\ Spare /\ Onward
             \/ Concluded(deal.mind)
    BY <1>8, <2>1
  <2>2. QED BY <1>7, <2>1 DEF LookInCart

-----------------------------------------------------------------------------
\* One thing is changed in the cart, or was not: both leave it within bounds.
LEMMA SetQuantityKeeps ==
  ASSUME CartInv, NEW w \in Wares, SetQuantity(w) PROVE CartInv'
<1> DEFINE k == deal.mind.cart
<1>1. /\ deal.pc = "put" /\ w \in deal.at /\ UNCHANGED <<told, richest, deals, tokens, kept>>
      /\ strays' = strays /\ Unsure(k, "put", Only(w))
      /\ (On("reread") \/ Conclude(deal.mind))
  BY DEF SetQuantity, Still, Onward, Conclude, Answered, Slip, Fail, Unsure
<1>2. k # 0 /\ deal.new = 0 BY <1>1 DEF CartInv, DealSound, Building, Over
<1>3. k \in Token /\ k <= tokens BY <1>2, DealFacts
<1>4. deal.want \in Goods BY DealFacts
<1>5. Only(w) \in Goods /\ Only(w)[w] = deal.want[w] /\ \A v \in Wares : v # w => Only(w)[v] = 0
  BY <1>4, OnlyOne
<1>6. StoreTypes /\ "put" \in CallKinds BY DEF CartInv, CallKinds
<1>7. /\ StoreTypes' /\ \A t \in Token \ {k} : carts'[t] = carts[t]
      /\ carts'[k] \in {carts[k], After(carts[k], "put", Only(w))}
  BY <1>1, <1>3, <1>5, <1>6, UnsureLeaves
<1>8. strays \subseteq {"several"} => \A s \in Token : carts'[s] \notin {Gone, Empty} => s = k
  <2>1. strays \subseteq {"several"} => \A s \in Token : carts[s] \notin {Gone, Empty} => s = k
    BY <1>1, <1>2 DEF CartInv, OthersAreEmpty, Filled, Current, Building
  <2>2. QED BY <1>3, <1>7, <2>1
<1>9. ASSUME strays \subseteq {"left"}, NEW v \in Wares PROVE Count(carts'[k], v) <= MaxPieces
  <2>1. Count(carts[k], v) <= MaxPieces /\ deal.want[w] <= MaxPieces
    BY <1>3, <1>9 DEF CartInv, NotTwice
  <2>2. Only(w)[v] <= MaxPieces BY <1>5, <2>1, CartBounds
  <2>3. carts[k] \in Goods /\ carts'[k] \in Goods BY <1>3, <1>6, <1>7 DEF StoreTypes
  <2>4. Count(carts'[k], v) \in Nat /\ Count(carts[k], v) \in Nat /\ Only(w)[v] \in Nat
        /\ MaxPieces \in Nat
    BY <1>5, <2>3, CountIsNat, CartBounds DEF Goods
  <2>5. \/ Count(After(carts[k], "put", Only(w)), v) <= Count(carts[k], v)
        \/ Count(After(carts[k], "put", Only(w)), v) <= Only(w)[v]
    BY <1>5, <2>3, AfterCounts
  <2>6. CASE carts'[k] = carts[k] BY <2>1, <2>6
  <2>7. CASE carts'[k] = After(carts[k], "put", Only(w)) BY <2>1, <2>2, <2>4, <2>5, <2>7
  <2>8. QED BY <1>7, <2>6, <2>7
<1>10. strays \subseteq {"left"} =>
         \A s \in Token : \A v \in Wares : Count(carts'[s], v) <= MaxPieces
  BY <1>7, <1>9 DEF CartInv, NotTwice
<1>11. CASE On("reread")
  <2>1. /\ deal' \in Deals /\ deal'.pc = "reread" /\ deal'.new = deal.new /\ deal'.want = deal.want
        /\ deal'.mind = deal.mind /\ deal'.at = deal.at
    BY <1>11, DealFacts, NewPc DEF On, DealPcs
  <2>2. MindTypes'
    <3>1. tokens' \in tokens..MaxTokens /\ deal'.mind.cart <= tokens' /\ deal'.new <= tokens'
          /\ deal'.mind.some
      BY <1>1, <2>1, DealFacts
    <3>2. QED BY <1>1, <2>1, <3>1, MindTypesStay
  <2>3. DealSound' BY <1>2, <2>1 DEF DealSound, Building, Over
  <2>4. OneIsFull' BY <1>2, <2>1 DEF OneIsFull, Over
  <2>5. OthersAreEmpty' BY <1>1, <1>8, <2>1 DEF OthersAreEmpty, Filled, Current
  <2>6. NotTwice' BY <1>1, <1>10, <2>1 DEF CartInv, NotTwice
  <2>7. QED BY <1>7, <2>2, <2>3, <2>4, <2>5, <2>6 DEF CartInv
<1>12. CASE Conclude(deal.mind)
  <2>1. deal' = [deal EXCEPT !.pc = "keep", !.mind = deal.mind] BY <1>12 DEF Conclude
  <2>2. tokens' \in tokens..MaxTokens /\ k <= tokens' BY <1>1, DealFacts
  <2>3. QED BY <1>1, <1>2, <1>7, <1>8, <1>10, <2>1, <2>2, DealFacts, ConcludeKeeps
<1>13. QED BY <1>1, <1>11, <1>12

LEMMA RereadKeeps == ASSUME CartInv, NEW w \in Wares, Reread(w) PROVE CartInv'
<1>1. deal.pc = "reread" /\ UNCHANGED <<told, richest, deals>> BY DEF Reread, Still
<1>2. deal.mind.cart # 0 /\ deal.pc \notin Building \cup {"idle"} \cup Over
  BY <1>1 DEF CartInv, DealSound, Building, Over
<1>3. deal.mind.cart \in Token BY <1>2, MineFacts
<1>4. CASE Slip /\ Concluded(deal.mind)
  BY <1>1, <1>2, <1>4, DealFacts, ConcludedKeeps DEF Slip, Fail
<1>5. ASSUME NEW c \in Readings(deal.mind.cart), Reads(deal.mind.cart, c, {}),
             NEW m \in {AsRead(deal.mind, c), deal.mind}, Concluded(m)
      PROVE  CartInv'
  <2>1. c \in Goods /\ strays \subseteq strays' BY <1>3, <1>5, ReadFactsOf
  <2>2. m \in Minds /\ m.some /\ m.cart = deal.mind.cart BY <2>1, AsReadKeeps, DealFacts
  <2>3. QED BY <1>1, <1>2, <1>5, <2>1, <2>2, ConcludedKeeps
<1>6. QED
  <2>1. CASE \E c \in Readings(deal.mind.cart) :
               /\ Reads(deal.mind.cart, c, {})
               /\ \E m \in {AsRead(deal.mind, c), deal.mind} : Concluded(m)
    BY <1>5, <2>1
  <2>2. QED BY <1>4, <2>1 DEF Reread

LEMMA WishKeeps ==
  ASSUME CartInv, NEW op \in {"add", "set", "remove"}, NEW want \in Wishes, Wish(op, want)
  PROVE  CartInv'
<1> DEFINE one == Cardinality(Wanted(want)) = 1
           at  == IF one THEN Wanted(want) ELSE {}
           pcOf(m) == CASE op = "remove" -> "snap"
                        [] op # "remove" /\ one /\ m.cart # 0 -> "look"
                        [] OTHER -> "prepare"
<1>1. PICK way \in Ways : \E m \in Starts(way, deals + 1) :
        /\ StartDeal(way, m, one) /\ Asked(op, want, m)
        /\ deal' = [NoDeal EXCEPT !.op = op, !.want = want, !.mind = m, !.at = at, !.pc = pcOf(m)]
  BY DEF Wish
<1>2. PICK m \in Starts(way, deals + 1) :
        /\ StartDeal(way, m, one) /\ Asked(op, want, m)
        /\ deal' = [NoDeal EXCEPT !.op = op, !.want = want, !.mind = m, !.at = at, !.pc = pcOf(m)]
  BY <1>1
<1> DEFINE pc == pcOf(m)
<1>3. /\ deal.pc = "idle" /\ UNCHANGED <<told, richest, kept, carts, afloat, tokens>>
      /\ deals' = deals + 1 /\ (op \in {"set", "remove"} => one /\ m.cart # 0)
      /\ strays' = strays \cup (IF one THEN {} ELSE {"several"})
                          \cup (IF Continues(way, m) THEN {} ELSE {"left"})
  BY <1>2 DEF Wish, Free, StartDeal, Asked, memoryVars, storeVars
<1>4. MemoryTypes /\ deals \in Int BY DEF CartInv, MindTypes
<1>5. m \in Minds /\ m.some /\ m.cart \in {told.cart, richest.cart, kept.cart, 0}
  <2>1. deals + 1 \in Int BY <1>4
  <2>2. QED BY <1>4, <2>1, StartsAreMinds
<1>6. m.cart <= tokens BY <1>5, DealFacts
<1>7. pc \in {"snap", "look", "prepare"}
      /\ (pc = "snap" => one /\ m.cart # 0)
      /\ (pc = "look" => one /\ m.cart # 0)
      /\ (pc = "prepare" => ~one \/ m.cart = 0)
  BY <1>3
<1>8. want \in Goods /\ \A w \in Wares : want[w] <= MaxPieces
  BY CartBounds DEF Wishes, Goods
<1>9. one => \E w \in Wares : Wanted(want) = {w}
  <2>1. Wanted(want) \subseteq Wares BY DEF Wanted
  <2>2. IsFiniteSet(Wanted(want)) BY <2>1, CartBounds, FS_Subset
  <2>3. one => \E w : Wanted(want) = {w} BY <2>2, FS_Singleton
  <2>4. QED BY <2>1, <2>3
<1>10. at \in SUBSET Wares BY DEF Wanted
<1>11. /\ deal' \in Deals /\ deal'.pc = pc /\ deal'.want = want /\ deal'.at = at
       /\ deal'.mind = m /\ deal'.new = 0
  <2>1. deal' = [NoDeal EXCEPT !.op = op, !.want = want, !.mind = m, !.at = at, !.pc = pc]
    BY <1>2
  <2> HIDE DEF pc, at
  <2> DEFINE a == [NoDeal EXCEPT !.op = op]
             b == [a EXCEPT !.want = want]
             c == [b EXCEPT !.mind = m]
             d == [c EXCEPT !.at = at]
  <2>2. deal' = [d EXCEPT !.pc = pc] BY <2>1
  <2>3. a \in Deals /\ a.new = 0 BY NoDealFacts, NewOp
  <2> HIDE DEF a
  <2>4. b \in Deals /\ b.new = 0 /\ b.want = want BY <1>8, <2>3, NewWant
  <2> HIDE DEF b
  <2>5. c \in Deals /\ c.new = 0 /\ c.want = want /\ c.mind = m BY <1>5, <2>4, NewMind
  <2> HIDE DEF c
  <2>6. d \in Deals /\ d.new = 0 /\ d.want = want /\ d.mind = m /\ d.at = at
    BY <1>10, <2>5, NewAt
  <2> HIDE DEF d
  <2>7. pc \in DealPcs BY <1>7 DEF DealPcs
  <2>8. QED BY <2>2, <2>6, <2>7, NewPc
<1>12. StoreTypes' BY <1>3 DEF CartInv, StoreTypes
<1>13. MindTypes'
  <2>1. MemoryTypes' BY <1>3, <1>4 DEF MemoryTypes
  <2>2. /\ deals' \in Int /\ told'.cart <= tokens' /\ richest'.cart <= tokens'
        /\ kept'.cart <= tokens' /\ m.cart <= tokens' /\ 0 <= tokens'
    BY <1>3, <1>4, <1>6, DealFacts
  <2> HIDE DEF pc, at
  <2>3. QED BY <1>5, <1>11, <2>1, <2>2 DEF MindTypes
<1>14. DealSound'
  <2>1. pc \in {"snap", "look"} => at = Wanted(want) /\ (\E w \in Wares : at = {w}) /\ m.cart # 0
    BY <1>7, <1>9
  <2> HIDE DEF pc, at
  <2>2. QED BY <1>7, <1>11, <2>1 DEF DealSound, Building, Over
<1>15. OneIsFull'
  <2> HIDE DEF pc, at
  <2>1. QED BY <1>7, <1>11 DEF OneIsFull, Over
<1>16. OthersAreEmpty'
  <2>1. strays' \subseteq {"several"} => strays \subseteq {"several"} /\ Continues(way, m) BY <1>3
  <2>2. Continues(way, m) => m.cart = Current BY <1>3 DEF Continues, Current
  <2> HIDE DEF pc, at
  <2>3. Current' = m.cart /\ deal.pc \notin Building BY <1>3, <1>7, <1>11 DEF Current, Building
  <2>4. QED BY <1>3, <2>1, <2>2, <2>3 DEF CartInv, OthersAreEmpty, Filled
<1>17. NotTwice'
  <2>1. strays' \subseteq {"left"} => strays \subseteq {"left"} /\ one BY <1>3
  <2> HIDE DEF at
  <2>2. strays' \subseteq {"left"} /\ pc = "prepare" => m.cart = 0 BY <1>7, <2>1
  <2> HIDE DEF pc, one
  <2>3. QED BY <1>3, <1>7, <1>8, <1>11, <2>1, <2>2 DEF CartInv, NotTwice
<1>18. QED BY <1>12, <1>13, <1>14, <1>15, <1>16, <1>17 DEF CartInv

LEMMA PrepareKeeps == ASSUME CartInv, Prepare PROVE CartInv'
<1> DEFINE fresh == deal.mind.cart = 0
           mind  == IF fresh THEN [deal.mind EXCEPT !.cart = tokens + 1] ELSE deal.mind
<1>1. /\ deal.pc = "prepare" /\ UNCHANGED <<told, richest, deals, kept, carts, afloat, strays>>
      /\ tokens' = (IF fresh THEN tokens + 1 ELSE tokens) /\ (fresh => tokens < MaxTokens)
      /\ \/ deal' = [deal EXCEPT !.pc = "keep", !.mind = mind]
         \/ deal' = [deal EXCEPT !.pc = "post", !.mind = mind, !.at = {}, !.todo = Wanted(deal.want)]
  BY DEF Prepare, Still, Spare, storeVars, Answered
<1>2. deal.new = 0 /\ deal.pc \notin Building BY <1>1 DEF CartInv, DealSound, Building, Over
<1>3. tokens' \in tokens..MaxTokens BY <1>1, DealFacts
<1>4. /\ mind \in Minds /\ mind.some /\ mind.cart <= tokens' /\ mind.cart # 0
      /\ IF fresh THEN mind.cart = tokens + 1 ELSE mind.cart = deal.mind.cart
  <2>1. tokens \in Nat /\ deal.mind \in Minds /\ deal.mind.some /\ deal.mind.cart <= tokens
    BY DealFacts
  <2>2. CASE fresh
    <3>1. mind = [deal.mind EXCEPT !.cart = tokens + 1] /\ tokens + 1 \in Nat BY <2>1, <2>2
    <3> DEFINE x == [deal.mind EXCEPT !.cart = tokens + 1]
    <3>4. x \in Minds /\ x.some /\ x.cart = tokens + 1
      <4>1. tokens + 1 \in Nat BY <2>1
      <4>2. QED BY <2>1, <4>1, MindChanges
    <3>2. mind \in Minds /\ mind.some /\ mind.cart = tokens + 1 BY <3>1, <3>4
    <3> HIDE DEF mind
    <3>3. QED BY <1>1, <2>1, <2>2, <3>2
  <2>3. CASE ~fresh BY <1>1, <2>1, <2>3
  <2>4. QED BY <2>2, <2>3
<1>5. StoreTypes'
  <2>1. \A s \in Token : s > tokens' => s > tokens BY <1>3, DealFacts DEF Token
  <2>2. \A s \in Token : s <= tokens => s <= tokens' BY <1>3, DealFacts DEF Token
  <2>3. tokens' \in 0..MaxTokens BY <1>3, DealFacts
  <2>4. QED BY <1>1, <2>1, <2>2, <2>3 DEF CartInv, StoreTypes
<1>6. strays \subseteq {"several"} => \A s \in Token : carts[s] \notin {Gone, Empty} => s = mind.cart
  <2>1. strays \subseteq {"several"} =>
          \A s \in Token : carts[s] \notin {Gone, Empty} => s = deal.mind.cart
    BY <1>1, <1>2 DEF CartInv, OthersAreEmpty, Filled, Current
  <2>2. \A s \in Token : s # 0 BY DEF Token
  <2>3. QED BY <1>4, <2>1, <2>2
<1>7. strays \subseteq {"left"} =>
         /\ \A s \in Token : \A w \in Wares : Count(carts[s], w) <= MaxPieces
         /\ \A w \in Wares : deal.want[w] <= MaxPieces
         /\ \A w \in Wanted(deal.want) : Count(carts[mind.cart], w) = 0
  <2>1. CASE fresh
    <3>1. tokens + 1 \in Token /\ tokens + 1 > tokens BY <1>1, <2>1, DealFacts DEF Token
    <3>2. carts[mind.cart] = Gone BY <1>4, <2>1, <3>1 DEF CartInv, StoreTypes
    <3>3. QED BY <3>2, GoneHoldsNothing DEF CartInv, NotTwice
  <2>2. CASE ~fresh BY <1>1, <1>4, <2>2 DEF CartInv, NotTwice
  <2>3. QED BY <2>1, <2>2
<1> HIDE DEF mind, fresh
<1>8. CASE deal' = [deal EXCEPT !.pc = "keep", !.mind = mind]
  BY <1>1, <1>2, <1>3, <1>4, <1>5, <1>6, <1>7, <1>8, ConcludeKeeps
<1>9. CASE deal' = [deal EXCEPT !.pc = "post", !.mind = mind, !.at = {}, !.todo = Wanted(deal.want)]
  <2>1. /\ deal' \in Deals /\ deal'.pc = "post" /\ deal'.mind = mind /\ deal'.new = 0
        /\ deal'.todo = Wanted(deal.want) /\ deal'.want = deal.want
    <3> DEFINE a == [deal EXCEPT !.pc = "post"]
               b == [a EXCEPT !.mind = mind]
               c == [b EXCEPT !.at = {}]
    <3>1. deal' = [c EXCEPT !.todo = Wanted(deal.want)] BY <1>9
    <3>2. a \in Deals /\ a.pc = "post" /\ a.new = 0 /\ a.want = deal.want
      BY <1>2, DealFacts, NewPc DEF DealPcs
    <3> HIDE DEF a
    <3>3. b \in Deals /\ b.pc = "post" /\ b.new = 0 /\ b.want = deal.want /\ b.mind = mind
      BY <1>4, <3>2, NewMind
    <3> HIDE DEF b
    <3>4. c \in Deals /\ c.pc = "post" /\ c.new = 0 /\ c.want = deal.want /\ c.mind = mind
      BY <3>3, NewAt
    <3> HIDE DEF c
    <3>5. Wanted(deal.want) \in SUBSET Wares BY DEF Wanted
    <3>6. QED BY <3>1, <3>4, <3>5, NewTodo
  <2>2. MindTypes'
    <3>1. deal'.new <= tokens' /\ deal'.mind.cart <= tokens' /\ deal'.mind.some
      BY <1>3, <1>4, <2>1, DealFacts
    <3>2. QED BY <1>1, <1>3, <2>1, <3>1, MindTypesStay
  <2>3. DealSound' BY <1>4, <2>1 DEF DealSound, Building, Over
  <2>4. OneIsFull' BY <2>1 DEF OneIsFull, Over
  <2>5. OthersAreEmpty' BY <1>1, <1>6, <2>1 DEF OthersAreEmpty, Filled, Current
  <2>6. NotTwice' BY <1>1, <1>7, <2>1 DEF NotTwice
  <2>7. QED BY <1>5, <2>2, <2>3, <2>4, <2>5, <2>6 DEF CartInv
<1>10. QED BY <1>1, <1>8, <1>9
-----------------------------------------------------------------------------
\* What the customer asked for is in the cart, and the next is posted.
LEMMA AddedChanges ==
  ASSUME CartInv, NEW w \in Wares, NEW r \in Goods, deal.mind.cart # 0, Added(w, r)
  PROVE  /\ deal' \in Deals /\ deal'.want = deal.want /\ deal'.at = {} /\ deal'.new = deal.new
         /\ deal'.todo = deal.todo \ {w} /\ deal'.mind.cart = deal.mind.cart /\ deal'.mind.some
         /\ deal'.pc = IF deal.todo = {w} THEN "verify" ELSE "post"
<1> DEFINE a == [deal EXCEPT !.todo = deal.todo \ {w}]
           g == [deal.goods EXCEPT ![w] = deal.want[w]]
           b == [a EXCEPT !.goods = g]
           c == [b EXCEPT !.read = r]
           m == [deal.mind EXCEPT !.link = deal.mind.cart]
           d == [c EXCEPT !.mind = m]
           e == [d EXCEPT !.at = {}]
           p == IF deal.todo = {w} THEN "verify" ELSE "post"
<1>1. a \in Deals /\ a.want = deal.want /\ a.new = deal.new /\ a.todo = deal.todo \ {w}
      /\ a.goods = deal.goods /\ a.mind = deal.mind
  BY DealFacts, NewTodo
<1>2. g \in Goods BY DealFacts DEF Goods
<1>3. m \in Minds /\ m.cart = deal.mind.cart /\ m.some BY DealFacts, MindChanges
<1>4. deal' = [e EXCEPT !.pc = p]
  <2>1. deal' = [deal EXCEPT !.todo = @ \ {w}, !.goods[w] = deal.want[w], !.read = r,
                            !.mind.link = deal.mind.cart, !.at = {}, !.pc = p]
    BY DEF Added
  <2> DEFINE b2 == [a EXCEPT !.goods[w] = deal.want[w]]
             c2 == [b2 EXCEPT !.read = r]
             d2 == [c2 EXCEPT !.mind.link = deal.mind.cart]
  <2>2. deal' = [[d2 EXCEPT !.at = {}] EXCEPT !.pc = p] BY <2>1
  <2>3. b2 = b BY <1>1
  <2>4. c2 = c BY <2>3
  <2> HIDE DEF a, g
  <2>5. b \in Deals /\ b.mind = deal.mind BY <1>1, <1>2, NewGoods
  <2> HIDE DEF b, b2
  <2>6. c \in Deals /\ c.mind = deal.mind BY <2>5, NewRead
  <2> HIDE DEF c, c2
  <2>7. d2 = d BY <2>4, <2>6
  <2>8. QED BY <2>2, <2>7
<1> HIDE DEF a, g, m, p
<1>5. b \in Deals /\ b.want = deal.want /\ b.new = deal.new /\ b.todo = deal.todo \ {w}
  BY <1>1, <1>2, NewGoods
<1> HIDE DEF b
<1>6. c \in Deals /\ c.want = deal.want /\ c.new = deal.new /\ c.todo = deal.todo \ {w}
  BY <1>5, NewRead
<1> HIDE DEF c
<1>7. d \in Deals /\ d.want = deal.want /\ d.new = deal.new /\ d.todo = deal.todo \ {w} /\ d.mind = m
  BY <1>3, <1>6, NewMind
<1> HIDE DEF d
<1>8. e \in Deals /\ e.want = deal.want /\ e.new = deal.new /\ e.todo = deal.todo \ {w} /\ e.mind = m
      /\ e.at = {}
  BY <1>7, NewAt
<1> HIDE DEF e
<1>9. p \in DealPcs BY DEF p, DealPcs
<1>10. QED BY <1>3, <1>4, <1>8, <1>9, NewPc DEF p


\* A thing is posted, or was not, or will be: the cart stays the only one with
\* anything in it, and what is still to be posted is not in it.
LEMMA PostingLeaves ==
  ASSUME CartInv, NEW w \in Wares, deal.pc \in {"post", "recheck"},
         UNCHANGED tokens, strays \subseteq strays',
         \/ UNCHANGED <<carts, afloat>>
         \/ deal.pc = "post" /\ w \in deal.todo /\ Unsure(deal.mind.cart, "post", Only(w)),
         deal.pc = "recheck" => w \in deal.at
  PROVE  /\ StoreTypes' /\ deal.mind.cart # 0 /\ deal.new = 0
         /\ strays' \subseteq {"several"} =>
              \A s \in Token : carts'[s] \notin {Gone, Empty} => s = deal.mind.cart
         /\ strays' \subseteq {"left"} =>
              /\ \A s \in Token : \A v \in Wares : Count(carts'[s], v) <= MaxPieces
              /\ \A v \in deal.todo \ {w} : Count(carts'[deal.mind.cart], v) = 0
<1> DEFINE k == deal.mind.cart
<1>1. k # 0 /\ deal.new = 0 /\ (deal.pc = "recheck" => deal.at = {w})
  BY DEF CartInv, DealSound, Building, Over
<1>2. k \in Token /\ k <= tokens BY <1>1, DealFacts
<1>3. StoreTypes BY DEF CartInv
<1>4. strays \subseteq {"several"} =>
        \A s \in Token : carts[s] \notin {Gone, Empty} => s = k
  BY DEF CartInv, OthersAreEmpty, Filled, Current, Building
<1>5. strays \subseteq {"left"} =>
        /\ \A s \in Token : \A v \in Wares : Count(carts[s], v) <= MaxPieces
        /\ \A v \in deal.todo \ {w} : Count(carts[k], v) = 0
        /\ deal.pc = "post" => \A v \in deal.todo : Count(carts[k], v) = 0
        /\ \A v \in Wares : deal.want[v] <= MaxPieces
  BY <1>1 DEF CartInv, NotTwice
<1>6. CASE UNCHANGED <<carts, afloat>>
  <2>1. StoreTypes' BY <1>3, <1>6 DEF StoreTypes
  <2>2. QED BY <1>1, <1>4, <1>5, <1>6, <2>1
<1>7. CASE deal.pc = "post" /\ w \in deal.todo /\ Unsure(k, "post", Only(w))
  <2>1. deal.want \in Goods /\ "post" \in CallKinds BY DealFacts DEF CallKinds
  <2>2. Only(w) \in Goods /\ Only(w)[w] = deal.want[w] /\ \A v \in Wares : v # w => Only(w)[v] = 0
    BY <2>1, OnlyOne
  <2>3. /\ StoreTypes' /\ \A t \in Token \ {k} : carts'[t] = carts[t]
        /\ carts'[k] \in {carts[k], After(carts[k], "post", Only(w))}
    BY <1>2, <1>3, <1>7, <2>1, <2>2, UnsureLeaves
  <2>4. carts[k] \in Goods /\ carts'[k] \in Goods BY <1>2, <1>3, <2>3 DEF StoreTypes
  <2>5. ASSUME NEW v \in Wares
        PROVE  /\ Count(carts'[k], v) \in Nat /\ Count(carts[k], v) \in Nat /\ Only(w)[v] \in Nat
               /\ Count(carts'[k], v) <= Count(carts[k], v) + Only(w)[v]
    <3>1. Count(carts'[k], v) \in Nat /\ Count(carts[k], v) \in Nat /\ Only(w)[v] \in Nat
      BY <2>2, <2>4, CountIsNat DEF Goods
    <3>2. Count(After(carts[k], "post", Only(w)), v) <= Count(carts[k], v) + Only(w)[v]
      BY <2>2, <2>4, AfterCounts
    <3>3. CASE carts'[k] = carts[k] BY <3>1, <3>3
    <3>4. CASE carts'[k] = After(carts[k], "post", Only(w)) BY <3>1, <3>2, <3>4
    <3>5. QED BY <2>3, <3>1, <3>3, <3>4
  <2>6. ASSUME strays \subseteq {"left"}, NEW v \in Wares PROVE Count(carts'[k], v) <= MaxPieces
    <3>1. /\ Count(carts[k], v) <= MaxPieces /\ deal.want[w] <= MaxPieces
          /\ Count(carts[k], w) = 0
      BY <1>2, <1>5, <1>7, <2>6
    <3>2. MaxPieces \in Nat /\ (v # w => Only(w)[v] = 0) /\ Only(w)[w] = deal.want[w]
      BY <2>2, CartBounds
    <3>3. CASE v = w BY <2>5, <3>1, <3>2, <3>3
    <3>4. CASE v # w BY <2>5, <3>1, <3>2, <3>4
    <3>5. QED BY <3>3, <3>4
  <2>7. ASSUME strays \subseteq {"left"}, NEW v \in deal.todo \ {w} PROVE Count(carts'[k], v) = 0
    <3>1. v \in Wares /\ v # w BY DealFacts
    <3>2. Count(carts[k], v) = 0 /\ Only(w)[v] = 0 BY <1>5, <2>2, <2>7, <3>1
    <3>3. QED BY <2>5, <3>1, <3>2
  <2>8. ASSUME strays \subseteq {"left"}, NEW s \in Token, NEW v \in Wares
        PROVE  Count(carts'[s], v) <= MaxPieces
    BY <1>5, <2>3, <2>6, <2>8
  <2>9. strays \subseteq {"several"} => \A s \in Token : carts'[s] \notin {Gone, Empty} => s = k
    BY <1>4, <2>3
  <2>10. QED BY <1>1, <2>3, <2>7, <2>8, <2>9
<1>8. QED BY <1>6, <1>7

\* What the turn makes of it: it goes on, or ends with the mind it has.
LEMMA PostingKeeps ==
  ASSUME CartInv, NEW w \in Wares, deal.pc \in {"post", "recheck"},
         UNCHANGED <<told, richest, deals, kept, tokens>>, strays \subseteq strays',
         \/ UNCHANGED <<carts, afloat>>
         \/ deal.pc = "post" /\ w \in deal.todo /\ Unsure(deal.mind.cart, "post", Only(w)),
         deal.pc = "recheck" => w \in deal.at,
         \/ Conclude(deal.mind)
         \/ /\ deal' \in Deals /\ deal'.want = deal.want
            /\ deal'.mind.cart = deal.mind.cart /\ deal'.mind.some /\ deal'.new = deal.new
            /\ \/ deal'.pc = "verify"
               \/ deal'.pc = "post" /\ deal'.todo = deal.todo \ {w}
               \/ deal'.pc = "recheck" /\ deal'.at = {w} /\ deal'.todo = deal.todo
  PROVE  CartInv'
<1>1. /\ StoreTypes' /\ deal.mind.cart # 0 /\ deal.new = 0
      /\ strays' \subseteq {"several"} =>
           \A s \in Token : carts'[s] \notin {Gone, Empty} => s = deal.mind.cart
      /\ strays' \subseteq {"left"} =>
           /\ \A s \in Token : \A v \in Wares : Count(carts'[s], v) <= MaxPieces
           /\ \A v \in deal.todo \ {w} : Count(carts'[deal.mind.cart], v) = 0
  BY PostingLeaves
<1>2. CASE Conclude(deal.mind)
  <2>1. deal' = [deal EXCEPT !.pc = "keep", !.mind = deal.mind] BY <1>2 DEF Conclude
  <2>2. tokens' \in tokens..MaxTokens /\ deal.mind.cart <= tokens' BY DealFacts
  <2>3. QED BY <1>1, <2>1, <2>2, DealFacts, ConcludeKeeps
<1>3. ASSUME deal' \in Deals, deal'.want = deal.want,
             deal'.mind.cart = deal.mind.cart, deal'.mind.some, deal'.new = deal.new,
             \/ deal'.pc = "verify"
             \/ deal'.pc = "post" /\ deal'.todo = deal.todo \ {w}
             \/ deal'.pc = "recheck" /\ deal'.at = {w} /\ deal'.todo = deal.todo
      PROVE  CartInv'
  <2>1. MindTypes'
    <3>1. tokens' \in tokens..MaxTokens /\ deal'.mind.cart <= tokens' /\ deal'.new <= tokens'
      BY <1>3, DealFacts
    <3>2. QED BY <1>3, <3>1, MindTypesStay
  <2>2. DealSound' BY <1>1, <1>3 DEF DealSound, Building, Over
  <2>3. OneIsFull' BY <1>1, <1>3 DEF OneIsFull, Over
  <2>4. OthersAreEmpty' BY <1>1, <1>3 DEF OthersAreEmpty, Filled, Current
  <2>5. NotTwice' BY <1>1, <1>3 DEF CartInv, NotTwice
  <2>6. QED BY <1>1, <2>1, <2>2, <2>3, <2>4, <2>5 DEF CartInv
<1>4. QED BY <1>2, <1>3

LEMMA StopPostingChanges ==
  ASSUME CartInv, StopPosting
  PROVE  /\ UNCHANGED <<kept, tokens>>
         /\ \/ Conclude(deal.mind)
            \/ /\ deal' \in Deals /\ deal'.want = deal.want
               /\ deal'.mind.cart = deal.mind.cart /\ deal'.mind.some
               /\ deal'.new = deal.new /\ deal'.pc = "verify"
<1>1. CASE On("verify") /\ Onward
  <2>1. deal' = [deal EXCEPT !.pc = "verify"] /\ "verify" \in DealPcs BY <1>1 DEF On, DealPcs
  <2>2. deal' \in Deals /\ deal'.want = deal.want /\ deal'.mind = deal.mind
        /\ deal'.new = deal.new /\ deal'.pc = "verify"
    BY <2>1, DealFacts, NewPc
  <2>3. QED BY <1>1, <2>2, DealFacts DEF Onward
<1>2. QED BY <1>1 DEF StopPosting, Conclude

LEMMA PostOneKeeps ==
  ASSUME CartInv, NEW w \in Wares, PostOne(w) PROVE CartInv'
<1> DEFINE k == deal.mind.cart
<1>1. deal.pc = "post" /\ w \in deal.todo /\ UNCHANGED <<told, richest, deals>>
  BY DEF PostOne, Still
<1>2. k # 0 BY <1>1 DEF CartInv, DealSound, Over
<1>3. CASE Answered /\ Done(k, "post", Only(w)) /\ Added(w, Gone)
  <2>1. /\ deal' \in Deals /\ deal'.want = deal.want /\ deal'.new = deal.new
        /\ deal'.todo = deal.todo \ {w} /\ deal'.mind.cart = k /\ deal'.mind.some
        /\ deal'.pc = IF deal.todo = {w} THEN "verify" ELSE "post"
    BY <1>2, <1>3, CartBounds, AddedChanges
  <2>2. UNCHANGED <<kept, tokens>> /\ strays \subseteq strays' BY <1>3 DEF Added, Onward, Answered
  <2>3. Unsure(k, "post", Only(w)) BY <1>3 DEF Unsure
  <2>4. QED BY <1>1, <2>1, <2>2, <2>3, PostingKeeps
<1>4. CASE Slip /\ Unsure(k, "post", Only(w))
           /\ deal' = [deal EXCEPT !.pc = "recheck", !.at = {w}] /\ Onward
  <2> DEFINE d == [deal EXCEPT !.pc = "recheck"]
  <2>1. d \in Deals /\ d.want = deal.want /\ d.new = deal.new /\ d.todo = deal.todo
        /\ d.mind = deal.mind /\ d.pc = "recheck"
    BY DealFacts, NewPc DEF DealPcs
  <2>2. deal' = [d EXCEPT !.at = {w}] BY <1>4
  <2> HIDE DEF d
  <2>3. /\ deal' \in Deals /\ deal'.want = deal.want /\ deal'.new = deal.new
        /\ deal'.todo = deal.todo /\ deal'.mind = deal.mind /\ deal'.pc = "recheck" /\ deal'.at = {w}
    BY <2>1, <2>2, NewAt
  <2>4. UNCHANGED <<kept, tokens>> /\ strays \subseteq strays' /\ deal'.mind.some
        /\ deal'.mind.cart = k
    BY <1>4, <2>3, DealFacts DEF Onward, Slip, Fail
  <2>5. QED BY <1>1, <1>4, <2>3, <2>4, PostingKeeps
<1>5. CASE Slip /\ Unsure(k, "post", Only(w)) /\ StopPosting
  <2>1. strays \subseteq strays' BY <1>5 DEF Slip, Fail
  <2>2. QED BY <1>1, <1>5, <2>1, StopPostingChanges, PostingKeeps
<1>6. QED BY <1>3, <1>4, <1>5 DEF PostOne

LEMMA RecheckKeeps ==
  ASSUME CartInv, NEW w \in Wares, Recheck(w) PROVE CartInv'
<1> DEFINE k == deal.mind.cart
<1>1. deal.pc = "recheck" /\ w \in deal.at /\ UNCHANGED <<told, richest, deals, carts, afloat>>
  BY DEF Recheck, Still, Spare, storeVars
<1>2. k # 0 BY <1>1 DEF CartInv, DealSound, Over
<1>3. k \in Token BY <1>2, MineFacts
<1>4. ASSUME NEW c \in Readings(k), Reads(k, c, {"late"}), Added(w, c) PROVE CartInv'
  <2>1. c \in Goods /\ strays \subseteq strays' BY <1>3, <1>4, ReadFactsOf
  <2>2. /\ deal' \in Deals /\ deal'.want = deal.want /\ deal'.new = deal.new
        /\ deal'.todo = deal.todo \ {w} /\ deal'.mind.cart = k /\ deal'.mind.some
        /\ deal'.pc = IF deal.todo = {w} THEN "verify" ELSE "post"
    BY <1>2, <1>4, <2>1, AddedChanges
  <2>3. UNCHANGED <<kept, tokens>> BY <1>4 DEF Added, Onward
  <2>4. QED BY <1>1, <2>1, <2>2, <2>3, PostingKeeps
<1>5. ASSUME StopPosting, strays \subseteq strays' PROVE CartInv'
  BY <1>1, <1>5, StopPostingChanges, PostingKeeps
<1>6. CASE \E c \in Readings(k) : Reads(k, c, {"late"}) /\ (Added(w, c) \/ StopPosting)
  BY <1>3, <1>4, <1>5, <1>6, ReadFactsOf
<1>7. CASE Slip /\ StopPosting BY <1>5, <1>7 DEF Slip, Fail
<1>8. QED BY <1>6, <1>7 DEF Recheck

LEMMA VerifyKeeps == ASSUME CartInv, Verify PROVE CartInv'
<1> DEFINE k == deal.mind.cart
           sum == [w \in Wares |-> deal.mind.items[w] + deal.goods[w]]
<1>1. deal.pc = "verify" /\ UNCHANGED <<told, richest, deals>> BY DEF Verify, Still
<1>2. k # 0 /\ deal.pc \notin Building \cup {"idle"} \cup Over
  BY <1>1 DEF CartInv, DealSound, Building, Over
<1>3. k \in Token BY <1>2, MineFacts
<1>4. deal.read \in Goods /\ sum \in Goods
  <2>1. deal.mind.items \in Goods /\ deal.goods \in Goods /\ deal.read \in Goods BY DealFacts
  <2>2. QED BY <2>1 DEF Goods
<1>5. PICK c \in IF deal.read = Gone THEN Readings(k) ELSE {deal.read} :
        /\ IF deal.read = Gone THEN Reads(k, c, {}) ELSE Answered
        /\ \E items \in Listings(c) : Concluded([deal.mind EXCEPT !.items = items])
  BY DEF Verify
<1>6. c \in Goods /\ strays \subseteq strays' BY <1>3, <1>4, <1>5, ReadFactsOf DEF Answered
<1>7. PICK items \in Listings(c) : Concluded([deal.mind EXCEPT !.items = items]) BY <1>5
<1>8. items \in {c, sum} BY <1>7 DEF Listings
<1> HIDE DEF sum
<1> DEFINE m == [deal.mind EXCEPT !.items = items]
<1>9. m \in Minds /\ m.some /\ m.cart = k
  <2>1. items \in Goods BY <1>4, <1>6, <1>8
  <2>2. QED BY <2>1, DealFacts, MindChanges
<1>10. Concluded(m) BY <1>7
<1> HIDE DEF m
<1>11. QED BY <1>1, <1>2, <1>6, <1>9, <1>10, ConcludedKeeps
-----------------------------------------------------------------------------
\* The second cart of a turn is drawn: the first is written down.
LEMMA SnapshotKeeps == ASSUME CartInv, Snapshot PROVE CartInv'
<1> DEFINE k == deal.mind.cart
<1>1. deal.pc = "snap" /\ UNCHANGED <<told, richest, deals, carts, afloat>>
  BY DEF Snapshot, Still, Spare, storeVars
<1>2. /\ k # 0 /\ deal.at # {} /\ deal.new = 0
      /\ deal.pc \notin Building \cup {"idle"} \cup Over
  BY <1>1 DEF CartInv, DealSound, Building, Over
<1>3. k \in Token BY <1>2, MineFacts
<1>4. ASSUME Concluded(deal.mind), strays \subseteq strays' PROVE CartInv'
  BY <1>1, <1>2, <1>4, DealFacts, ConcludedKeeps
<1>5. ASSUME On("drop"), Onward, strays \subseteq strays' PROVE CartInv'
  <2>1. /\ deal' \in Deals /\ deal'.pc = "drop" /\ deal'.new = deal.new /\ deal'.want = deal.want
        /\ deal'.mind = deal.mind /\ deal'.at = deal.at
    BY <1>5, DealFacts, NewPc DEF On, DealPcs
  <2>2. DealSound'
    <3>1. deal'.pc = "drop" /\ deal'.mind.cart # 0 /\ deal'.at # {} /\ deal'.new = 0 BY <1>2, <2>1
    <3>2. QED BY <3>1 DEF DealSound, Building, Over
  <2>3. deal'.pc \notin Building /\ deal.pc \notin Building /\ deal.pc # "idle"
    BY <1>2, <2>1 DEF Building
  <2>4. deal'.mind.some /\ UNCHANGED <<kept, tokens>> BY <1>5, <2>1, DealFacts DEF Onward
  <2>5. QED BY <1>1, <1>2, <1>5, <2>1, <2>2, <2>3, <2>4, GoOnWithCarts
<1>6. ASSUME NEW c \in Goods, strays \subseteq strays', c = carts[k] \/ "late" \in strays', c # Gone,
             tokens < MaxTokens, tokens' = tokens + 1, UNCHANGED kept,
             deal' = [deal EXCEPT !.pc = "copy", !.todo = Keepers(c), !.want = c, !.new = tokens + 1]
      PROVE  CartInv'
  <2>1. /\ deal' \in Deals /\ deal'.pc = "copy" /\ deal'.want = c /\ deal'.new = tokens + 1
        /\ deal'.at = deal.at /\ deal'.mind = deal.mind
    <3> DEFINE x == [deal EXCEPT !.pc = "copy"]
               y == [x EXCEPT !.todo = Keepers(c)]
               z == [y EXCEPT !.want = c]
    <3>1. deal' = [z EXCEPT !.new = tokens + 1] BY <1>6
    <3>2. x \in Deals /\ x.pc = "copy" /\ x.at = deal.at /\ x.mind = deal.mind
      BY DealFacts, NewPc DEF DealPcs
    <3> HIDE DEF x
    <3>3. Keepers(c) \in SUBSET Wares BY DEF Keepers, Wanted
    <3>4. y \in Deals /\ y.pc = "copy" /\ y.at = deal.at /\ y.mind = deal.mind
      BY <3>2, <3>3, NewTodo
    <3> HIDE DEF y
    <3>5. z \in Deals /\ z.pc = "copy" /\ z.at = deal.at /\ z.mind = deal.mind /\ z.want = c
      BY <3>4, NewWant
    <3> HIDE DEF z
    <3>6. tokens + 1 \in Nat BY DealFacts
    <3>7. QED BY <3>1, <3>5, <3>6, NewNew
  <2>2. tokens' \in tokens..MaxTokens /\ tokens' \in 0..MaxTokens /\ tokens + 1 \in Token
        /\ k # tokens + 1 /\ tokens + 1 > tokens /\ tokens + 1 # 0 /\ k <= tokens'
    BY <1>6, DealFacts DEF Token
  <2>3. carts[tokens + 1] = Gone BY <2>2 DEF CartInv, StoreTypes
  <2>4. StoreTypes'
    <3>1. \A s \in Token : s > tokens' => s > tokens BY <2>2, DealFacts DEF Token
    <3>2. \A s \in Token : s <= tokens => s <= tokens' BY <2>2, DealFacts DEF Token
    <3>3. QED BY <1>1, <2>2, <3>1, <3>2 DEF CartInv, StoreTypes
  <2>5. MindTypes'
    <3>1. deal'.mind.cart <= tokens' /\ deal'.new <= tokens' /\ deal'.mind.some
      BY <1>6, <2>1, <2>2, DealFacts
    <3>2. QED BY <1>1, <1>6, <2>1, <2>2, <3>1, MindTypesStay
  <2>6. DealSound' BY <1>2, <2>1, <2>2 DEF DealSound, Building, Over
  <2>7. OneIsFull' BY <1>1, <1>6, <2>1 DEF OneIsFull, HasOthers, Count, Over
  <2>8. OthersAreEmpty'
    BY <1>1, <1>2, <1>6, <2>1 DEF CartInv, OthersAreEmpty, Filled, Current, Building
  <2>9. NotTwice'
    <3>1. strays' \subseteq {"left"} => strays \subseteq {"left"} /\ c = carts[k] BY <1>6
    <3>2. strays' \subseteq {"left"} => \A w \in Wares : c[w] <= MaxPieces
      BY <1>3, <1>6, <3>1 DEF CartInv, NotTwice, Count
    <3>3. \A w \in Wares : Count(carts[tokens + 1], w) = 0 BY <2>3, GoneHoldsNothing
    <3>4. deal'.todo \in SUBSET Wares BY <2>1 DEF Deals
    <3>5. QED BY <1>1, <2>1, <3>1, <3>2, <3>3, <3>4 DEF CartInv, NotTwice
  <2>10. QED BY <2>4, <2>5, <2>6, <2>7, <2>8, <2>9 DEF CartInv
<1>7. CASE Slip /\ Concluded(deal.mind) BY <1>4, <1>7 DEF Slip, Fail
<1>8. ASSUME NEW c \in Readings(k), Reads(k, c, {"late"}),
             \/ Concluded(deal.mind)
             \/ On("drop") /\ Onward
             \/ /\ c # Gone /\ tokens < MaxTokens /\ tokens' = tokens + 1 /\ UNCHANGED kept
                /\ deal' = [deal EXCEPT !.pc = "copy", !.todo = Keepers(c), !.want = c,
                                       !.new = tokens + 1]
      PROVE  CartInv'
  <2>1. c \in Goods /\ strays \subseteq strays' /\ (c = carts[k] \/ "late" \in strays')
    BY <1>3, <1>8, ReadFactsOf
  <2>2. QED BY <1>4, <1>5, <1>6, <1>8, <2>1
<1>9. QED
  <2>1. CASE \E c \in Readings(k) :
               /\ Reads(k, c, {"late"})
               /\ \/ Concluded(deal.mind)
                  \/ On("drop") /\ Onward
                  \/ /\ c # Gone /\ tokens < MaxTokens /\ tokens' = tokens + 1 /\ UNCHANGED kept
                     /\ deal' = [deal EXCEPT !.pc = "copy", !.todo = Keepers(c), !.want = c,
                                            !.new = tokens + 1]
    BY <1>8, <2>1
  <2>2. QED BY <1>7, <2>1 DEF Snapshot, OldCart

\* What a deletion leaves.
LEMMA DeletionLeaves ==
  ASSUME CartInv, NEW s \in Token, s <= tokens, Unsure(s, "delete", Empty), UNCHANGED tokens,
         strays \subseteq strays'
  PROVE  /\ StoreTypes' /\ \A t \in Token \ {s} : carts'[t] = carts[t]
         /\ Done(s, "delete", Empty) => carts'[s] = Gone
         /\ \A t \in Token : carts'[t] = carts[t] \/ carts'[t] = Gone
         /\ strays' \subseteq {"left"} =>
              \A t \in Token : \A w \in Wares : Count(carts'[t], w) <= MaxPieces
<1>1. StoreTypes /\ "delete" \in CallKinds /\ Empty \in Goods
  BY CartBounds DEF CartInv, CallKinds
<1>2. After(carts[s], "delete", Empty) = Gone BY DEF After
<1>3. /\ StoreTypes' /\ \A t \in Token \ {s} : carts'[t] = carts[t]
      /\ carts'[s] \in {carts[s], Gone}
      /\ Done(s, "delete", Empty) => carts'[s] = Gone
  BY <1>1, <1>2, UnsureLeaves
<1>4. \A t \in Token : carts'[t] = carts[t] \/ carts'[t] = Gone BY <1>3
<1>5. ASSUME strays' \subseteq {"left"}, NEW t \in Token, NEW w \in Wares
      PROVE  Count(carts'[t], w) <= MaxPieces
  <2>1. Count(carts[t], w) <= MaxPieces BY <1>5 DEF CartInv, NotTwice
  <2>2. Count(Gone, w) <= MaxPieces BY GoneHoldsNothing, CartBounds
  <2>3. QED BY <1>4, <2>1, <2>2
<1>6. QED BY <1>3, <1>4, <1>5

LEMMA DropCartKeeps == ASSUME CartInv, DropCart PROVE CartInv'
<1> DEFINE k == deal.mind.cart
           m == Fresh(deal.mind, 0, Empty)
<1>1. /\ deal.pc = "drop" /\ UNCHANGED <<told, richest, deals, kept, tokens>>
      /\ strays \subseteq strays' /\ Unsure(k, "delete", Empty)
      /\ \/ Done(k, "delete", Empty) /\ deal' = [deal EXCEPT !.pc = "keep", !.mind = m]
         \/ deal' = [deal EXCEPT !.pc = "keep", !.mind = deal.mind]
  BY DEF DropCart, Still, Conclude, Answered, Slip, Fail, Unsure, OldCart, Fresh
<1>2. k # 0 /\ deal.new = 0 BY <1>1 DEF CartInv, DealSound, Building, Over
<1>3. k \in Token /\ k <= tokens /\ tokens' \in tokens..MaxTokens BY <1>1, <1>2, DealFacts
<1>4. m \in Minds /\ m.some /\ m.cart = 0
  <2>1. deal.mind \in Minds /\ deal.mind.some /\ 0 \in Nat /\ Empty \in Goods
    BY DealFacts, CartBounds
  <2>2. QED BY <2>1, Unreviewed
<1>5. strays \subseteq {"several"} => \A s \in Token : carts[s] \notin {Gone, Empty} => s = k
  BY <1>1, <1>2 DEF CartInv, OthersAreEmpty, Filled, Current, Building
<1>6. /\ StoreTypes' /\ \A t \in Token \ {k} : carts'[t] = carts[t]
      /\ Done(k, "delete", Empty) => carts'[k] = Gone
      /\ strays' \subseteq {"left"} =>
           \A t \in Token : \A w \in Wares : Count(carts'[t], w) <= MaxPieces
  BY <1>1, <1>3, DeletionLeaves
<1> HIDE DEF m
<1>7. CASE Done(k, "delete", Empty) /\ deal' = [deal EXCEPT !.pc = "keep", !.mind = m]
  <2>1. strays' \subseteq {"several"} => \A s \in Token : carts'[s] \notin {Gone, Empty} => s = m.cart
    BY <1>1, <1>5, <1>6, <1>7
  <2>2. m.cart <= tokens' BY <1>1, <1>4, DealFacts
  <2>3. QED BY <1>1, <1>2, <1>3, <1>4, <1>6, <1>7, <2>1, <2>2, ConcludeKeeps
<1>8. CASE deal' = [deal EXCEPT !.pc = "keep", !.mind = deal.mind]
  <2>1. strays' \subseteq {"several"} => \A s \in Token : carts'[s] \notin {Gone, Empty} => s = k
    BY <1>1, <1>3, <1>5, <1>6
  <2>2. k <= tokens' BY <1>1, <1>3
  <2>3. QED BY <1>1, <1>2, <1>3, <1>6, <1>8, <2>1, <2>2, DealFacts, ConcludeKeeps
<1>9. QED BY <1>1, <1>7, <1>8

\* While the second cart is built.
LEMMA CopyKeeps ==
  ASSUME CartInv, NEW w \in Wares, Copy(w) PROVE CartInv'
<1> DEFINE k == deal.mind.cart
           n == deal.new
<1>1. /\ deal.pc = "copy" /\ w \in deal.todo
      /\ UNCHANGED <<told, richest, kept, tokens, deals, strays>>
      /\ Unsure(n, "post", Only(w))
  BY DEF Copy, Still, Onward, Answered, Slip, Fail, Unsure
<1>2. k # 0 /\ n # 0 /\ n # k /\ deal.at # {} BY <1>1 DEF CartInv, DealSound, Building, Over
<1>3. k \in Token /\ n \in Token /\ n <= tokens BY <1>2, DealFacts
<1>4. deal.want \in Goods /\ "post" \in CallKinds /\ StoreTypes
  BY DealFacts DEF CallKinds, CartInv
<1>5. Only(w) \in Goods /\ Only(w)[w] = deal.want[w] /\ \A v \in Wares : v # w => Only(w)[v] = 0
  BY <1>4, OnlyOne
<1>6. /\ StoreTypes' /\ \A t \in Token \ {n} : carts'[t] = carts[t]
      /\ carts'[n] \in {carts[n], After(carts[n], "post", Only(w))}
  BY <1>1, <1>3, <1>4, <1>5, UnsureLeaves
<1>7. ASSUME NEW v \in Wares
      PROVE  /\ Count(carts'[n], v) \in Nat /\ Count(carts[n], v) \in Nat /\ Only(w)[v] \in Nat
             /\ Count(carts'[n], v) <= Count(carts[n], v) + Only(w)[v]
  <2>1. carts[n] \in Goods /\ carts'[n] \in Goods BY <1>3, <1>4, <1>6 DEF StoreTypes
  <2>2. Count(carts'[n], v) \in Nat /\ Count(carts[n], v) \in Nat /\ Only(w)[v] \in Nat
    BY <1>5, <2>1, CountIsNat DEF Goods
  <2>3. Count(After(carts[n], "post", Only(w)), v) <= Count(carts[n], v) + Only(w)[v]
    BY <1>5, <2>1, AfterCounts
  <2>4. CASE carts'[n] = carts[n] BY <2>2, <2>4
  <2>5. CASE carts'[n] = After(carts[n], "post", Only(w)) BY <2>2, <2>3, <2>5
  <2>6. QED BY <1>6, <2>2, <2>4, <2>5
<1>8. ASSUME strays \subseteq {"left"}
      PROVE  /\ \A s \in Token : \A v \in Wares : Count(carts'[s], v) <= MaxPieces
             /\ \A v \in deal.todo \ {w} : Count(carts'[n], v) = 0
  <2>1. /\ \A s \in Token : \A v \in Wares : Count(carts[s], v) <= MaxPieces
        /\ \A v \in deal.todo : Count(carts[n], v) = 0
        /\ deal.want[w] <= MaxPieces
    BY <1>1, <1>8 DEF CartInv, NotTwice
  <2>2. MaxPieces \in Nat /\ deal.todo \subseteq Wares BY DealFacts, CartBounds
  <2>3. ASSUME NEW v \in Wares PROVE Count(carts'[n], v) <= MaxPieces
    <3>1. CASE v = w
      <4>1. Count(carts[n], v) = 0 /\ Only(w)[v] <= MaxPieces BY <1>1, <1>5, <2>1, <3>1
      <4>2. QED BY <1>7, <2>2, <4>1
    <3>2. CASE v # w
      <4>1. Count(carts[n], v) <= MaxPieces /\ Only(w)[v] = 0 BY <1>3, <1>5, <2>1, <3>2
      <4>2. QED BY <1>7, <2>2, <4>1
    <3>3. QED BY <3>1, <3>2
  <2>4. ASSUME NEW v \in deal.todo \ {w} PROVE Count(carts'[n], v) = 0
    <3>1. v \in Wares /\ Count(carts[n], v) = 0 /\ Only(w)[v] = 0 BY <1>5, <2>1, <2>2
    <3>2. QED BY <1>7, <3>1
  <2>5. QED BY <1>6, <2>1, <2>3, <2>4
<1>9. /\ deal' \in Deals /\ deal'.want = deal.want /\ deal'.at = deal.at /\ deal'.new = n
      /\ deal'.mind = deal.mind
      /\ deal'.pc \in {"copy", "compare", "undo"}
      /\ deal'.pc = "copy" => deal'.todo = deal.todo \ {w}
  <2>1. CASE On("undo") BY <2>1, DealFacts, NewPc DEF On, DealPcs
  <2>2. CASE deal' = [deal EXCEPT !.todo = @ \ {w},
                                 !.pc = IF deal.todo = {w} THEN "compare" ELSE "copy"]
    <3> DEFINE a == [deal EXCEPT !.todo = deal.todo \ {w}]
               p == IF deal.todo = {w} THEN "compare" ELSE "copy"
    <3>1. deal' = [a EXCEPT !.pc = p] BY <2>2
    <3>2. /\ a \in Deals /\ a.want = deal.want /\ a.at = deal.at /\ a.new = n /\ a.mind = deal.mind
          /\ a.todo = deal.todo \ {w}
      BY DealFacts, NewTodo
    <3>3. p \in DealPcs /\ p \in {"copy", "compare"} BY DEF DealPcs
    <3> HIDE DEF a, p
    <3>4. QED BY <3>1, <3>2, <3>3, NewPc
  <2>3. QED BY <2>1, <2>2 DEF Copy
<1>10. MindTypes'
  <2>1. /\ tokens' \in tokens..MaxTokens /\ deal'.mind.cart <= tokens' /\ deal'.new <= tokens'
        /\ deal'.mind.some
    BY <1>1, <1>9, DealFacts
  <2>2. QED BY <1>1, <1>9, <2>1, MindTypesStay
<1>11. DealSound' BY <1>2, <1>9 DEF DealSound, Building, Over
<1>12. OneIsFull'
  <2>1. "late" \notin strays => HasOthers(carts[k], deal) BY <1>1 DEF CartInv, OneIsFull
  <2>2. carts'[k] = carts[k] BY <1>2, <1>3, <1>6
  <2>3. QED BY <1>1, <1>9, <2>1, <2>2 DEF OneIsFull, HasOthers, Over
<1>13. OthersAreEmpty'
  <2>1. strays \subseteq {"several"} =>
          \A s \in Token : carts[s] \notin {Gone, Empty} => s = k \/ s = n
    BY <1>1 DEF CartInv, OthersAreEmpty, Filled, Current
  <2>2. deal'.pc \in Building BY <1>9 DEF Building
  <2>3. deal'.pc # "idle" BY <1>9
  <2>4. QED BY <1>1, <1>6, <1>9, <2>1, <2>2, <2>3 DEF OthersAreEmpty, Filled, Current
<1>14. NotTwice' BY <1>1, <1>8, <1>9 DEF CartInv, NotTwice
<1>15. QED BY <1>6, <1>10, <1>11, <1>12, <1>13, <1>14 DEF CartInv

LEMMA CompareKeeps == ASSUME CartInv, Compare PROVE CartInv'
<1> DEFINE k == deal.mind.cart
           n == deal.new
<1>1. deal.pc = "compare" /\ UNCHANGED <<told, richest, kept, tokens, deals, carts, afloat>>
  BY DEF Compare, Still, Onward, Spare, storeVars
<1>2. k # 0 /\ n # 0 /\ n # k /\ deal.at # {} BY <1>1 DEF CartInv, DealSound, Building, Over
<1>3. k \in Token /\ n \in Token BY <1>2, DealFacts
<1>4. \E pc \in {"discard", "undo"} :
        /\ On(pc) /\ strays \subseteq strays'
        /\ pc = "discard" /\ "late" \notin strays' => carts[n] = Without
  <2>1. CASE Slip /\ On("undo") BY <2>1 DEF Slip, Fail
  <2>2. ASSUME NEW c \in Readings(n), Reads(n, c, {"late"}),
               On(IF c = Without THEN "discard" ELSE "undo")
        PROVE  \E pc \in {"discard", "undo"} :
                 /\ On(pc) /\ strays \subseteq strays'
                 /\ pc = "discard" /\ "late" \notin strays' => carts[n] = Without
    <3>1. strays \subseteq strays' /\ (c = carts[n] \/ "late" \in strays')
      BY <1>3, <2>2, ReadFactsOf
    <3>2. CASE c = Without
      <4>1. On("discard") BY <2>2, <3>2
      <4>2. QED BY <3>1, <3>2, <4>1
    <3>3. CASE c # Without
      <4>1. On("undo") BY <2>2, <3>3
      <4>2. QED BY <3>1, <4>1
    <3>4. QED BY <3>2, <3>3
  <2>3. QED BY <2>1, <2>2 DEF Compare
<1>5. PICK pc \in {"discard", "undo"} :
        /\ On(pc) /\ strays \subseteq strays'
        /\ pc = "discard" /\ "late" \notin strays' => carts[n] = Without
  BY <1>4
<1>6. /\ deal' \in Deals /\ deal'.want = deal.want /\ deal'.at = deal.at /\ deal'.new = n
      /\ deal'.mind = deal.mind /\ deal'.pc = pc
  BY <1>5, DealFacts, NewPc DEF On, DealPcs
<1>7. StoreTypes' BY <1>1 DEF CartInv, StoreTypes
<1>8. MindTypes'
  <2>1. /\ tokens' \in tokens..MaxTokens /\ deal'.mind.cart <= tokens' /\ deal'.new <= tokens'
        /\ deal'.mind.some
    BY <1>1, <1>6, DealFacts
  <2>2. QED BY <1>1, <1>6, <2>1, MindTypesStay
<1>9. DealSound' BY <1>2, <1>5, <1>6 DEF DealSound, Building, Over
<1>10. OneIsFull'
  <2>1. "late" \notin strays => HasOthers(carts[k], deal) BY <1>1 DEF CartInv, OneIsFull
  <2>2. ASSUME carts[n] = Without PROVE HasOthers(carts[n], deal)
    <3>1. PICK x \in deal.at : x \in Wares BY <1>2, DealFacts
    <3>2. carts[n] = [w \in Wares |-> IF w \in deal.at THEN 0 ELSE deal.want[w]]
      BY <2>2 DEF Without
    <3>3. carts[n][x] = 0 /\ Gone[x] = 99 BY <3>1, <3>2 DEF Gone
    <3>4. carts[n] # Gone BY <3>3
    <3>5. QED BY <3>2, <3>4 DEF HasOthers, Count
  <2>3. "late" \notin strays' => "late" \notin strays BY <1>5
  <2>4. QED BY <1>1, <1>5, <1>6, <2>1, <2>2, <2>3 DEF OneIsFull, HasOthers, Over
<1>11. OthersAreEmpty'
  <2>1. strays' \subseteq {"several"} => strays \subseteq {"several"} BY <1>5
  <2>2. QED BY <1>1, <1>5, <1>6, <2>1 DEF CartInv, OthersAreEmpty, Filled, Current, Building
<1>12. NotTwice'
  <2>1. strays' \subseteq {"left"} => strays \subseteq {"left"} BY <1>5
  <2>2. QED BY <1>1, <1>5, <1>6, <2>1 DEF CartInv, NotTwice
<1>13. QED BY <1>7, <1>8, <1>9, <1>10, <1>11, <1>12 DEF CartInv
-----------------------------------------------------------------------------
\* A cart is given up, done or not: the other is full, and is the one the
\* conversation goes on with.
LEMMA BestEffortKeeps ==
  ASSUME CartInv, NEW pc \in {"undo", "discard"}, NEW s \in Token, NEW m \in Minds, m.some,
         BestEffort(pc, s, m), m.cart \in Token, m.cart <= tokens, s <= tokens, s # m.cart,
         "late" \notin strays => HasOthers(carts[m.cart], deal),
         {s, m.cart} = {deal.mind.cart, deal.new}
  PROVE  CartInv'
<1>1. /\ deal.pc = pc /\ UNCHANGED <<told, richest, deals, kept, tokens>>
      /\ deal' = [deal EXCEPT !.pc = "keep", !.mind = m]
      /\ Unsure(s, "delete", Empty) /\ strays \subseteq strays'
      /\ Done(s, "delete", Empty) \/ "left" \in strays'
  BY DEF BestEffort, Still, Conclude, Answered, Slip, Fail, Unsure
<1>2. /\ StoreTypes' /\ \A t \in Token \ {s} : carts'[t] = carts[t]
      /\ Done(s, "delete", Empty) => carts'[s] = Gone
      /\ \A t \in Token : carts'[t] = carts[t] \/ carts'[t] = Gone
      /\ strays' \subseteq {"left"} =>
           \A t \in Token : \A w \in Wares : Count(carts'[t], w) <= MaxPieces
  BY <1>1, DeletionLeaves
<1>3. carts'[m.cart] = carts[m.cart] BY <1>2
<1>4. strays' \subseteq {"several"} => \A t \in Token : carts'[t] \notin {Gone, Empty} => t = m.cart
  <2>1. strays' \subseteq {"several"} => Done(s, "delete", Empty) /\ strays \subseteq {"several"}
    BY <1>1
  <2>2. strays \subseteq {"several"} =>
          \A t \in Token : carts[t] \notin {Gone, Empty} => t \in {deal.mind.cart, deal.new}
    BY <1>1 DEF CartInv, OthersAreEmpty, Filled, Current
  <2>3. QED BY <1>2, <2>1, <2>2
<1>5. tokens' \in tokens..MaxTokens /\ m.cart # 0 /\ m.cart <= tokens' BY <1>1, DealFacts DEF Token
<1>6. "late" \notin strays' => HasOthers(carts'[m.cart], deal) BY <1>1, <1>3
<1>7. QED BY <1>1, <1>2, <1>4, <1>5, <1>6, ConcludeKeeps

LEMMA UndoKeeps == ASSUME CartInv, Undo PROVE CartInv'
<1>1. deal.pc = "undo" BY DEF Undo, BestEffort
<1>2. /\ deal.mind.cart # 0 /\ deal.new # 0 /\ deal.new # deal.mind.cart
      /\ "late" \notin strays => HasOthers(carts[deal.mind.cart], deal)
  BY <1>1 DEF CartInv, DealSound, OneIsFull, Building, Over
<1>3. /\ deal.new \in Token /\ deal.mind.cart \in Token /\ deal.mind \in Minds /\ deal.mind.some
      /\ deal.new <= tokens /\ deal.mind.cart <= tokens
  BY <1>2, DealFacts
<1>4. BestEffort("undo", deal.new, deal.mind) BY DEF Undo
<1>5. QED BY <1>2, <1>3, <1>4, BestEffortKeeps

LEMMA DiscardKeeps == ASSUME CartInv, Discard PROVE CartInv'
<1>1. deal.pc = "discard" BY DEF Discard, BestEffort
<1>2. /\ deal.mind.cart # 0 /\ deal.new # 0 /\ deal.new # deal.mind.cart
      /\ "late" \notin strays => HasOthers(carts[deal.new], deal)
  BY <1>1 DEF CartInv, DealSound, OneIsFull, Building, Over
<1>3. /\ deal.new \in Token /\ deal.mind.cart \in Token
      /\ deal.new <= tokens /\ deal.mind.cart <= tokens
  BY <1>2, DealFacts
<1>4. Moved \in Minds /\ Moved.some /\ Moved.cart = deal.new
  <2>1. /\ deal.mind \in Minds /\ deal.mind.some /\ deal.new \in Nat /\ deal.want \in Goods
    BY DealFacts
  <2>2. Without \in Goods BY <2>1 DEF Without, Goods
  <2>3. Moved = Fresh(deal.mind, deal.new, Without) BY DEF Moved, Fresh
  <2>4. QED BY <2>1, <2>2, <2>3, Unreviewed
<1>5. BestEffort("discard", deal.mind.cart, Moved) BY DEF Discard, OldCart
<1>6. QED BY <1>2, <1>3, <1>4, <1>5, BestEffortKeeps

\* A call that was given up is done after all.
LEMMA LandsLateKeeps == ASSUME CartInv, NEW c \in afloat, LandsLate(c) PROVE CartInv'
<1>1. /\ afloat' = afloat \ {c} /\ Change(c.s, c.call, c.goods) /\ "late" \in strays'
      /\ UNCHANGED <<told, richest, kept, tokens, deal, deals>>
  BY DEF LandsLate, memoryVars
<1>2. StoreTypes /\ c.s \in Token /\ c.s <= tokens /\ c.call \in CallKinds /\ c.goods \in Goods
  BY DEF CartInv, StoreTypes
<1>3. /\ carts' \in [Token -> Goods] /\ \A t \in Token : t > tokens => carts'[t] = Gone
  BY <1>1, <1>2, ChangeLeaves
<1>4. StoreTypes' BY <1>1, <1>2, <1>3 DEF StoreTypes
<1>5. MindTypes' BY <1>1 DEF CartInv, MindTypes, MemoryTypes
<1>6. DealSound' BY <1>1 DEF CartInv, DealSound
<1>7. OneIsFull' /\ OthersAreEmpty' /\ NotTwice'
  BY <1>1 DEF OneIsFull, OthersAreEmpty, NotTwice
<1>8. QED BY <1>4, <1>5, <1>6, <1>7 DEF CartInv

\* The state is kept, in whichever way.
LEMMA KeepDealKeeps == ASSUME CartInv, KeepDeal PROVE CartInv'
<1>1. /\ deal.pc = "keep" /\ On("reply") /\ UNCHANGED <<told, richest, carts, afloat, tokens, deals>>
      /\ strays' = strays /\ (Keep(deal.mind) \/ KeepBadly(deal.mind))
  BY DEF KeepDeal, storeVars, Answered, Slip, Fail
<1>2. /\ deal' \in Deals /\ deal'.pc = "reply" /\ deal'.new = deal.new /\ deal'.want = deal.want
      /\ deal'.mind = deal.mind /\ deal'.at = deal.at
  BY <1>1, DealFacts, NewPc DEF On, DealPcs
<1>3. MemoryTypes BY DEF CartInv, MindTypes
<1>4. kept' \in Minds /\ Silent(kept') /\ kept'.cart \in {deal.mind.cart, kept.cart}
  BY <1>1, <1>3, DealFacts, KeepKeeps
<1>5. MindTypes'
  <2>1. MemoryTypes' BY <1>1, <1>3, <1>4 DEF MemoryTypes, Silent
  <2>2. kept'.cart <= tokens' BY <1>1, <1>4, DealFacts
  <2>3. QED BY <1>1, <1>2, <2>1, <2>2 DEF CartInv, MindTypes
<1>6. StoreTypes' BY <1>1 DEF CartInv, StoreTypes
<1>7. DealSound' BY <1>1, <1>2 DEF CartInv, DealSound, Building, Over
<1>8. OneIsFull' BY <1>1, <1>2 DEF CartInv, OneIsFull, HasOthers, Over
<1>9. OthersAreEmpty' BY <1>1, <1>2 DEF CartInv, OthersAreEmpty, Filled, Current, Building
<1>10. NotTwice' BY <1>1, <1>2 DEF CartInv, NotTwice
<1>11. QED BY <1>5, <1>6, <1>7, <1>8, <1>9, <1>10 DEF CartInv

\* A cart that was told of is what the next turn knows, if nothing fails.
LEMMA ToldCartStays ==
  ASSUME NEW t \in Minds, NEW r \in Minds, NEW k \in Minds, Silent(t), Silent(r), Silent(k),
         t.cart # 0
  PROVE  [Merge(Merge(t, r), k) EXCEPT !.some = TRUE].cart = t.cart
<1>1. Merge(t, r) \in Minds /\ Silent(Merge(t, r)) /\ Merge(t, r).cart = t.cart BY MergeKeeps
<1>2. Merge(Merge(t, r), k) \in Minds /\ Silent(Merge(Merge(t, r), k))
      /\ Merge(Merge(t, r), k).cart = t.cart
  BY <1>1, MergeKeeps
<1>3. QED BY <1>2, SomeMind

\* The reply that is delivered speaks for the cart of its turn.
LEMMA DeliverDealKeeps == ASSUME CartInv, DeliverDeal PROVE CartInv'
<1>1. /\ deal.pc = "reply" /\ Tell(deal.mind) /\ deal' = NoDeal
      /\ UNCHANGED <<kept, carts, afloat, tokens, deals, strays>>
  BY DEF DeliverDeal, storeVars
<1>2. MemoryTypes BY DEF CartInv, MindTypes
<1>3. told' = deal.mind /\ richest' \in {deal.mind, richest} /\ Silent(told') /\ Silent(richest')
  BY <1>1, <1>2, DealFacts, TellKeeps
<1>4. 0 <= tokens BY DealFacts
<1>5. MindTypes'
  <2>1. MemoryTypes' BY <1>1, <1>2, <1>3, DealFacts DEF MemoryTypes, Silent
  <2>2. told'.cart <= tokens' /\ richest'.cart <= tokens' /\ kept'.cart <= tokens'
    BY <1>1, <1>3, DealFacts
  <2>3. QED BY <1>1, <1>4, <2>1, <2>2, NoDealFacts DEF CartInv, MindTypes
<1>6. StoreTypes' BY <1>1 DEF CartInv, StoreTypes
<1>7. DealSound' /\ OneIsFull' BY <1>1, NoDealFacts DEF DealSound, OneIsFull, Building, Over
<1>8. OthersAreEmpty'
  <2>1. strays \subseteq {"several"} =>
          \A s \in Token : carts[s] \notin {Gone, Empty} => s = deal.mind.cart
    BY <1>1 DEF CartInv, OthersAreEmpty, Filled, Current, Building
  <2>2. deal.mind.cart # 0 => Current' = deal.mind.cart
    <3>1. told' \in Minds /\ richest' \in Minds /\ kept' \in Minds
          /\ Silent(told') /\ Silent(richest') /\ Silent(kept')
      BY <1>5 DEF MindTypes, MemoryTypes, Silent
    <3>2. told'.cart # 0 =>
            [Merge(Merge(told', richest'), kept') EXCEPT !.some = TRUE].cart = told'.cart
      BY <3>1, ToldCartStays
    <3>3. (Remembered("both"))' = [Merge(Merge(told', richest'), kept') EXCEPT !.some = TRUE]
      BY DEF Remembered, ToldSoFar, Merge, Foreign
    <3>4. deal'.pc = "idle" BY <1>1, NoDealFacts
    <3>5. Current' = (Remembered("both"))'.cart BY <3>4 DEF Current
    <3>6. QED BY <1>3, <3>2, <3>3, <3>5
  <2>3. 0 \notin Token BY DEF Token
  <2>4. QED BY <1>1, <2>1, <2>2, <2>3 DEF OthersAreEmpty, Filled
<1>9. NotTwice' BY <1>1, NoDealFacts DEF CartInv, NotTwice
<1>10. QED BY <1>5, <1>6, <1>7, <1>8, <1>9 DEF CartInv

LEMMA PerishKeeps == ASSUME CartInv, Perish PROVE CartInv'
<1>1. /\ deal' = NoDeal /\ deals' \in {deals, deals - 1} /\ strays' = strays \cup {"left"}
      /\ UNCHANGED <<told, richest, kept, carts, afloat, tokens>>
  BY DEF Perish, Fail, memoryVars, storeVars
<1>2. 0 <= tokens BY DealFacts
<1>3. deals' \in Int BY <1>1 DEF CartInv, MindTypes
<1>4. MindTypes' BY <1>1, <1>2, <1>3, NoDealFacts DEF CartInv, MindTypes, MemoryTypes
<1>5. StoreTypes' BY <1>1 DEF CartInv, StoreTypes
<1>6. DealSound' /\ OneIsFull' BY <1>1, NoDealFacts DEF DealSound, OneIsFull, Building, Over
<1>7. OthersAreEmpty' BY <1>1 DEF OthersAreEmpty
<1>8. NotTwice'
  <2>1. strays' \subseteq {"left"} => strays \subseteq {"left"} BY <1>1
  <2>2. QED BY <1>1, <2>1, NoDealFacts DEF CartInv, NotTwice
<1>9. QED BY <1>4, <1>5, <1>6, <1>7, <1>8 DEF CartInv

LEMMA CartStep == CartInv /\ [CartNext]_cartVars => CartInv'
<1> SUFFICES ASSUME CartInv, [CartNext]_cartVars PROVE CartInv' OBVIOUS
<1>1. CASE \E op \in {"add", "set", "remove"} : \E want \in Wishes : Wish(op, want)
  BY <1>1, WishKeeps
<1>2. ASSUME NEW w \in Wares,
             \/ LookInCart(w) \/ SetQuantity(w) \/ Reread(w)
             \/ PostOne(w) \/ Recheck(w) \/ Copy(w)
      PROVE  CartInv'
  BY <1>2, LookInCartKeeps, SetQuantityKeeps, RereadKeeps, PostOneKeeps, RecheckKeeps, CopyKeeps
<1>3. CASE Prepare \/ Verify BY <1>3, PrepareKeeps, VerifyKeeps
<1>4. CASE Snapshot \/ DropCart \/ Compare \/ Undo \/ Discard
  BY <1>4, SnapshotKeeps, DropCartKeeps, CompareKeeps, UndoKeeps, DiscardKeeps
<1>5. CASE KeepDeal \/ DeliverDeal \/ Perish
  BY <1>5, KeepDealKeeps, DeliverDealKeeps, PerishKeeps
<1>6. CASE \E c \in afloat : LandsLate(c) BY <1>6, LandsLateKeeps
<1>7. CASE UNCHANGED cartVars
  <2>1. UNCHANGED <<told, richest, kept, carts, afloat, tokens, deal, deals, strays>>
    BY <1>7 DEF cartVars, memoryVars, storeVars
  <2>2. StoreTypes' /\ MindTypes' /\ DealSound' /\ OneIsFull'
    BY <2>1 DEF CartInv, StoreTypes, MindTypes, MemoryTypes, DealSound, OneIsFull
  <2>3. Current' = Current
    BY <2>1 DEF Current, Remembered, ToldSoFar, Merge, Foreign
  <2>4. OthersAreEmpty' /\ NotTwice'
    BY <2>1, <2>3 DEF CartInv, OthersAreEmpty, NotTwice, Filled
  <2>5. QED BY <2>2, <2>4 DEF CartInv
<1>8. QED BY <1>1, <1>2, <1>3, <1>4, <1>5, <1>6, <1>7 DEF CartNext, DealStep

\* Every reachable state satisfies the invariant, for any number of things,
\* pieces, sessions, turns, failed and late calls and lagging readings.
THEOREM CartInvariant == CartSpec => []CartInv
<1>1. CartInv /\ [CartNext]_cartVars => CartInv' BY CartStep
<1>2. QED BY <1>1, CartInitially, PTL DEF CartSpec

\* Whatever fails while one thing is taken out, some cart has all the others,
\* as long as the store shows what it has and does nothing late.
THEOREM OthersRemain == CartSpec => []OthersStay
<1>1. CartInv => OthersStay
  <2> SUFFICES ASSUME CartInv, deal.new # 0, "late" \notin strays
               PROVE  \E s \in {OldCart, deal.new} :
                        \A w \in Wares : w \notin deal.at => Held(s, w) = deal.want[w]
    BY DEF OthersStay
  <2>1. deal.pc \in Building \cup Over BY DEF CartInv, DealSound
  <2>2. deal.mind.cart # 0 BY <2>1 DEF CartInv, DealSound, OneIsFull, Building, Over
  <2>3. PICK s \in {deal.mind.cart, deal.new} : HasOthers(carts[s], deal)
    BY <2>1 DEF CartInv, OneIsFull, Building, Over
  <2>4. s \in Token BY <2>2, <2>3, DealFacts
  <2>5. \A w \in Wares : w \notin deal.at => Held(s, w) = deal.want[w]
    BY <2>3, <2>4, HeldIsCount DEF HasOthers
  <2>6. QED BY <2>3, <2>5 DEF OldCart
<1>2. QED BY <1>1, CartInvariant, PTL

\* A second cart is filled only if the first may have been left behind or the
\* store was late.
THEOREM CartsAreOne == CartSpec => []OneCart
<1>1. CartInv => OneCart
  <2> SUFFICES ASSUME CartInv, strays \subseteq {"several"}
               PROVE  Cardinality({s \in Token : Filled(s)} \ {deal.new}) <= 1
    BY DEF OneCart
  <2>1. {s \in Token : Filled(s)} \ {deal.new} \subseteq {Current}
    BY DEF CartInv, OthersAreEmpty
  <2>2. IsFiniteSet({Current}) /\ Cardinality({Current}) = 1 BY FS_Singleton
  <2>3. QED BY <2>1, <2>2, FS_Subset
<1>2. QED BY <1>1, CartInvariant, PTL

\* Lost answers, replies and memories do not put more of one thing into a cart
\* than was asked for.
THEOREM NoneTooMany == CartSpec => []AsManyAsAsked
<1>1. CartInv => AsManyAsAsked BY HeldIsCount DEF CartInv, NotTwice, AsManyAsAsked
<1>2. QED BY <1>1, CartInvariant, PTL

=============================================================================
