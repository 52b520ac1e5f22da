----------------------------- MODULE CallBudget -----------------------------
(* The model calls a turn may make (app/ops/turn_runtime.py), as spent by   *)
(* the gateway that tries the Responses API and falls back to Chat          *)
(* Completions (app/llm/openai_gateway.py), and the review of the draft     *)
(* that must still be paid for (app/verify/response_critique.py).  A turn   *)
(* waits for one call before it makes the next.                             *)
EXTENDS Naturals, Sequences

CONSTANTS Limits,     \* agent_max_llm_calls_per_turn, as published
          ComplexCap, \* agent_max_llm_calls_per_turn_complex
          MaxRetries  \* agent_critique_max_retries

ASSUME BudgetAssumption ==
  /\ Limits \subseteq Nat \ {0}
  /\ ComplexCap \in Nat
  /\ MaxRetries \in Nat

\* call_type; "optional" is any but these ("decision", "product_selection", ...).
CallTypes == {"optional", "judge", "response_composition", "clarification"}
\* reserved_call_types: alternative ways to make the reply.
Reserved == {"response_composition", "clarification"}

VARIABLES limit,    \* llm_budget.max_calls (enforce is set)
          used,     \* llm_budget.used_calls
          taken,    \* llm_budget.reserved_used
          attempts, \* openai_transport_attempts
          reasons,  \* llm_call_reasons
          call,     \* the call in flight
          review,   \* where the review of the draft stands
          mode,     \* critique_mode
          round     \* its attempt

budgetVars == <<limit, used, taken, attempts, reasons, call, review, mode, round>>

Reservations == [type : CallTypes, via : {"responses", "chat"}, attempt : Nat]

NoCall == [via |-> "none", type |-> "optional", before |-> 0]

Quiet == call.via = "none"

BudgetInit ==
  /\ limit \in Limits /\ used = 0 /\ taken = {} /\ attempts = 0 /\ reasons = <<>>
  /\ call = NoCall /\ review = "none" /\ mode = "off" /\ round = 0

-----------------------------------------------------------------------------
(* The budget                                                               *)

\* Variant: no call is held back.
HoldNothing(t, asked, max) == 0

\* LLMCallBudget.reserve: one call is held back for the reply until a reply
\* was asked for, unless there is only one.
Hold(t, asked, max) == IF asked = {} /\ t \notin Reserved /\ max >= 2 THEN 1 ELSE 0

Fits(t, n, asked, max) == n + Hold(t, asked, max) < max

\* can_afford: the calls one after the other, on a copy.
CanAfford(calls, asked, max) ==
  \A i \in 1..Len(calls) :
    Fits(calls[i], used + i - 1, asked \cup (Reserved \cap {calls[j] : j \in 1..(i-1)}), max)

\* The ceiling of HTTP attempts, which are never given back.
HasTransport == attempts < 2 * limit

\* register_openai_call would let the call through.
Admits(t) == HasTransport /\ Fits(t, used, taken, limit)

\* register_openai_call, with n calls used, the reserved types `asked` used and
\* the reservations `stack`.
Register(t, via, n, asked, stack) ==
  /\ used' = n + 1
  /\ taken' = asked \cup ({t} \cap Reserved)
  /\ attempts' = attempts + 1
  /\ reasons' = Append(stack, [type |-> t, via |-> via, attempt |-> attempts + 1])
  /\ call' = [via |-> via, type |-> t, before |-> attempts]

\* promote_budget: the ceiling is only raised.
Raised == IF limit < ComplexCap THEN ComplexCap ELSE limit

\* Variant: a failed attempt stays counted.
RefundNothing(t, before) == FALSE

\* release_failed_openai_attempt gives back the last reservation if it is of
\* this very type (the fall-back's has a suffix) and younger than the call.
Refundable(t, before) ==
  /\ reasons # <<>>
  /\ LET last == reasons[Len(reasons)] IN
       last.type = t /\ last.via = "responses" /\ last.attempt > before

-----------------------------------------------------------------------------
(* A call                                                                   *)

\* What the end of a call means to the review.  An approved draft, a review
\* that ends in an error and a repair that yields nothing end it.
Follow(ok) ==
  CASE review = "judging"   -> /\ review' \in IF ok THEN {"done", "rejected"} ELSE {"done"}
                               /\ UNCHANGED <<limit, mode, round>>
    [] review = "repairing" -> /\ review' = IF ok THEN "drafted" ELSE "done"
                               /\ round' = IF ok THEN round + 1 ELSE round
                               /\ UNCHANGED <<limit, mode>>
    [] OTHER                -> UNCHANGED <<limit, review, mode, round>>

\* What is left of the budget when the last reservation is given back.
Returned(t, before) ==
  IF Refundable(t, before)
  THEN [used |-> used - 1, taken |-> taken \ {t}, reasons |-> SubSeq(reasons, 1, Len(reasons) - 1)]
  ELSE [used |-> used, taken |-> taken, reasons |-> reasons]

\* _mark_fallback leaves room for the same call by Chat Completions; nothing
\* happens between giving the reservation back and the new one.
FitsAgain(t, before) ==
  LET back == Returned(t, before) IN HasTransport /\ Fits(t, back.used, back.taken, limit)

Again(t, before) ==
  LET back == Returned(t, before) IN
  FitsAgain(t, before) /\ Register(t, "chat", back.used, back.taken, back.reasons)

\* A call goes out: by the primary, or by Chat Completions when the primary
\* fails before it has registered (a switch, a payload it cannot build).
Begin(t) ==
  \/ Admits(t) /\ Register(t, "responses", used, taken, reasons)
  \/ Again(t, attempts)

\* The work of a turn before its draft: reading, ranking, answering.
Work ==
  /\ review = "none" /\ Quiet
  /\ \E t \in CallTypes : Begin(t)
  /\ UNCHANGED <<limit, review, mode, round>>

\* A photo, a comparison: door_media, prepare_catalog_budget.
Promote ==
  /\ review = "none" /\ Quiet
  /\ limit' = Raised
  /\ UNCHANGED <<used, taken, attempts, reasons, call, review, mode, round>>

\* The answer of either transport; "not ok" is a refusal, an incomplete or
\* unreadable answer, a rate limit, or an error with no fall-back left.
CallEnds ==
  /\ ~Quiet
  /\ call' = NoCall
  /\ \E ok \in BOOLEAN : Follow(ok)
  /\ UNCHANGED <<used, taken, attempts, reasons>>

\* The primary failed in a way that Chat Completions may not; a call the
\* budget refuses has failed.
FallBack ==
  /\ call.via = "responses"
  /\ IF FitsAgain(call.type, call.before)
     THEN Again(call.type, call.before) /\ UNCHANGED <<limit, review, mode, round>>
     ELSE LET back == Returned(call.type, call.before) IN
          /\ used' = back.used /\ taken' = back.taken /\ reasons' = back.reasons
          /\ call' = NoCall /\ UNCHANGED attempts /\ Follow(FALSE)

-----------------------------------------------------------------------------
(* The review of the draft: _run_response_critique_loop                     *)

\* The draft is the reply from now on (response_available).  Planned is the
\* whole correction, or the first judgement alone if the correction does not
\* fit; a draft that failed a deterministic check comes with its verdict.
BeginReview(m, seeded) ==
  LET repair == m = "enforce" /\ MaxRetries > 0
      max == IF repair THEN Raised ELSE limit
      planned == (IF seeded THEN <<>> ELSE <<"judge">>)
                   \o (IF repair THEN <<"response_composition", "judge">> ELSE <<>>)
  IN /\ review = "none" /\ Quiet
     /\ mode' = m /\ limit' = max /\ taken' = Reserved
     /\ review' = IF \/ CanAfford(planned, Reserved, max)
                     \/ ~seeded /\ CanAfford(<<"judge">>, Reserved, max)
                  THEN IF seeded THEN "rejected" ELSE "drafted"
                  ELSE "done"
     /\ round' = 1
     /\ UNCHANGED <<used, attempts, reasons, call>>

Judge ==
  /\ review = "drafted" /\ Quiet
  /\ IF CanAfford(<<"judge">>, taken, limit) /\ Admits("judge")
     THEN Begin("judge") /\ review' = "judging"
     ELSE review' = "done" /\ UNCHANGED <<used, taken, attempts, reasons, call>>
  /\ UNCHANGED <<limit, mode, round>>

\* The shop's data is read again and the reply composed anew, only if the new
\* draft can be judged too.  (The ceiling was raised when the review began.)
Repair ==
  /\ review = "rejected" /\ Quiet
  /\ IF /\ mode = "enforce" /\ round <= MaxRetries
        /\ CanAfford(<<"response_composition", "judge">>, taken, limit)
        /\ Admits("response_composition")
     THEN Begin("response_composition") /\ review' = "repairing"
     ELSE review' = "done" /\ UNCHANGED <<used, taken, attempts, reasons, call>>
  /\ UNCHANGED <<limit, mode, round>>

BudgetNext ==
  \/ Work \/ Promote \/ CallEnds \/ FallBack
  \/ \E m \in {"shadow", "enforce"}, seeded \in BOOLEAN : BeginReview(m, seeded)
  \/ Judge \/ Repair

BudgetSpec == BudgetInit /\ [][BudgetNext]_budgetVars

-----------------------------------------------------------------------------
BudgetTypeOK ==
  /\ limit \in Nat \ {0} /\ used \in Nat /\ attempts \in Nat /\ round \in Nat
  /\ taken \subseteq Reserved
  /\ reasons \in Seq(Reservations)
  /\ call \in [via : {"none", "responses", "chat"}, type : CallTypes, before : Nat]
  /\ review \in {"none", "drafted", "judging", "rejected", "repairing", "done"}
  /\ mode \in {"off", "shadow", "enforce"}

\* Whatever a turn has read and ranked, however its calls failed, the call that
\* makes its reply is let through, by the budget of calls and by the ceiling of
\* attempts, unless the turn was given a single call (rerank.py:115, "keep the
\* final call for the grounded generative answer").  That is the plain reply:
\* nothing is held back for an envelope with memory (responder.py:596-631).
ReplyIsFunded ==
  review = "none" /\ Quiet /\ taken = {} /\ limit >= 2 =>
    Admits("response_composition") /\ Admits("clarification")

\* A reply composed again is judged again before it goes out: a repair that
\* falls back to the other transport does not spend the call of its review
\* ("repair_requires_composition_and_review").
RepairIsReviewed == review = "drafted" /\ round > 1 => Admits("judge")

=============================================================================
