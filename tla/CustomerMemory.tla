--------------------------- MODULE CustomerMemory ---------------------------
(***************************************************************************)
(* What a turn knows of the purchase so far.  A turn ends with a state,    *)
(* which goes two ways: into the customer's durable session                *)
(* (ai_customer_commerce_sessions, core/db.py) before the reply is sent,   *)
(* and with the reply's record, which counts once the reply was delivered. *)
(* The next turn starts from the last state delivered, takes what that     *)
(* lacks from the richest of those delivered before it, and then from the  *)
(* durable session (memory/context_resume.py).  Only some fields are taken *)
(* over so, unless there is nothing to start from; a read that fails finds *)
(* nothing.  Before the turn is thought about, a cart that is old or       *)
(* orphaned is forgotten, and everything for a new request                 *)
(* (message_pipeline.py).                                                  *)
(***************************************************************************)
EXTENDS Naturals

CONSTANT Wares  \* what a cart may hold

VARIABLES told,    \* state of the last delivered reply
          richest, \* of the delivered ones, the one with the most to resume
          kept     \* the durable session

memoryVars == <<told, richest, kept>>

Empty == [w \in Wares |-> 0]  \* the contents of an empty cart

\* cart and link (cart_url) are sessions of the store, order is its number of
\* an order, 0 for none; items and review are contents.  context is the message
\* a new request began with (commercial_context_id), cleared that a cart was
\* forgotten (checkout_context_cleared_at).
Blank == [some |-> TRUE, context |-> 0, cleared |-> FALSE,
          cart |-> 0, link |-> 0, items |-> Empty, order |-> 0,
          awaiting |-> FALSE, review |-> Empty, ambiguous |-> FALSE]
Nothing == [Blank EXCEPT !.some = FALSE]  \* no state: {}

MemoryInit == told = Nothing /\ richest = Nothing /\ kept = Nothing

\* commerce_state_resumable_score, of these fields.
Score(s) ==
  (IF s.order # 0 THEN 100 ELSE 0) + (IF s.cart # 0 THEN 20 ELSE 0)
    + (IF s.awaiting THEN 10 ELSE 0)

Foreign(base, donor) ==
  \/ base.context # 0 /\ base.context # donor.context
  \/ base.order # 0 /\ donor.order # 0 /\ base.order # donor.order

\* merge_commerce_states, for one purchase that is not finished.
Merge(base, donor) ==
  IF ~donor.some THEN base
  ELSE IF ~base.some THEN donor
  ELSE IF Foreign(base, donor) THEN base
  ELSE [base EXCEPT
         !.cart     = IF @ = 0 /\ ~base.cleared THEN donor.cart ELSE @,
         !.link     = IF @ = 0 /\ ~base.cleared THEN donor.link ELSE @,
         !.order    = IF @ = 0 THEN donor.order ELSE @,
         !.awaiting = @ \/ (donor.awaiting /\ ~base.cleared)]

-----------------------------------------------------------------------------
(* The start of a turn *)

\* load_commerce_conversation_state.  Either read may fail.  The durable session
\* goes first where it says that what was browsed is to be forgotten and the
\* delivered states show nothing browsed since.
ToldSoFar == Merge(told, richest)

Ways == {"both", "kept first", "told only", "kept only", "neither"}
ReadFails(way) == way \in {"told only", "kept only", "neither"}

Remembered(way) ==
  [(CASE way = "both"       -> Merge(ToldSoFar, kept)
      [] way = "kept first" -> Merge(kept, ToldSoFar)
      [] way = "told only"  -> ToldSoFar
      [] way = "kept only"  -> kept
      [] way = "neither"    -> Nothing) EXCEPT !.some = TRUE]

\* reconcile_checkout_context, _reconcile_cart_handles: a cart that is too old,
\* or a checkout nothing is left of.
MayExpire(m) == m.order = 0 /\ ~m.ambiguous /\ (m.cart # 0 \/ m.items = Empty)
Expired(m) ==
  [m EXCEPT !.cart = 0, !.link = 0, !.items = Empty, !.awaiting = FALSE,
            !.review = Empty, !.cleared = TRUE]

\* reset_for_new_request, with message n.
Renewed(n) == [Blank EXCEPT !.context = n]

\* What the turn of message n may start with.
Starts(way, n) ==
  LET m == Remembered(way)
  IN  {m, Renewed(n)} \cup (IF MayExpire(m) THEN {Expired(m)} ELSE {})

\* Nothing was forgotten and no read failed.
Continues(way, mind) == way = "both" /\ mind = Remembered(way)

-----------------------------------------------------------------------------
(* The end of a turn *)

\* persist_customer_commerce_session: what is kept takes over what it lacks from
\* what was kept.  Where there is nothing to resume it may not be written.
Keep(s) ==
  \/ kept' = Merge(s, kept)
  \/ Score(Merge(s, kept)) = 0 /\ UNCHANGED kept

\* The errors are swallowed: what was kept cannot be read, or nothing be written.
KeepBadly(s) == kept' = s \/ UNCHANGED kept

\* The reply of a turn that ended with s is delivered and recorded.
Tell(s) ==
  /\ told' = s
  /\ richest' = IF Score(s) >= Score(richest) THEN s ELSE richest

=============================================================================
