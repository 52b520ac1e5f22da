---------------------------- MODULE AssistedOrder ----------------------------
(***************************************************************************)
(* An order placed for the customer in the chat                            *)
(* (commerce/order_service.py, sales/checkout_flow.py).  A review of the   *)
(* cart is shown and remembered by its hash; on the customer's yes the cart*)
(* is read again and, if it is still what was reviewed, an order of it is  *)
(* posted to the store.  A POST without a clear answer is looked up in the *)
(* store's list of orders, and marks the attempt as ambiguous: the next    *)
(* one looks the list up before it posts; a POST given up may still be done*)
(* later.  All that the next turn knows of this one is what CustomerMemory *)
(* says.                                                                   *)
(*                                                                         *)
(* The cart is the conversation's present one; its link lets the customer  *)
(* change it on the site as well.  Freight, address and payment are part of*)
(* what is hashed and count as part of the contents here.                  *)
(***************************************************************************)
EXTENDS CustomerMemory, Sequences

CONSTANTS MaxSales,  \* bound: turns
          MaxEdits,  \* bound: changes on the site
          MaxShocks  \* bound: failed calls, lost replies, crashes and carts forgotten

ASSUME OrderAssumption == MaxSales \in Nat /\ MaxEdits \in Nat /\ MaxShocks \in Nat

VARIABLES basket,  \* the store: what the cart holds
          placed,  \* the store: the contents of the orders
          adrift,  \* orders given up that the store may still make
          sale,    \* the turn
          seen,    \* history: the last review the customer was shown
          sales, edits, shocks,
          excuses  \* history: how the trace of an order may have been lost, or a
                   \* review be remembered that nobody was shown

Store == <<basket, placed, adrift>>
orderVars == <<memoryVars, Store, sale, seen, sales, edits, shocks, excuses>>

\* shows is the review the reply will show.
NoSale == [pc |-> "idle", mind |-> Blank, shows |-> Empty, sent |-> FALSE]

OrderInit ==
  /\ MemoryInit
  /\ basket = Empty /\ placed = <<>> /\ adrift = {} /\ seen = Empty
  /\ sale = NoSale /\ sales = 0 /\ edits = 0 /\ shocks = 0 /\ excuses = {}

\* One piece of one thing is contents enough.
Contents == {[w \in Wares |-> IF w = v THEN 1 ELSE 0] : v \in Wares}

Shock == shocks < MaxShocks /\ shocks' = shocks + 1
Sound == UNCHANGED shocks

\* The turn has its result.
EndTurn(mind) == sale' = [sale EXCEPT !.pc = "keep", !.mind = mind] /\ UNCHANGED kept
GoOn(pc)      == sale' = [sale EXCEPT !.pc = pc] /\ UNCHANGED kept

Rest == UNCHANGED <<told, richest, seen, sales, edits>>

-----------------------------------------------------------------------------
(* The customer writes *)

\* What a turn that starts so may not know, or know and nobody was shown.
Doubts(way, mind) ==
  (IF ReadFails(way) THEN {"unread"} ELSE {})
    \cup (IF way \in {"kept first", "kept only"} \/ (~told.some /\ kept.some) THEN {"adopted"} ELSE {})
    \cup (IF mind.context = sales + 1 THEN {"asked anew"} ELSE {})

Hear(pc) ==
  /\ sale.pc = "idle" /\ sales < MaxSales /\ sales' = sales + 1
  /\ \E way \in Ways : \E mind \in Starts(way, sales + 1) :
       /\ IF Continues(way, mind) THEN Sound ELSE Shock
       /\ sale' = [NoSale EXCEPT !.pc = pc, !.mind = mind]
       /\ excuses' = excuses \cup Doubts(way, mind)
  /\ UNCHANGED <<memoryVars, Store, seen, edits>>

\* A change of the cart in the chat; or on the site.
ChangeInChat(c) ==
  /\ sale.pc = "change" /\ Rest /\ Sound /\ sale.mind.order = 0
  /\ basket' = c
  /\ EndTurn([sale.mind EXCEPT !.cart = 1, !.link = 1, !.items = c, !.review = Empty,
                             !.awaiting = FALSE])
  /\ UNCHANGED <<placed, adrift, excuses>>

ChangeOnSite(c) ==
  /\ edits < MaxEdits /\ edits' = edits + 1
  /\ basket # Empty /\ basket' = c
  /\ UNCHANGED <<memoryVars, placed, adrift, sale, seen, sales, shocks, excuses>>

NotReady(mind)  == [mind EXCEPT !.review = Empty, !.awaiting = FALSE]

\* The cart is shown for review.
Show(mind) ==
  /\ sale' = [sale EXCEPT !.pc = "keep", !.shows = basket,
                         !.mind = [mind EXCEPT !.review = basket, !.awaiting = TRUE]]
  /\ UNCHANGED kept

\* prepare_order.
Review ==
  /\ sale.pc = "review" /\ Rest /\ UNCHANGED <<Store, excuses>>
  /\ \/ Sound /\ sale.mind.cart # 0 /\ basket # Empty /\ Show(sale.mind)
     \/ Sound /\ (sale.mind.cart = 0 \/ basket = Empty) /\ EndTurn(NotReady(sale.mind))
     \/ Shock /\ sale.mind.cart # 0 /\ EndTurn(NotReady(sale.mind))

\* try_commerce_confirmation: a no.
Decline ==
  /\ sale.pc = "no" /\ Rest /\ Sound /\ UNCHANGED <<Store, excuses>>
  /\ EndTurn(IF sale.mind.awaiting THEN NotReady(sale.mind) ELSE sale.mind)

-----------------------------------------------------------------------------
(* A yes: confirm_prepared_order, create_order *)

\* Is there a review to confirm, and no order yet?
Confirm ==
  /\ sale.pc = "yes" /\ Rest /\ Sound /\ UNCHANGED <<Store, excuses>>
  /\ LET m == sale.mind IN
       IF m.awaiting /\ m.review # Empty /\ m.order = 0 THEN GoOn("facts") ELSE EndTurn(m)

\* Variant: the hash is not compared.
ReadFactsUnchecked ==
  /\ sale.pc = "facts" /\ Rest /\ UNCHANGED <<Store, excuses>>
  /\ Sound
  /\ sale' = [sale EXCEPT !.pc = IF sale.mind.ambiguous THEN "preflight" ELSE "post",
                          !.mind.review = basket]
  /\ UNCHANGED kept

\* Is the cart still what was reviewed?
ReadFacts ==
  /\ sale.pc = "facts" /\ Rest /\ UNCHANGED <<Store, excuses>>
  /\ LET m == sale.mind IN
     \/ Sound /\ basket = m.review /\ GoOn(IF m.ambiguous THEN "preflight" ELSE "post")
     \/ Sound /\ basket # m.review /\ Show(m)
     \/ Shock /\ EndTurn(NotReady(m))

Placed(mind, n) ==
  [mind EXCEPT !.order = n, !.review = Empty, !.awaiting = FALSE, !.ambiguous = FALSE]
Failed(mind, doubt) == [mind EXCEPT !.ambiguous = doubt]

\* Variant: where the list cannot be read there is no order.
LookUpBlind(pc) ==
  /\ sale.pc = pc /\ Rest /\ UNCHANGED <<Store, excuses>>
  /\ \/ Sound /\ placed # <<>> /\ EndTurn(Placed(sale.mind, 1))
     \/ Sound /\ placed = <<>> /\ GoOn("post")
     \/ Shock /\ GoOn("post")

\* list_orders, before a second attempt (none found: post) and after an
\* unclear answer (none found: that is still unclear).  A fresh order may not
\* be listed yet.
LookUp(pc) ==
  /\ sale.pc = pc /\ Rest /\ UNCHANGED Store
  /\ LET m == sale.mind
         missing == IF pc = "preflight" THEN GoOn("post") ELSE EndTurn(Failed(m, TRUE)) IN
     \/ Sound /\ placed # <<>> /\ EndTurn(Placed(m, 1)) /\ UNCHANGED excuses
     \/ Sound /\ placed = <<>> /\ missing /\ UNCHANGED excuses
     \/ Shock /\ placed # <<>> /\ missing /\ excuses' = excuses \cup {"unlisted"}
     \/ Shock /\ EndTurn(Failed(m, TRUE)) /\ UNCHANGED excuses

\* The order is made of what was read, which is what was reviewed.
PostOrder ==
  /\ sale.pc = "post" /\ Rest /\ UNCHANGED <<basket, kept>>
  /\ LET m == sale.mind
         made == placed' = Append(placed, m.review) /\ UNCHANGED adrift
         given == adrift' = adrift \cup {[nr |-> shocks, goods |-> m.review]} /\ UNCHANGED placed
         sent(pc, mind) == sale' = [sale EXCEPT !.pc = pc, !.mind = mind, !.sent = TRUE] IN
     \/ Sound /\ made /\ sent("keep", Placed(m, Len(placed) + 1)) /\ UNCHANGED excuses
     \/ Shock /\ (made \/ given) /\ sent("reconcile", m) /\ UNCHANGED excuses  \* no answer, or 502-504
     \/ Shock /\ UNCHANGED <<placed, adrift, excuses>> /\ sent("keep", Failed(m, FALSE))  \* any other error
     \/ Shock /\ (made \/ given) /\ sent("keep", Failed(m, FALSE)) /\ excuses' = excuses \cup {"misled"}

\* What was given up is done after all.
OrderLandsLate(o) ==
  /\ o \in adrift /\ adrift' = adrift \ {o}
  /\ placed' = Append(placed, o.goods) /\ excuses' = excuses \cup {"late"}
  /\ UNCHANGED <<memoryVars, basket, sale, seen, sales, edits, shocks>>

-----------------------------------------------------------------------------
(* The reply *)

KeepTurn ==
  /\ sale.pc = "keep" /\ sale' = [sale EXCEPT !.pc = "answer"]
  /\ \/ Sound /\ Keep(sale.mind)
     \/ Shock /\ KeepBadly(sale.mind)
  /\ UNCHANGED <<told, richest, Store, seen, sales, edits, excuses>>

Answer ==
  /\ sale.pc = "answer"
  /\ Tell(sale.mind) /\ sale' = NoSale
  /\ seen' = IF sale.shows = Empty THEN seen ELSE sale.shows
  /\ UNCHANGED <<kept, Store, sales, edits, shocks, excuses>>

\* The reply is not delivered, or the process dies before: an order posted in
\* this turn is only known if it was kept.
GoSilent ==
  /\ sale.pc # "idle" /\ Shock
  /\ excuses' = IF sale.sent /\ kept.order = 0 THEN excuses \cup {"forgotten"} ELSE excuses
  /\ sale' = NoSale /\ sales' \in {sales, sales - 1}
  /\ UNCHANGED <<memoryVars, Store, seen, edits>>

OrderNext ==
  \/ \E pc \in {"change", "review", "yes", "no"} : Hear(pc)
  \/ \E c \in Contents : ChangeInChat(c) \/ ChangeOnSite(c)
  \/ Review \/ Decline \/ Confirm \/ ReadFacts \/ PostOrder
  \/ LookUp("preflight") \/ LookUp("reconcile")
  \/ KeepTurn \/ Answer \/ GoSilent
  \/ \E o \in adrift : OrderLandsLate(o)

OrderSpec == OrderInit /\ [][OrderNext]_orderVars

-----------------------------------------------------------------------------
(* Properties *)

\* What is ordered is what the customer was last shown for review, whoever
\* changed the cart meanwhile, unless a turn took its state from the durable
\* session, which knows reviews whose reply was lost (nothing was delivered yet,
\* the delivered states could not be read, or the session went first), or an
\* order given up was made after all.
OrderAsReviewed ==
  [][Len(placed') > Len(placed) /\ excuses' \cap {"adopted", "late"} = {}
       => placed'[Len(placed')] = seen]_placed

\* A second order is made only if the first one's trace was lost: the reply of
\* that turn perished and its order was not kept, what was delivered or kept
\* could not be read or was not what the turn went by, the customer asked anew,
\* or the store called the order refused, did not list it, or made it late.
SecondOrderNeedsCause == Len(placed) > 1 => excuses # {}

=============================================================================
