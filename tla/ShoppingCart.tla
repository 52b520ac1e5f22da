---------------------------- MODULE ShoppingCart ----------------------------
(***************************************************************************)
(* The cart a conversation keeps in the store (commerce/cart_service.py).  *)
(* The store has carts by session; a session is a token the agent draws.   *)
(* A turn adds goods, sets the quantity of one, or takes one out, which    *)
(* means building a second cart without it and giving up the first.  Every *)
(* call to the store may fail, done or not, and the process may die        *)
(* between two calls.  A call given up may still be done later, and what   *)
(* the store shows of a cart may lag.  A POST adds to what the cart holds. *)
(***************************************************************************)
EXTENDS CustomerMemory, FiniteSets

CONSTANTS MaxTokens,  \* bound: sessions drawn
          MaxPieces,  \* bound: quantity asked of one thing
          MaxDeals,   \* bound: turns
          MaxSlips    \* bound: failed or lagging calls, lost replies, crashes and
                      \* carts forgotten

ASSUME CartAssumption ==
  /\ IsFiniteSet(Wares)
  /\ MaxTokens \in Nat \ {0} /\ MaxPieces \in Nat \ {0} /\ MaxDeals \in Nat /\ MaxSlips \in Nat

VARIABLES carts,  \* the store: the contents of each session's cart
          afloat, \* calls given up that the store may still do
          tokens, \* sessions drawn so far
          deal,   \* the turn
          deals, slips,
          strays  \* history: "several" things were asked for at a time, a cart
                  \* may be "left" behind, the store was "late"

storeVars == <<carts, afloat>>
cartVars == <<memoryVars, storeVars, tokens, deal, deals, slips, strays>>

Token     == 1..MaxTokens
Gone      == [w \in Wares |-> 99]  \* no cart
Filled(s) == carts[s] \notin {Gone, Empty}
Held(s, w) == IF carts[s] = Gone THEN 0 ELSE carts[s][w]
Wanted(b) == {w \in Wares : b[w] > 0}

\* pc is the next call; todo is still to be posted, at is the thing being
\* posted, changed or taken out, goods was posted, read is what the check of the
\* last one found; new is a cart being built, mind the state the turn goes on with.
NoDeal == [pc |-> "idle", op |-> "add", want |-> Empty, todo |-> {}, at |-> {},
           goods |-> Empty, read |-> Gone, new |-> 0, mind |-> Blank]

CartInit ==
  /\ MemoryInit
  /\ carts = [s \in Token |-> Gone] /\ afloat = {}
  /\ tokens = 0 /\ deal = NoDeal /\ deals = 0 /\ slips = 0 /\ strays = {}

-----------------------------------------------------------------------------
(* A call to the store is answered, or fails having done its work or not. *)

Fail(cause) == slips < MaxSlips /\ slips' = slips + 1 /\ strays' = strays \cup cause
Slip        == Fail({})
Answered    == UNCHANGED <<slips, strays>>

Mine == carts[deal.mind.cart]

\* What a cart with contents c is after a call with goods g.
After(c, call, g) ==
  CASE call = "post"   -> [v \in Wares |-> (IF c = Gone THEN 0 ELSE c[v]) + g[v]]
    [] call = "put"    -> [v \in Wares |-> IF c # Gone /\ g[v] > 0 /\ c[v] > 0 THEN g[v] ELSE c[v]]
    [] call = "delete" -> Gone

Change(s, call, g) == carts' = [carts EXCEPT ![s] = After(@, call, g)]
Done(s, call, g)   == Change(s, call, g) /\ UNCHANGED afloat
Given(s, call, g) ==
  /\ afloat' = afloat \cup {[nr |-> slips, s |-> s, call |-> call, goods |-> g]}
  /\ UNCHANGED carts
Unsure(s, call, g) == Done(s, call, g) \/ Given(s, call, g)
Spare == UNCHANGED storeVars

\* What cart s may read as: where that lags, it is not there or one thing is as
\* it was before.
Readings(s) ==
  LET full == IF carts[s] = Gone THEN Empty ELSE carts[s]
  IN  {carts[s], Gone} \cup {[full EXCEPT ![w] = n] : w \in Wares, n \in 0..MaxPieces}

\* Cart s reads as c; cause is what a reading that lags may lead to.
Reads(s, c, cause) == IF c = carts[s] THEN Answered ELSE c \in Readings(s) /\ Fail(cause)

Only(w) == [v \in Wares |-> IF v = w THEN deal.want[v] ELSE 0]

On(pc) == deal' = [deal EXCEPT !.pc = pc]

\* The turn has its result.
Conclude(mind) == deal' = [deal EXCEPT !.pc = "keep", !.mind = mind] /\ UNCHANGED <<kept, tokens>>
Concluded(mind) == Conclude(mind) /\ Spare

\* Only the turn goes on.
Onward == UNCHANGED <<kept, tokens>>
Still == UNCHANGED <<told, richest, deals>>

-----------------------------------------------------------------------------
(* What the customer asks for *)

\* A turn begins.
Free == deal.pc = "idle" /\ deals < MaxDeals
StartDeal(way, mind, alone) ==
  /\ deals' = deals + 1
  /\ IF Continues(way, mind) THEN UNCHANGED slips ELSE slips < MaxSlips /\ slips' = slips + 1
  /\ strays' = strays \cup (IF alone THEN {} ELSE {"several"})
                     \cup (IF Continues(way, mind) THEN {} ELSE {"left"})
  /\ UNCHANGED <<memoryVars, storeVars, tokens>>

\* Variant: things are posted without a look at the cart.
WishAndPost(op, want) ==
  /\ Free /\ op = "add"
  /\ \E way \in Ways : \E mind \in Starts(way, deals + 1) :
       /\ StartDeal(way, mind, Cardinality(Wanted(want)) = 1)
       /\ deal' = [NoDeal EXCEPT !.want = want, !.mind = mind, !.pc = "prepare"]

\* May this be asked of a turn that starts with mind?
Asked(op, want, mind) ==
  LET one == Cardinality(Wanted(want)) = 1 IN
  /\ op = "set" => one /\ mind.cart # 0
  /\ op = "remove" => /\ one /\ mind.cart # 0
                      /\ \A w \in Wanted(want) : want[w] = 1 /\ mind.items[w] > 0

Wish(op, want) ==
  /\ Free
  /\ \E way \in Ways : \E mind \in Starts(way, deals + 1) :
       LET one == Cardinality(Wanted(want)) = 1 IN
       /\ StartDeal(way, mind, one) /\ Asked(op, want, mind)
       /\ deal' = [NoDeal EXCEPT
            !.op = op, !.want = want, !.mind = mind, !.at = IF one THEN Wanted(want) ELSE {},
            !.pc = CASE op = "remove" -> "snap"
                     [] op # "remove" /\ one /\ mind.cart # 0 -> "look"
                     [] OTHER -> "prepare"]

-----------------------------------------------------------------------------
(* One thing, and a cart: _ensure_existing_cart_item *)

Lost(mind) == [mind EXCEPT !.cart = 0, !.link = 0, !.items = Empty]
AsRead(mind, c) == [mind EXCEPT !.link = mind.cart, !.items = c]

LookInCart(w) ==
  /\ deal.pc = "look" /\ w \in deal.at /\ Still
  /\ \/ \E c \in Readings(deal.mind.cart) :
          /\ Reads(deal.mind.cart, c, {"late"})
          /\ \/ /\ c = Gone /\ deal.op = "add"
                /\ deal' = [deal EXCEPT !.pc = "prepare", !.mind = Lost(@)]
                /\ Spare /\ Onward
             \/ c = Gone /\ deal.op = "set" /\ Concluded(Lost(deal.mind))
             \/ c # Gone /\ c[w] = deal.want[w] /\ Concluded(AsRead(deal.mind, c))
             \/ c # Gone /\ c[w] \notin {0, deal.want[w]} /\ On("put") /\ Spare /\ Onward
             \/ c # Gone /\ c[w] = 0 /\ deal.op = "add" /\ On("prepare") /\ Spare /\ Onward
             \/ c # Gone /\ c[w] = 0 /\ deal.op = "set" /\ Concluded(deal.mind)
     \/ Slip /\ Concluded(deal.mind)

SetQuantity(w) ==
  /\ deal.pc = "put" /\ w \in deal.at /\ Still
  /\ \/ /\ Answered /\ Done(deal.mind.cart, "put", Only(w)) /\ On("reread") /\ Onward
     \/ /\ Slip /\ Unsure(deal.mind.cart, "put", Only(w))
        /\ Conclude(deal.mind)

Reread(w) ==
  /\ deal.pc = "reread" /\ w \in deal.at /\ Still
  /\ \/ \E c \in Readings(deal.mind.cart) :
          /\ Reads(deal.mind.cart, c, {})
          /\ Concluded(IF c # Gone /\ c[w] = deal.want[w] THEN AsRead(deal.mind, c) ELSE deal.mind)
     \/ Slip /\ Concluded(deal.mind)

-----------------------------------------------------------------------------
(* Posting: _create_cart_items_checkout_impl *)

\* The products are looked up.  A session drawn here stays with the
\* conversation whatever comes of it (_persist_cart_session).
Prepare ==
  LET fresh == deal.mind.cart = 0
      mind  == IF fresh THEN [deal.mind EXCEPT !.cart = tokens + 1] ELSE deal.mind
  IN
  /\ deal.pc = "prepare" /\ Still /\ Answered /\ Spare /\ UNCHANGED kept
  /\ fresh => tokens < MaxTokens
  /\ tokens' = IF fresh THEN tokens + 1 ELSE tokens
  /\ \/ deal' = [deal EXCEPT !.pc = "keep", !.mind = mind]  \* not for sale, or could not be read
     \/ IF ~fresh /\ mind.link # 0 /\ deal.want = mind.items
          THEN deal' = [deal EXCEPT !.pc = "keep", !.mind = mind]
          ELSE deal' = [deal EXCEPT !.pc = "post", !.mind = mind, !.at = {}, !.todo = Wanted(deal.want)]

\* The cart has w: the next one, or the check of the whole.
Added(w, read) ==
  /\ deal' = [deal EXCEPT !.todo = @ \ {w}, !.goods[w] = deal.want[w], !.read = read,
                         !.mind.link = deal.mind.cart, !.at = {},
                         !.pc = IF deal.todo = {w} THEN "verify" ELSE "post"]
  /\ Onward

\* Variant: a session drawn in vain is forgotten.
StopAndForget == Conclude([deal.mind EXCEPT !.cart = told.cart])

\* w is not: the turn has failed, after an exception or without a link, or it
\* makes do with what is in the cart.
StopPosting ==
  \/ Conclude(deal.mind)
  \/ deal.mind.link # 0 /\ On("verify") /\ Onward

PostOne(w) ==
  /\ deal.pc = "post" /\ w \in deal.todo /\ Still
  /\ \/ /\ Answered /\ Done(deal.mind.cart, "post", Only(w))
        /\ Added(w, Gone)
     \/ /\ Slip /\ Unsure(deal.mind.cart, "post", Only(w))
        /\ \/ deal' = [deal EXCEPT !.pc = "recheck", !.at = {w}] /\ Onward  \* a time-out or 502-504
           \/ StopPosting                                            \* any other answer

\* _reconcile_cart_item.
Recheck(w) ==
  /\ deal.pc = "recheck" /\ w \in deal.at /\ Still /\ Spare
  /\ \/ \E c \in Readings(deal.mind.cart) :
          /\ Reads(deal.mind.cart, c, {"late"})
          /\ \/ c # Gone /\ c[w] >= deal.want[w] /\ Added(w, c)
             \/ (c = Gone \/ c[w] < deal.want[w]) /\ StopPosting
     \/ Slip /\ StopPosting

\* Where a cart reads as c: what cannot be read is made good by what was posted,
\* and so is a reading that lacks some of it, unless a post had failed.
Listings(c) ==
  LET posted == [w \in Wares |-> deal.mind.items[w] + deal.goods[w]] IN
  IF c \in {Gone, Empty} THEN {posted}
  ELSE IF \A w \in Wares : deal.goods[w] <= c[w] THEN {c} ELSE {c, posted}

\* The cart is read, unless the check of the last thing did that.
Verify ==
  /\ deal.pc = "verify" /\ Still
  /\ \E c \in IF deal.read = Gone THEN Readings(deal.mind.cart) ELSE {deal.read} :
       /\ IF deal.read = Gone THEN Reads(deal.mind.cart, c, {}) ELSE Answered
       /\ \E items \in Listings(c) : Concluded([deal.mind EXCEPT !.items = items])

-----------------------------------------------------------------------------
(* Taking one thing out: rebuild_cart_without *)

OldCart == deal.mind.cart
Keepers(c) == Wanted(c) \ deal.at

\* Variant: the old cart is given up before the new one is filled.
SnapshotAndDelete ==
  /\ deal.pc = "snap" /\ Still
  /\ Answered /\ Mine # Gone /\ Keepers(Mine) # {}
  /\ tokens < MaxTokens /\ tokens' = tokens + 1
  /\ deal' = [deal EXCEPT !.pc = "copy", !.todo = Keepers(Mine), !.want = Mine, !.new = tokens + 1]
  /\ Done(OldCart, "delete", Empty) /\ UNCHANGED kept

Snapshot ==
  /\ deal.pc = "snap" /\ Still /\ Spare
  /\ \/ Slip /\ Concluded(deal.mind)
     \/ \E c \in Readings(OldCart) :
          LET found == c # Gone /\ \A w \in deal.at : c[w] > 0 IN
          /\ Reads(OldCart, c, {"late"})
          /\ \/ ~found /\ Concluded(deal.mind)
             \/ found /\ Keepers(c) = {} /\ On("drop") /\ Onward
             \/ found /\ Keepers(c) # {} /\ Concluded(deal.mind)  \* a price is missing
             \/ /\ found /\ Keepers(c) # {}
                /\ tokens < MaxTokens /\ tokens' = tokens + 1
                /\ deal' = [deal EXCEPT !.pc = "copy", !.todo = Keepers(c), !.want = c,
                                       !.new = tokens + 1]
                /\ UNCHANGED kept

\* Nothing is left: the cart is deleted and the conversation has none.  (Its
\* link stays.)
DropCart ==
  /\ deal.pc = "drop" /\ Still
  /\ \/ /\ Answered /\ Done(OldCart, "delete", Empty)
        /\ Conclude([deal.mind EXCEPT !.cart = 0, !.items = Empty, !.awaiting = FALSE,
                                      !.review = Empty])
     \/ Slip /\ Unsure(OldCart, "delete", Empty) /\ Conclude(deal.mind)

Copy(w) ==
  /\ deal.pc = "copy" /\ w \in deal.todo /\ Still /\ Onward
  /\ \/ /\ Answered /\ Done(deal.new, "post", Only(w))
        /\ deal' = [deal EXCEPT !.todo = @ \ {w},
                               !.pc = IF deal.todo = {w} THEN "compare" ELSE "copy"]
     \/ Slip /\ Unsure(deal.new, "post", Only(w)) /\ On("undo")

\* What the new cart is to be: the old one, without the thing.
Without == [w \in Wares |-> IF w \in deal.at THEN 0 ELSE deal.want[w]]

\* The conversation goes over to the new cart.  (Its link does not.)
Moved ==
  [deal.mind EXCEPT !.cart = deal.new, !.items = Without, !.awaiting = FALSE, !.review = Empty]

Compare ==
  /\ deal.pc = "compare" /\ Still /\ Spare /\ Onward
  /\ \/ \E c \in Readings(deal.new) :
          Reads(deal.new, c, {"late"}) /\ On(IF c = Without THEN "discard" ELSE "undo")
     \/ Slip /\ On("undo")

\* A cart is deleted as far as that can be done.
BestEffort(pc, s, mind) ==
  /\ deal.pc = pc /\ Still
  /\ \/ Answered /\ Done(s, "delete", Empty)
     \/ Slip /\ Done(s, "delete", Empty)
     \/ Fail({"left"}) /\ Given(s, "delete", Empty)
  /\ Conclude(mind)

Undo    == BestEffort("undo", deal.new, deal.mind)
Discard == BestEffort("discard", OldCart, Moved)

-----------------------------------------------------------------------------
(* What was given up *)

LandsLate(c) ==
  /\ c \in afloat /\ afloat' = afloat \ {c}
  /\ Change(c.s, c.call, c.goods)
  /\ strays' = strays \cup {"late"}
  /\ UNCHANGED <<memoryVars, tokens, deal, deals, slips>>

-----------------------------------------------------------------------------
(* The reply *)

KeepDeal ==
  /\ deal.pc = "keep" /\ On("reply")
  /\ \/ Answered /\ Keep(deal.mind)
     \/ Slip /\ KeepBadly(deal.mind)
  /\ UNCHANGED <<told, richest, storeVars, tokens, deals>>

DeliverDeal ==
  /\ deal.pc = "reply"
  /\ Tell(deal.mind) /\ deal' = NoDeal
  /\ UNCHANGED <<kept, storeVars, tokens, deals, slips, strays>>

\* The reply is not delivered, or the process dies on the way to it: the
\* message is answered anew, or the next.
Perish ==
  /\ deal.pc # "idle" /\ Fail({"left"})
  /\ deal' = NoDeal /\ deals' \in {deals, deals - 1}
  /\ UNCHANGED <<memoryVars, storeVars, tokens>>

DealStep ==
  \/ \E w \in Wares : \/ LookInCart(w) \/ SetQuantity(w) \/ Reread(w)
                     \/ PostOne(w) \/ Recheck(w) \/ Copy(w)
  \/ Prepare \/ Verify
  \/ Snapshot \/ DropCart \/ Compare \/ Undo \/ Discard
  \/ KeepDeal \/ DeliverDeal \/ Perish
  \/ \E c \in afloat : LandsLate(c)

Wishes == [Wares -> 0..MaxPieces] \ {Empty}

CartNext ==
  \/ \E op \in {"add", "set", "remove"} : \E want \in Wishes : Wish(op, want)
  \/ DealStep

CartSpec == CartInit /\ [][CartNext]_cartVars

-----------------------------------------------------------------------------
(* Properties *)

\* "Nada apagado": whatever fails while one thing is taken out, there is at
\* every moment a cart of this conversation with all the others in it, as long
\* as the store shows what it has and does nothing it had been given up for.
OthersStay ==
  deal.new # 0 /\ "late" \notin strays =>
    \E s \in {OldCart, deal.new} :
      \A w \in Wares : w \notin deal.at => Held(s, w) = deal.want[w]

\* A conversation fills a second cart only where the first may be left behind
\* (its turn perished, it could not be deleted, the memory of it could not be
\* read, was forgotten or was older than what had been told) or the store was
\* late: a call whose answer was lost is repeated on the session drawn for the
\* first.
OneCart ==
  strays \subseteq {"several"} =>
    Cardinality({s \in Token : Filled(s)} \ {deal.new}) <= 1

\* Asking again for one thing, whatever answers, replies or memories were lost,
\* does not put more of it into a cart than was asked for, unless a post lands
\* after it was given up or the store shows a cart as it was before.  (Several
\* at a time are posted again, those included that went in before.)
AsManyAsAsked ==
  strays \subseteq {"left"} =>
    \A s \in Token : \A w \in Wares : Held(s, w) <= MaxPieces

=============================================================================
