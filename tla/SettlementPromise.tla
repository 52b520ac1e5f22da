------------------------- MODULE SettlementPromise -------------------------
(***************************************************************************)
(* What a settlement promises the customer and the store, without claims,  *)
(* workers, notices or retries: money paid in full buys the order of its   *)
(* cart, and a cart is ordered once.  Only a cart with an excuse can be    *)
(* ordered twice or have its recorded order replaced.  There are three     *)
(* excuses: a paid payment whose order is not recorded yet, two paid       *)
(* payments of one cart, and an order that went astray and arrives after   *)
(* all.  A payment reported settled has an order of its cart and amount;   *)
(* the report may be withdrawn by a failure that comes late, the record of *)
(* the order never.                                                        *)
(***************************************************************************)
EXTENDS Naturals

CONSTANTS Payments, Orders, Session, Amount

VARIABLES paid,     \* payments received in full
          order,    \* the payment an order was taken for; 0: no such order
          astray,   \* payments with an order on its way that was given up
          record,   \* the order recorded for a payment; 0: none
          settled,  \* payments reported settled
          excused   \* sessions that may have a second order

promiseVars == <<paid, order, astray, record, settled, excused>>

PromiseInit ==
  /\ paid = {} /\ astray = {} /\ settled = {} /\ excused = {}
  /\ order  = [o \in Orders |-> 0]
  /\ record = [p \in Payments |-> 0]

Pay(p) ==
  /\ paid' = paid \cup {p}
  /\ UNCHANGED <<order, astray, record, settled, excused>>

Excuse(p) ==
  /\ p \in paid
  /\ record[p] = 0 \/ \E q \in paid : q # p /\ Session[q] = Session[p]
  /\ excused' = excused \cup {Session[p]}
  /\ UNCHANGED <<paid, order, astray, record, settled>>

\* The cart of payment p may be ordered.
MayOrder(p) ==
  /\ p \in paid
  /\ \/ \A o \in Orders : order[o] # 0 => Session[order[o]] # Session[p]
     \/ Session[p] \in excused

Buy(p, o) ==
  /\ MayOrder(p) /\ order[o] = 0
  /\ order' = [order EXCEPT ![o] = p]
  /\ UNCHANGED <<paid, astray, record, settled, excused>>

Lose(p) ==
  /\ MayOrder(p)
  /\ astray' = astray \cup {p}
  /\ UNCHANGED <<paid, order, record, settled, excused>>

Arrive(p, o) ==
  /\ p \in astray /\ astray' = astray \ {p}
  /\ order[o] = 0 /\ order' = [order EXCEPT ![o] = p]
  /\ excused' = excused \cup {Session[p]}
  /\ UNCHANGED <<paid, record, settled>>

Settle(p, o) ==
  /\ order[o] # 0
  /\ Session[order[o]] = Session[p] /\ Amount[order[o]] = Amount[p]
  /\ record[p] \in {0, o} \/ Session[p] \in excused
  /\ record' = [record EXCEPT ![p] = o]
  /\ settled' = settled \cup {p}
  /\ UNCHANGED <<paid, order, astray, excused>>

Withdraw(p) ==
  /\ settled' = settled \ {p}
  /\ UNCHANGED <<paid, order, astray, record, excused>>

PromiseNext ==
  \E p \in Payments :
    \/ Pay(p) \/ Excuse(p) \/ Lose(p) \/ Withdraw(p)
    \/ \E o \in Orders : Buy(p, o) \/ Arrive(p, o) \/ Settle(p, o)

PromiseSpec == PromiseInit /\ [][PromiseNext]_promiseVars
=============================================================================
