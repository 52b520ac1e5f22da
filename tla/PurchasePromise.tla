-------------------------- MODULE PurchasePromise --------------------------
(***************************************************************************)
(* What a checkout promises the customer, without messages, turns and      *)
(* crashes: the cart of a proposal is asked for once, after consent, and   *)
(* while nothing has been said of how it went; and what is said is said    *)
(* once and is so.  The store takes its time and may make another cart.    *)
(***************************************************************************)
EXTENDS Naturals

CONSTANT Proposals

VARIABLES consent,  \* proposals the customer has seen and then confirmed
          posts,    \* how often the store was asked for the cart of each
          cart,     \* what the store made of it
          verdict   \* what is recorded of it; open: nothing yet

purchaseVars == <<consent, posts, cart, verdict>>

PurchaseInit ==
  /\ consent = {}
  /\ posts = [p \in Proposals |-> 0]
  /\ cart = [p \in Proposals |-> "none"]
  /\ verdict = [p \in Proposals |-> "open"]

Consent(p) ==
  /\ consent' = consent \cup {p}
  /\ UNCHANGED <<posts, cart, verdict>>

Order(p) ==
  /\ p \in consent /\ posts[p] = 0 /\ verdict[p] = "open"
  /\ posts' = [posts EXCEPT ![p] = 1]
  /\ UNCHANGED <<consent, cart, verdict>>

Make(p, c) ==
  /\ posts[p] = 1 /\ cart[p] = "none"
  /\ cart' = [cart EXCEPT ![p] = c]
  /\ UNCHANGED <<consent, posts, verdict>>

Close(p, v) ==
  /\ verdict[p] = "open"
  /\ v = "rejected" <=> posts[p] = 0
  /\ v = "completed" => cart[p] = "reviewed"
  /\ verdict' = [verdict EXCEPT ![p] = v]
  /\ UNCHANGED <<consent, posts, cart>>

PurchaseNext ==
  \E p \in Proposals :
    \/ Consent(p) \/ Order(p)
    \/ \E c \in {"reviewed", "other"} : Make(p, c)
    \/ \E v \in {"completed", "rejected", "unknown"} : Close(p, v)

PurchaseSpec == PurchaseInit /\ [][PurchaseNext]_purchaseVars
=============================================================================
