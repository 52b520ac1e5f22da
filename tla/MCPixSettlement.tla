-------------------------- MODULE MCPixSettlement --------------------------
(* Instances of PixSettlement for TLC: one payment, charged as agreed, whose *)
(* calls fail and whose workers die, with a customer who asks; or two        *)
(* payments of a cart, charged as agreed or not, where nothing fails.        *)
EXTENDS PixSettlement, TLC

VARIABLE setup  \* the payments there are

\* Requests and cron runs are interchangeable (safety runs only).
AnyWorker == Permutations(Workers)

\* One cart session for every payment.
OneSession == [p \in Payments |-> "cart"]

\* Two payments of a cart whose total changed between them, or not.
SameAmount == [p \in Payments |-> 2]
GrowingAmount == [p \in Payments |-> p]

Complete == [p \in Payments |-> TRUE]

AsAgreed == \A p \in Payments : charged[p] = Expected[p]

MCInit == Init /\ setup \in {{1}, Payments} /\ (setup = {1} => AsAgreed)

MCNext ==
  /\ Next /\ UNCHANGED setup
  /\ IF setup = {1} THEN \A p \in Payments \ setup : mp'[p] = "none"
     ELSE UNCHANGED <<faults, asks>>

MCSpec == MCInit /\ [][MCNext]_<<vars, setup>>

=============================================================================
