---------------------------- MODULE ReplyPromise ----------------------------
(***************************************************************************)
(* What the outbound queue promises its callers, without leases, workers   *)
(* or attempts: an inbound message gets at most one accepted reply; the    *)
(* reply is closed once, as delivered or as abandoned; and it is closed as *)
(* delivered only if all of it reached the provider.  An abandoned reply   *)
(* may have reached the customer all the same.                             *)
(***************************************************************************)
EXTENDS Naturals

CONSTANTS Replies, Messages, None

VARIABLES answers,   \* the inbound message a reply belongs to, or None
          outcome,   \* what the queue says of the reply
          reached    \* whether all of it reached the provider

promiseVars == <<answers, outcome, reached>>

PromiseInit ==
  /\ answers = [r \in Replies |-> None]
  /\ outcome = [r \in Replies |-> "open"]
  /\ reached = [r \in Replies |-> FALSE]

Accept(r, m) ==
  /\ answers[r] = None
  /\ \A s \in Replies : answers[s] # m
  /\ answers' = [answers EXCEPT ![r] = m]
  /\ UNCHANGED <<outcome, reached>>

Reach(r) ==
  /\ answers[r] # None
  /\ reached' = [reached EXCEPT ![r] = TRUE]
  /\ UNCHANGED <<answers, outcome>>

CloseDelivered(r) ==
  /\ outcome[r] = "open"
  /\ reached[r]
  /\ outcome' = [outcome EXCEPT ![r] = "delivered"]
  /\ UNCHANGED <<answers, reached>>

\* One sweep may give up several replies.
Abandon(R) ==
  /\ \A r \in R : answers[r] # None /\ outcome[r] = "open"
  /\ outcome' = [r \in Replies |-> IF r \in R THEN "abandoned" ELSE outcome[r]]
  /\ UNCHANGED <<answers, reached>>

PromiseNext ==
  \/ \E r \in Replies : \E m \in Messages : Accept(r, m)
  \/ \E r \in Replies : Reach(r) \/ CloseDelivered(r)
  \/ \E R \in SUBSET Replies : Abandon(R)

PromiseSpec == PromiseInit /\ [][PromiseNext]_promiseVars
=============================================================================
