------------------------------ MODULE MCOutbox ------------------------------
(* Instances of Outbox for TLC: two turns about one message answered with    *)
(* photos, or one turn at a time about either of two plain messages, so that *)
(* a batch leases the rows of both; the unclear answers of a plain message   *)
(* are bounded, those of a photo only by its routes and attempts.            *)
EXTENDS Outbox, TLC

CONSTANT MaxUnclear  \* errors answered for a delivered plain message

VARIABLE setup  \* the messages there are

Symmetry == Permutations(Rows) \cup Permutations(Dispatchers) \cup Permutations(Inbounds \ Photos)

MCInit == Init /\ setup \in {Photos, Inbounds \ Photos}

OneAtATime == \E d \in Dispatchers : \A e \in Dispatchers \ {d} : phase[e] = "idle"

MCNext ==
  /\ Next /\ UNCHANGED setup
  /\ \A r \in Rows : inbound'[r] \in setup \cup {None}
  /\ \/ setup = Photos
     \/ OneAtATime' /\ \A r \in Rows : ambiguous'[r] <= MaxUnclear

MCSpec == MCInit /\ [][MCNext]_<<vars, setup>>

=============================================================================
