---------------------------- MODULE MCComponents ----------------------------
(* The components that keep their state to themselves.  One run checks their*)
(* safety, each behaviour running one of them.                              *)
EXTENDS ConversationLock, TrayCircuit, DirectCheckout, StoryJobs, StoreEvents, TLC

VARIABLE part  \* the one this behaviour runs

\* One process has every task but the last.
LastApart ==
  [t \in Tasks |-> CHOOSE p \in Processes :
     (t = CHOOSE m \in Tasks : \A u \in Tasks : u <= m) <=> (\A q \in Processes : q <= p)]

\* Interchangeable actors.
Alike ==
  Permutations(Runners) \cup Permutations(Facts) \cup Permutations(Analysts)
    \cup Permutations(Pollers)

Parts == {"lock", "circuit", "checkout", "stories", "events"}

vars == <<part, lockVars, circuitVars, checkoutVars, storyVars, streamVars>>

PartsInit ==
  /\ part \in Parts
  /\ LockInit /\ CircuitInit /\ CheckoutInit /\ StoryInit /\ StreamInit

Step(p) ==
  CASE p = "lock"     -> LockNext
    [] p = "circuit"  -> CircuitNext
    [] p = "checkout" -> CheckoutNext
    [] p = "stories"  -> StoryNext
    [] p = "events"   -> StreamNext

\* Every part but the one that runs stays as it is.
RestStays(p) ==
  /\ IF p = "lock" THEN TRUE ELSE UNCHANGED lockVars
  /\ IF p = "circuit" THEN TRUE ELSE UNCHANGED circuitVars
  /\ IF p = "checkout" THEN TRUE ELSE UNCHANGED checkoutVars
  /\ IF p = "stories" THEN TRUE ELSE UNCHANGED storyVars
  /\ IF p = "events" THEN TRUE ELSE UNCHANGED streamVars

PartsNext == Step(part) /\ RestStays(part) /\ UNCHANGED part

PartsSpec == PartsInit /\ [][PartsNext]_vars

=============================================================================
