------------------------------ MODULE MCRecords ------------------------------
(* What the agent remembers of a customer, a cart, an order, an attendant,  *)
(* of its own replies and of the calls it made.  One run checks the safety  *)
(* of these parts, each behaviour running one of them.                      *)
EXTENDS ShoppingCart, AssistedOrder, HumanTakeover, AttendanceLearning, CallBudget, TLC

VARIABLE part  \* the one this behaviour runs

Alike == Permutations(Batches) \cup Permutations(Wares)

Parts == {"cart", "order", "takeover", "learning", "calls"}

\* The state a part has beside the customer's memory.
ownCart == <<storeVars, tokens, deal, deals, slips, strays>>
ownOrder == <<Store, sale, seen, sales, edits, shocks, excuses>>

vars == <<part, memoryVars, ownCart, ownOrder, takeoverVars, learningVars, budgetVars>>

\* One message is of a workspace, another of none.
Apart ==
  CHOOSE h \in [Messages -> Workspaces \cup {None}] : Cardinality({h[m] : m \in Messages}) = 2

PartsInit ==
  /\ part \in Parts
  /\ CartInit /\ OrderInit /\ TakeoverInit /\ LearningInit /\ BudgetInit
  /\ part # "calls" => limit = CHOOSE m \in Limits : TRUE
  /\ home = IF part = "learning" THEN Apart ELSE [m \in Messages |-> None]

Step(p) ==
  CASE p = "cart"     -> CartNext
    [] p = "order"    -> OrderNext
    [] p = "takeover" -> TakeoverNext
    [] p = "learning" -> LearningNext
    [] p = "calls"    -> BudgetNext

\* Every part but the one that runs stays as it is.
RestStays(p) ==
  /\ IF p \in {"cart", "order"} THEN TRUE ELSE UNCHANGED memoryVars
  /\ IF p = "cart" THEN TRUE ELSE UNCHANGED ownCart
  /\ IF p = "order" THEN TRUE ELSE UNCHANGED ownOrder
  /\ IF p = "takeover" THEN TRUE ELSE UNCHANGED takeoverVars
  /\ IF p = "learning" THEN TRUE ELSE UNCHANGED learningVars
  /\ IF p = "calls" THEN TRUE ELSE UNCHANGED budgetVars

PartsNext == Step(part) /\ RestStays(part) /\ UNCHANGED part

PartsSpec == PartsInit /\ [][PartsNext]_vars

=============================================================================
