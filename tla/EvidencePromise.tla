-------------------------- MODULE EvidencePromise --------------------------
(***************************************************************************)
(* What the analysis of a Story promises the turns that ask about it,      *)
(* without analysts, leases and copies: a generation comes to one end,     *)
(* evidence or failure, and only a new generation reopens it; a turn is    *)
(* promised the evidence of the current generation once that is ready,     *)
(* and uses what it was promised or nothing.                               *)
(***************************************************************************)
EXTENDS Naturals

CONSTANT Readers

VARIABLES generation,  \* the current generation
          outcome,     \* what came of it; open: nothing yet
          asked,       \* the generation each turn was promised; 0: none
          used         \* the generation whose evidence it uses; 0: none

evidenceVars == <<generation, outcome, asked, used>>

EvidenceInit ==
  /\ generation = 1 /\ outcome = "open"
  /\ asked = [r \in Readers |-> 0]
  /\ used = [r \in Readers |-> 0]

Conclude(result) ==
  /\ outcome = "open" /\ outcome' = result
  /\ UNCHANGED <<generation, asked, used>>

PromiseTo(r) ==
  /\ outcome = "ready"
  /\ asked' = [asked EXCEPT ![r] = generation]
  /\ used' = [used EXCEPT ![r] = 0]
  /\ UNCHANGED <<generation, outcome>>

Use(r) ==
  /\ asked[r] # 0
  /\ used' = [used EXCEPT ![r] = asked[r]]
  /\ UNCHANGED <<generation, outcome, asked>>

Forget(r) ==
  /\ asked' = [asked EXCEPT ![r] = 0]
  /\ used' = [used EXCEPT ![r] = 0]

LetGo(r) == Forget(r) /\ UNCHANGED <<generation, outcome>>

\* A turn that finds the evidence expired reopens it and waits.
Renew ==
  /\ generation' = generation + 1 /\ outcome' = "open"
  /\ UNCHANGED <<asked, used>> \/ \E r \in Readers : Forget(r)

EvidenceNext ==
  \/ Renew \/ \E result \in {"ready", "failed"} : Conclude(result)
  \/ \E r \in Readers : PromiseTo(r) \/ Use(r) \/ LetGo(r)

EvidenceSpec == EvidenceInit /\ [][EvidenceNext]_evidenceVars
=============================================================================
