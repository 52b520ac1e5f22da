---------------------------- MODULE TrayCircuit -----------------------------
(***************************************************************************)
(* The circuit breaker in front of the store's adapter: the process-wide   *)
(* TrayCircuitBreaker (app/tray/tray_circuit_breaker.py) and its one user, *)
(* TrayAdapterClient._request (app/tray/tray_adapter_client.py).  Requests *)
(* overlap; each method of the breaker is atomic under its lock.           *)
(*                                                                         *)
(* A request is admitted, and at its end reports what came of it, except   *)
(* when it ends in a way _request does not report: a 200 whose body is not *)
(* JSON, an exception other than the three it names, a cancellation.       *)
(***************************************************************************)
EXTENDS Naturals, FiniteSets

CONSTANTS Requests,
          Threshold  \* failure_threshold; half_open_successes is 1

ASSUME CircuitAssumption == Threshold \in Nat \ {0}

VARIABLES circuit,    \* _state
          cooled,     \* opened_until has passed
          failures,   \* _failure_count, as far as the threshold
          probing,    \* _half_open_probe_outstanding
          inFlight,   \* requests admitted and not ended
          probes,     \* those admitted since the circuit became half open
          unreported  \* history: some request ended without a report

circuitVars == <<circuit, cooled, failures, probing, inFlight, probes, unreported>>

CircuitInit ==
  /\ circuit = "closed" /\ cooled = FALSE /\ failures = 0 /\ probing = FALSE
  /\ inFlight = {} /\ probes = {} /\ unreported = FALSE

\* What _maybe_transition_unlocked is about to do.
Reopens == circuit = "open" /\ cooled

Seen    == IF Reopens THEN "half_open" ELSE circuit
Waiting == IF Reopens THEN FALSE ELSE probing

\* Variant: in a half-open circuit a request need not wait for another.
AdmitsAny == Seen # "open"

Admits == Seen = "closed" \/ (Seen = "half_open" /\ ~Waiting)

Admit(r) ==
  /\ r \notin inFlight /\ Admits
  /\ circuit' = Seen
  /\ probing' = IF Seen = "half_open" THEN TRUE ELSE Waiting
  /\ inFlight' = inFlight \cup {r}
  /\ probes' = IF Seen = "half_open" THEN (IF Reopens THEN {} ELSE probes) \cup {r} ELSE probes
  /\ UNCHANGED <<cooled, failures, unreported>>

\* Variant: the health page's look counts as the probe.
LookTakesProbe ==
  /\ Reopens
  /\ circuit' = "half_open" /\ probing' = TRUE /\ probes' = {}
  /\ UNCHANGED <<cooled, failures, inFlight, unreported>>

\* A request is refused, or the health page looks: time is all that shows.
Look ==
  /\ Reopens
  /\ circuit' = "half_open" /\ probing' = FALSE /\ probes' = {}
  /\ UNCHANGED <<cooled, failures, inFlight, unreported>>

Ends(r) ==
  /\ r \in inFlight
  /\ inFlight' = inFlight \ {r} /\ probes' = probes \ {r}

Close == circuit' = "closed" /\ failures' = 0 /\ UNCHANGED cooled
Trip  == circuit' = "open" /\ cooled' = FALSE

Success(r) ==
  /\ Ends(r)
  /\ probing' = FALSE
  /\ IF circuit = "half_open" THEN Close ELSE failures' = 0 /\ UNCHANGED <<circuit, cooled>>
  /\ UNCHANGED unreported

\* Authentication or configuration: one is enough.
AuthFailure(r) ==
  /\ Ends(r)
  /\ probing' = FALSE
  /\ Trip
  /\ UNCHANGED <<failures, unreported>>

\* 502, 503, 504 or no answer.
Transient(r) ==
  /\ Ends(r)
  /\ probing' = FALSE
  /\ IF circuit = "half_open"
       THEN Trip /\ UNCHANGED failures
       ELSE /\ failures' = IF failures < Threshold THEN failures + 1 ELSE failures
            /\ IF failures' >= Threshold THEN Trip ELSE UNCHANGED <<circuit, cooled>>
  /\ UNCHANGED unreported

\* Any other error answer: the store is there.
ClientError(r) ==
  /\ Ends(r)
  /\ probing' = FALSE
  /\ IF circuit = "half_open" THEN Close ELSE UNCHANGED <<circuit, cooled, failures>>
  /\ UNCHANGED unreported

Unreported(r) ==
  /\ Ends(r)
  /\ unreported' = TRUE
  /\ UNCHANGED <<circuit, cooled, failures, probing>>

CoolsDown ==
  /\ circuit = "open" /\ ~cooled
  /\ cooled' = TRUE
  /\ UNCHANGED <<circuit, failures, probing, inFlight, probes, unreported>>

CircuitNext ==
  \/ \E r \in Requests :
       Admit(r) \/ Success(r) \/ AuthFailure(r) \/ Transient(r) \/ ClientError(r) \/ Unreported(r)
  \/ Look
  \/ CoolsDown

CircuitSpec == CircuitInit /\ [][CircuitNext]_circuitVars

-----------------------------------------------------------------------------
(* Properties *)

\* A half-open circuit has one probe out at most, whatever requests admitted
\* earlier report meanwhile.
OneProbe ==
  circuit = "half_open" => \A r, s \in probes : r = s

\* As long as every request reports, a half-open circuit refuses requests only
\* while its probe is out, so it cannot go on refusing for ever.
RefusesForAProbe ==
  circuit = "half_open" /\ probing /\ ~unreported => probes # {}

\* _half_open_probe_outstanding says what it says: a probe is out.
\* (A probe that ends unreported leaves it set, and nothing clears it again.)
ProbeIsOutstanding ==
  circuit = "half_open" /\ probing => probes # {}

\* A closed circuit has not seen the threshold.
ClosedBelowThreshold == circuit = "closed" => failures < Threshold

-----------------------------------------------------------------------------
(* The inductive invariant *)

CircuitTypeOK ==
  /\ circuit \in {"closed", "open", "half_open"}
  /\ cooled \in BOOLEAN /\ probing \in BOOLEAN /\ unreported \in BOOLEAN
  /\ failures \in 0..Threshold
  /\ inFlight \in SUBSET Requests

CircuitInv ==
  /\ CircuitTypeOK
  /\ probes \subseteq inFlight
  /\ circuit = "half_open" /\ ~probing => probes = {}
  /\ circuit # "half_open" => ~probing
  /\ OneProbe
  /\ RefusesForAProbe
  /\ ClosedBelowThreshold

=============================================================================
