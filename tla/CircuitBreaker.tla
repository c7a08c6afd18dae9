--------------------------- MODULE CircuitBreaker ---------------------------
(* The circuit breaker of src/daemon/resilience/circuit-breaker.ts as        *)
(* operators on its record. The heartbeat keeps one per trigger, the deploy  *)
(* trigger one of its own. Only whether the cooldown has run out matters     *)
(* here, never how long it is: its doubling is left out.                     *)
EXTENDS Naturals

CONSTANT FailureThreshold
ASSUME BreakerAssumption == FailureThreshold \in Nat \ {0}

\* The count is kept up to the threshold; beyond it nothing distinguishes it.
Breaker == [state : {"CLOSED", "OPEN", "HALF_OPEN"}, fails : 0..FailureThreshold]
Closed == [state |-> "CLOSED", fails |-> 0]

\* isOpen() answers true.
Blocks(b, elapsed) == b.state = "OPEN" /\ ~elapsed

\* What isOpen() leaves behind.
Asked(b, elapsed) ==
  IF b.state = "OPEN" /\ elapsed THEN [b EXCEPT !.state = "HALF_OPEN"] ELSE b

OneMore(n) == IF n = FailureThreshold THEN n ELSE n + 1

Succeeded(b) ==
  [state |-> IF b.state = "HALF_OPEN" THEN "CLOSED" ELSE b.state, fails |-> 0]

Failed(b) ==
  [state |-> IF b.state = "HALF_OPEN" \/ OneMore(b.fails) = FailureThreshold
             THEN "OPEN" ELSE b.state,
   fails |-> OneMore(b.fails)]

=============================================================================
