------------------------------ MODULE MCProbes ------------------------------
(* The breaker alone, with a history of the probes that are executing.      *)
EXTENDS CircuitBreaker

VARIABLE probes   \* requests in flight that this half-open period admitted

OneConfig == {[fail |-> 2, succ |-> 2, timeout |-> 1]}

ProbesInit == Init /\ probes = {}

ProbesNext ==
    /\ Next
    /\ probes' = IF state' = "HalfOpen"
                   THEN (probes \cap inflight') \cup (inflight' \ inflight)
                   ELSE {}

ProbesSpec == ProbesInit /\ [][ProbesNext]_<<vars, probes>>

\* Half-open, at most successThreshold probes are executing at the same time
\* (Allow's test of halfOpenActive).  It does not hold: the success of a request
\* that was admitted before the breaker opened gives back a probe's slot.
ProbesLimited == state = "HalfOpen" => Cardinality(probes) <= config.succ
=============================================================================
