---------------------------- MODULE MCRetryChain ----------------------------
(* Instances of RetryChain for TLC. *)
EXTENDS RetryChain

CONSTANTS a, b, c

ConfigOrder == <<a, b, c>>

\* Every graph without a cycle.
Acyclic == {g \in [{a, b, c} -> SUBSET {a, b, c}] :
              \A S \in SUBSET {a, b, c} \ {{}} :
                 \E t \in S : g[t] \intersect S = {}}

=============================================================================
