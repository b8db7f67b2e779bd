----------------------------- MODULE MCLocalRun -----------------------------
(* Instances of LocalRun for TLC. *)
EXTENDS LocalRun, TLC

CONSTANTS a, b

\* The graphs over two tasks but for loops at one task: no edge, one edge
\* either way, a cycle.
Shapes ==
    { (a :> {}) @@ (b :> {}),
      (a :> {}) @@ (b :> {a}),
      (a :> {b}) @@ (b :> {}),
      (a :> {b}) @@ (b :> {a}) }

\* One task is tried twice.
OneRetry == (a :> 1) @@ (b :> 0)

=============================================================================
