----------------------------- MODULE MCJobQueue -----------------------------
(* Instances of JobQueue for TLC. *)
EXTENDS JobQueue, TLC

\* Ids are interchangeable: no action and no safety property tells them apart.
IdSymmetry == Permutations(Runs) \union Permutations(Workers)

=============================================================================
