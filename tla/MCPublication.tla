--------------------------- MODULE MCPublication ---------------------------
(* Instantiates Publication for TLC: jobs and worker slots are interchangeable. *)
EXTENDS PublicationHistory, TLC

Symmetry == Permutations(Jobs) \cup Permutations(Workers) \cup Permutations(Clients)
=============================================================================
