--------------------------- MODULE MCMediaLibrary ---------------------------
(* The media library on small sets, for TLC. *)
EXTENDS MediaLibrary, TLC

\* Assets, files, templates and calls are each interchangeable.
Exchange == Permutations(Assets) \cup Permutations(Files)
              \cup Permutations(Blocks) \cup Permutations(Requests)

\* Bound: behaviours are followed up to their second mishap.
FewMishaps == Cardinality(spoilt) + Cardinality(leaky) <= 1
=============================================================================
