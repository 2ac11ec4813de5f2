--------------------------- MODULE MCMutationLog ---------------------------
\* Small instances of MutationLog for TLC.
EXTENDS MutationLogRefinement, TLC

\* Requests have no identity beyond their id.
Symmetry == Permutations(Reqs)
=============================================================================
