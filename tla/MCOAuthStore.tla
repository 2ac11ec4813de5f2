---------------------------- MODULE MCOAuthStore ----------------------------
\* A small instance of OAuthStore for TLC.
EXTENDS OAuthStore, TLC

\* Requests have no identity beyond their id.
Symmetry == Permutations(Reqs)
=============================================================================
