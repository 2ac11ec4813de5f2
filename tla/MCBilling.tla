----------------------------- MODULE MCBilling -----------------------------
\* A small instance of Billing for TLC.
EXTENDS Billing, TLC

MCGrants == {<<"PRO", "ACTIVE">>}

\* Ids and handlers are compared for equality only.
Symmetry == Permutations(Handlers) \cup Permutations(Customers) \cup Permutations(Subs)
=============================================================================
