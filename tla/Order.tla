------------------------------- MODULE Order -------------------------------
(***************************************************************************)
(* Rows in an order, and lists of different ids.                           *)
(***************************************************************************)
EXTENDS Naturals, FiniteSets, SequencesExt

\* The members of S in the order R, a set of pairs of which the first comes before the second:
\* the i-th is the one that i - 1 others come before.
InOrder(S, R) ==
    [i \in 1..Cardinality(S) |-> CHOOSE x \in S : Cardinality({y \in S : <<y, x>> \in R}) = i - 1]

\* Which comes before which in a list.
Before(s) ==
    {p \in ToSet(s) \X ToSet(s) : \E i, j \in DOMAIN s : i < j /\ s[i] = p[1] /\ s[j] = p[2]}

\* What is in S of a list, in the order of the list.
Only(s, S) == InOrder(ToSet(s) \cap S, Before(s))

\* A list without e, and with e at the i-th place.
Without(s, e) == Only(s, ToSet(s) \ {e})
Replaced(s, e, i) == InsertAt(Without(s, e), i, e)

PlaceOf(s, e) == CHOOSE i \in DOMAIN s : s[i] = e
=============================================================================
