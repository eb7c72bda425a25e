------------------------------- MODULE Tables -------------------------------
(***************************************************************************)
(* The tables and lists of the agents: what a BTreeMap or a directory does *)
(* when an entry is inserted, and what a sort or a filter makes of a set   *)
(* or of a list.  They are defined without recursion, by the number of     *)
(* members that come before one, so that TablesProofs can say what they    *)
(* contain.                                                                *)
(***************************************************************************)
EXTENDS Integers, FiniteSets

\* The table with one entry inserted or replaced.
Put(t, k, v) == [x \in DOMAIN t \cup {k} |-> IF x = k THEN v ELSE t[x]]

\* The entries of the first table, and those of the second it does not have.
Over(t, u) == [x \in DOMAIN t \cup DOMAIN u |-> IF x \in DOMAIN t THEN t[x] ELSE u[x]]

\* The members of a set, each after the ones that come before it.
InOrder(S, before) ==
    [k \in 1..Cardinality(S) |->
        CHOOSE x \in S : Cardinality({y \in S : <<y, x>> \in before}) = k - 1]

\* A set of numbers in their order.
Ascending(S) ==
    [k \in 1..Cardinality(S) |-> CHOOSE x \in S : Cardinality({y \in S : y < x}) = k - 1]

\* The rows of a list at some of its places.
Kept(list, places) == [k \in 1..Cardinality(places) |-> list[Ascending(places)[k]]]

=============================================================================
