-------------------------------- MODULE Lists --------------------------------
(***************************************************************************)
(* Filters and sorts of the frontend and the service by counting: what     *)
(* stands at a place is found by how many stand before it, so that the     *)
(* provers can unfold them, which SelectSeq and SortSeq do not allow.      *)
(***************************************************************************)
EXTENDS Integers, FiniteSets

\* The k-th of the whole numbers of I, from below.
Kth(I, k) == CHOOSE i \in I : Cardinality({j \in I : j < i}) = k - 1

\* s.filter: the entries of s at the places I, in order.
Entries(s, I) == [k \in 1 .. Cardinality(I) |-> s[Kth(I, k)]]

\* Array.sort: the members of T, each after those that come before it.
Ranked(T, Before(_, _)) ==
    [k \in 1 .. Cardinality(T) |-> CHOOSE t \in T : Cardinality({u \in T : Before(u, t)}) = k - 1]

\* order_by(id.desc()): the rows of T, the newest first.
NewestFirst(T) ==
    [k \in 1 .. Cardinality(T) |-> CHOOSE t \in T : Cardinality({u \in T : u.id > t.id}) = k - 1]
==============================================================================
