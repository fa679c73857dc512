---------------------------- MODULE HttpHeaders -----------------------------
(***************************************************************************)
(* cmd/httpstat: the response headers, collected in the random order of a  *)
(* map and printed in the order that headers.Less gives them.              *)
(***************************************************************************)
EXTENDS Integers, Sequences, FiniteSets

CONSTANTS
  Names,       \* names a response header may have
  Server,      \* "Server"
  HopByHop,    \* the names of the switch in endtoend
  rank         \* the place of a name in the order of strings

ASSUME NamesAssumption ==
  /\ Server \in Names /\ HopByHop \subseteq Names /\ Server \notin HopByHop
  /\ rank \in [Names -> Nat]
  /\ \A a, b \in Names : rank[a] = rank[b] => a = b

VARIABLES names, sorted

vars == <<names, sorted>>

endtoend(n) == n \notin HopByHop

\* Mutant: two names of different classes compare as strings too.
LessByName(a, b) ==
  \/ a = Server
  \/ b # Server /\ rank[a] < rank[b]

\* headers.Less, of the names rather than of their indexes.
Less(a, b) ==
  \/ a = Server
  \/ /\ b # Server
     /\ IF endtoend(a) = endtoend(b) THEN rank[a] < rank[b] ELSE endtoend(a)

-----------------------------------------------------------------------------
\* The names of one response: a map has each of them once, in any order.
Listings == {s \in UNION {[1..n -> Names] : n \in 0..Cardinality(Names)} :
               \A i, j \in DOMAIN s : s[i] = s[j] => i = j}

Init == names \in Listings /\ sorted = FALSE

\* h[i], h[j] = h[j], h[i].
Swap(s, i, j) == [s EXCEPT ![i] = s[j], ![j] = s[i]]

\* sort.Sort, of which only this is used: it swaps elements that are out of order
\* until there are none.
SortStep ==
  /\ ~sorted
  /\ \E i, j \in DOMAIN names : i < j /\ Less(names[j], names[i]) /\ names' = Swap(names, i, j)
  /\ UNCHANGED sorted

SortDone ==
  /\ ~sorted
  /\ \A i, j \in DOMAIN names : i < j => ~Less(names[j], names[i])
  /\ sorted' = TRUE /\ UNCHANGED names

Next == SortStep \/ SortDone

Spec == Init /\ [][Next]_vars

-----------------------------------------------------------------------------
\* The order that is printed does not depend on the map's: "server always sorts
\* at the top", the hop-by-hop headers come last, and within each class the names
\* are in alphabetical order.
PrintedInOrder ==
  sorted => \A i, j \in DOMAIN names : i < j =>
    /\ names[j] # Server
    /\ endtoend(names[j]) => endtoend(names[i])
    /\ names[i] # Server /\ (endtoend(names[i]) <=> endtoend(names[j])) => rank[names[i]] < rank[names[j]]

=============================================================================
