-------------------------------- MODULE Ranking --------------------------------
(***************************************************************************)
(* How candidates for a call are ranked by the conversions they need, and  *)
(* which of them a filter leaves that compares each with every other.      *)
(***************************************************************************)
EXTENDS Naturals, FiniteSets

\* Conversion ranks, from the best to the worst.
Exact == 0
Promotion == 1
Standard == 2
NotMatch == 3

\* isConversionBetterThan: the ranks of the arguments, the worst first, are
\* compared as vectors are, and what kind of template it is decides a tie.
Less(a, b) == \E i \in DOMAIN a : a[i] < b[i] /\ \A j \in 1..(i - 1) : a[j] = b[j]
Beats(a, b) ==
  \/ Less(a.ranks, b.ranks)
  \/ a.ranks = b.ranks /\ a.kind < b.kind

\* What no other beats; all others are compared with, one at a time.
Unbeaten(set, pairs) == {b \in set : ~\E a \in set \ {b} : <<a, b>> \in pairs}

\* What has the least of something.
Least(set, size) == {a \in set : \A b \in set : size[a] <= size[b]}

-------------------------------------------------------------------------------
\* The same order by what a call needs: how many conversions are standard, how
\* many are promotions, and the kind of the function.
Count(ranks, r) == Cardinality({i \in DOMAIN ranks : ranks[i] = r})
Needed(ranks, kind) == <<Count(ranks, Standard), Count(ranks, Promotion), kind>>
NeedsLess(a, b) == \E i \in 1..3 : a[i] < b[i] /\ \A j \in 1..(i - 1) : a[j] = b[j]

\* Of two that need the same, the one may be closer and hide the other.  The best
\* is not hidden, and any other needs more, is hidden, or has more of a size.
Hidden(set, need, closer, b) ==
  \E c \in set : need[c] = need[b] /\ <<c, b>> \in closer
Preferred(set, need, closer, size) ==
  {a \in set :
     /\ ~Hidden(set, need, closer, a)
     /\ \A b \in set \ {a} :
          \/ NeedsLess(need[a], need[b])
          \/ Hidden(set, need, closer, b)
          \/ need[a] = need[b] /\ size[a] < size[b]}
===============================================================================
