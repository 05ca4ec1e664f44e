------------------------------ MODULE RankMatch ------------------------------
(***************************************************************************)
(* The reward of RankGRPO: _evaluate_direct_match_aligned of               *)
(*   verl_gr/recipes/rankgrpo/rankgrpo_reward.py                           *)
(* goes through the recommendations of a completion in order and matches   *)
(* each with a ground truth of its title that is not used up, of its year  *)
(* or of the nearest one within the tolerance.                             *)
(***************************************************************************)
EXTENDS Integers, SequencesExt, FiniteSetsExt

CONSTANTS
  Title,       \* the titles recommended, as they are written
  NormOf,      \* title_normalizer: titles that differ in case are one
  Year,        \* the years
  Tolerances,  \* values of year_tolerance
  MaxRecs,     \* rec_num
  MaxTruths    \* the most ground truths of a prompt

\* Assumed of the constants by RolloutLoops.
MatchAssumption ==
  /\ DOMAIN NormOf = Title
  /\ Year \cup Tolerances \cup {MaxRecs, MaxTruths} \subseteq Nat

VARIABLES
  seen,      \* the titles the user has seen, as they are written
  catalog,   \* the <<title, year>> pairs there are
  tolerance, \* year_tolerance
  truths,    \* how often <<normalized title, year>> is a ground truth
  recs,      \* the recommendations matched so far
  left,      \* gt_years_by_title: the ground truths that are not used up
  hits       \* the positions of recs that hit

vars == <<seen, catalog, tolerance, truths, recs, left, hits>>

TitleYear == {NormOf[t] : t \in Title} \X Year

Init ==
  /\ seen \in SUBSET Title
  /\ catalog \in {Title \X Year} \cup {(Title \X Year) \ {r} : r \in Title \X Year}
  /\ tolerance \in Tolerances
  /\ truths \in {f \in [TitleYear -> 0 .. MaxTruths] : MapThenSumSet(LAMBDA k : f[k], TitleYear) <= MaxTruths}
  /\ recs = <<>>
  /\ left = truths
  /\ hits = {}

Distance(y, z) == IF y < z THEN z - y ELSE y - z

\* The years a recommendation can be matched with.
Matches(title, year) ==
  {y \in Year : left[<<NormOf[title], y>>] > 0 /\ Distance(y, year) <= tolerance}

\* Of two years equally near, the later one is tried first.
Nearest(title, year) ==
  CHOOSE y \in Matches(title, year) : \A z \in Matches(title, year) :
    \/ Distance(y, year) < Distance(z, year)
    \/ Distance(y, year) = Distance(z, year) /\ y >= z

Excluded(title, year) == title \in seen \/ <<title, year>> \notin catalog

\* Mutant: a ground truth is matched any number of times.
NotUsedUp(title, year) == left

\* The counter of the matched year, one less.
UsedUp(title, year) == [left EXCEPT ![<<NormOf[title], Nearest(title, year)>>] = @ - 1]

\* One position of the loop: a line the completion may hold.
Match(title, year) ==
  /\ Len(recs) < MaxRecs
  /\ recs' = Append(recs, <<title, year>>)
  /\ IF Excluded(title, year) \/ Matches(title, year) = {}
     THEN UNCHANGED <<left, hits>>
     ELSE left' = UsedUp(title, year) /\ hits' = hits \cup {Len(recs')}
  /\ UNCHANGED <<seen, catalog, tolerance, truths>>

Step == \E title \in Title, year \in Year : Match(title, year)

Spec == Init /\ [][Step]_vars

-----------------------------------------------------------------------------
\* The reference: a matching gives a set of positions a ground truth each.
Positions == {i \in 1 .. Len(recs) : ~ Excluded(recs[i][1], recs[i][2])}
Fits(i, y) == Distance(y, recs[i][2]) <= tolerance

\* Can the positions P be matched, each with a ground truth of its own?
Matchable(P) ==
  \E m \in [P -> Year] :
    /\ \A i \in P : Fits(i, m[i])
    /\ \A i \in P :
         Cardinality({j \in P : m[j] = m[i] /\ NormOf[recs[j][1]] = NormOf[recs[i][1]]})
           <= truths[<<NormOf[recs[i][1]], m[i]>>]

\* The hits can be matched with different ground truths of their title, within
\* the tolerance.  Nearest-first in the order of the list does not always find
\* the most that can be matched, but never less than half, and the most when
\* only the exact year counts (rankgrpo_reward.py:94-171).
HitsAreAMatching ==
  /\ Matchable(hits)
  /\ hits \subseteq Positions
  /\ \A P \in SUBSET Positions :
       Matchable(P) =>
         /\ Cardinality(P) <= 2 * Cardinality(hits)
         /\ tolerance = 0 => Cardinality(P) <= Cardinality(hits)
=============================================================================
