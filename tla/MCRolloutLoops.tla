--------------------------- MODULE MCRolloutLoops ---------------------------
(* A small batch for every rollout loop. *)
EXTENDS RolloutLoops

CONSTANTS a1, a2, b1

\* Limits above and below one group, none at all, and without adaptation.
MCLimits ==
  {[max |-> 5, min |-> 2, step |-> 2, adaptive |-> TRUE],
   [max |-> 1, min |-> 1, step |-> 2, adaptive |-> TRUE],
   [max |-> 0, min |-> 4, step |-> 1, adaptive |-> TRUE],
   [max |-> 4, min |-> 2, step |-> 2, adaptive |-> FALSE]}

\* Two calls of one group and one of another.
MCGroupOf == [c \in Call |-> IF c = b1 THEN "h" ELSE "g"]

\* Two spellings of one title, and another.
MCTitle == {"Heat", "heat"}
MCNormOf == [t \in MCTitle |-> "heat"]
=============================================================================
