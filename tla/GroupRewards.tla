---------------------------- MODULE GroupRewards ----------------------------
(***************************************************************************)
(* The training rewards of MiniOneRec: postprocess_rewards of the adapter  *)
(* (minionerec_trainer.py:38-76) over compute_group_training_rewards       *)
(* (minionerec_reward.py:82-137).  The rows of a batch come from the       *)
(* rollout with the beams of a prompt one after the other, but the trainer *)
(* may have reordered them by then (trainer.balance_batch).                *)
(* What a reward weighs is abstracted to its sign and to its order.        *)
(***************************************************************************)
EXTENDS Integers, Sequences, FiniteSets, FiniteSetsExt

CONSTANTS
  Batches,    \* batches, each the sequence of the prompts of its rows
  Kinds,      \* what a completion can be: among "hit", "miss", "invalid", "empty"
  Trainings   \* [keyed, balanced, eosIsPad, empty, invalid]

\* Assumed of the constants by RunParts.
RewardsAssumption == \A b \in Batches : Len(b) \in Nat /\ DOMAIN b = 1 .. Len(b)

VARIABLES
  training,  \* the trainer: uid or index given, balance_batch, padding with EOS, penalties
  order,     \* the rows in the order in which they are rewarded: [prompt, beam, kind]
  rewards,   \* for every one [rule, ranking, shape, hitGroup, token]
  at         \* "generated", "balanced" or "rewarded"

vars == <<training, order, rewards, at>>

Rows == DOMAIN order

BeamOf(b, i) == Cardinality({j \in 1 .. i : b[j] = b[i]})

Init ==
  /\ training \in Trainings
  /\ \E b \in Batches : \E kinds \in [DOMAIN b -> Kinds] :
       order = [i \in DOMAIN b |-> [prompt |-> b[i], beam |-> BeamOf(b, i), kind |-> kinds[i]]]
  /\ rewards = <<>>
  /\ at = "generated"

\* The verl trainer may deal the rows to its ranks by their lengths.
Balance ==
  /\ at = "generated"
  /\ IF training.balanced
     THEN \E p \in [Rows -> Rows] :
            /\ \A i, j \in Rows : p[i] = p[j] => i = j
            /\ order' = [i \in Rows |-> order[p[i]]]
     ELSE UNCHANGED order
  /\ at' = "balanced"
  /\ UNCHANGED <<training, rewards>>

GroupKey(i) == IF training.keyed THEN order[i].prompt ELSE i
GroupOf(i) == {j \in Rows : GroupKey(j) = GroupKey(i)}

Rule(i) == order[i].kind = "hit"

\* The first place of a group costs the most.
NdcgPenalty(place, size) == place - size - 1

LocalRank(i) == Cardinality({j \in GroupOf(i) : j <= i})
HasHit(i) == \E j \in GroupOf(i) : Rule(j)

Ranking(i) ==
  IF HasHit(i) /\ ~Rule(i) THEN NdcgPenalty(LocalRank(i), Cardinality(GroupOf(i))) ELSE 0

ShapePenalty(i) ==
  CASE order[i].kind = "empty" -> training.empty
    [] order[i].kind = "invalid" -> training.invalid
    [] OTHER -> 0

\* The tokens of a row that are not padding: an item with its EOS, some word with
\* its EOS, or the EOS alone, which may be the pad token itself.
Tokens(i) == CASE order[i].kind = "empty" -> 1 [] order[i].kind = "invalid" -> 2 [] OTHER -> 3
Unpadded(i) == IF training.eosIsPad THEN Tokens(i) - 1 ELSE Tokens(i)
LastToken(i) == Max({1, Unpadded(i)})

Reward ==
  /\ at = "balanced"
  /\ rewards' = [i \in Rows |-> [rule |-> Rule(i), ranking |-> Ranking(i), shape |-> ShapePenalty(i),
                                 hitGroup |-> HasHit(i), token |-> LastToken(i)]]
  /\ at' = "rewarded"
  /\ UNCHANGED <<training, order>>

Next == Balance \/ Reward

-----------------------------------------------------------------------------
\* What the beams of a prompt are paid is decided by these beams alone, however the
\* batch mixes them with those of other prompts: without a hit none is told from
\* the others by its place; with one, every miss loses, no two the same, and the hits
\* nothing.  In a batch that was not reordered the better beam loses more, also if the
\* other is no item at all (InvalidIsWorse is what a test says of that).  The
\* reward is on a token of its completion.  Rows without uid and index are no groups.
RewardsStayInTheGroup ==
  at = "rewarded" /\ training.keyed =>
    \A i \in Rows :
      LET mates == {j \in Rows : order[j].prompt = order[i].prompt}
          won == \E j \in mates : order[j].kind = "hit"
      IN /\ rewards[i].ranking < 0 <=> won /\ order[i].kind # "hit"
         /\ rewards[i].ranking <= 0
         /\ \A j \in mates \ {i} :
              rewards[i].ranking < 0 /\ rewards[j].ranking < 0 =>
                /\ rewards[i].ranking # rewards[j].ranking
                /\ ~training.balanced /\ order[i].beam < order[j].beam =>
                     rewards[i].ranking < rewards[j].ranking
         /\ rewards[i].token \in 1 .. Tokens(i)

\* In a group with a hit, a beam that is no item is paid less than the miss before it.
Total(i) == rewards[i].ranking + rewards[i].shape
InvalidIsWorse ==
  at = "rewarded" /\ training.keyed /\ ~training.balanced =>
    \A i, j \in Rows :
      /\ order[i].prompt = order[j].prompt /\ order[i].beam < order[j].beam
      /\ order[i].kind = "miss" /\ order[j].kind = "invalid" /\ rewards[j].hitGroup
      => Total(j) < Total(i)
=============================================================================
