----------------------------- MODULE RankCredit -----------------------------
(***************************************************************************)
(* From the tokens of a completion to its token advantages in RankGRPO:    *)
(*   verl_gr/recipes/rankgrpo/rankgrpo_rollout_utils.py truncates,         *)
(*   verl_gr/recipes/rankgrpo/rankgrpo_agent_loop.py masks,                *)
(*   verl_gr/recipes/rankgrpo/rankgrpo_reward.py parses the text, and      *)
(*   verl_gr/recipes/rankgrpo/rankgrpo_algorithm.py numbers the tokens by  *)
(*   rank and gives each the advantage of its rank and the length terms.   *)
(*                                                                         *)
(* A token is a title with its year ("item"), other text ("text"), one     *)
(* line break ("nl"), two in one token ("nlnl"), or "eos".  What a rank is *)
(* worth is left out: a token is given the number of its rank.             *)
(***************************************************************************)
EXTENDS Integers, SequencesExt, FiniteSetsExt, Sorting

CONSTANTS
  MaxLength,   \* response_length: the most tokens of a completion
  RecNum       \* rec_num: the ranks of a list

\* Assumed of the constants by RolloutLoops.
CreditAssumption == {MaxLength, RecNum} \subseteq Nat \ {0}

VARIABLES
  completion,  \* the tokens the server returned
  truncate,    \* VERL_GR_TRUNCATE_AFTER_REC_NUM
  response,    \* response_ids, up to its first eos
  ranks,       \* the rank every token is credited with; -1 for none
  terms,       \* the length terms added to every token
  lines,       \* the line of the text that holds each recommendation
  stage        \* "generated", "rollout" or "credited"

vars == <<completion, truncate, response, ranks, terms, lines, stage>>

\* Text breaks into lines anywhere; eos ends a completion if it ends at all.
Text == UNION {[1 .. n -> {"item", "text", "nl", "nlnl"}] : n \in 0 .. MaxLength}
Completion ==
  {t \in Text : t # <<>>} \cup {Append(t, "eos") : t \in {u \in Text : Len(u) < MaxLength}}

Init ==
  /\ completion \in Completion
  /\ truncate \in BOOLEAN
  /\ response = <<>>
  /\ ranks = <<>>
  /\ terms = <<>>
  /\ lines = <<>>
  /\ stage = "generated"

\* str(piece).count(rank_separator)
Separators(t) == CASE t = "nl" -> 1 [] t = "nlnl" -> 2 [] OTHER -> 0

\* Mutant: a separator already belongs to the next item.
CountedAtOnce(s, i) == FoldLeft(LAMBDA n, t : n + Separators(t), 0, SubSeq(s, 1, i))

\* item_id at token i: the separators before it.
ItemId(s, i) == FoldLeft(LAMBDA n, t : n + Separators(t), 0, SubSeq(s, 1, i - 1))

-----------------------------------------------------------------------------
(* _generate_group: the response of a completion                           *)

\* truncate_response_after_rec_num: cut at the first token of overflow.
Cut(s) == SelectInSeq([i \in DOMAIN s |-> ItemId(s, i)], LAMBDA n : n >= RecNum)

\* maybe_truncate_rankgrpo_response: a response that was cut is ended with eos.
MaybeTruncated(s) ==
  IF truncate /\ Cut(s) # 0 THEN Append(SubSeq(s, 1, Cut(s) - 1), "eos") ELSE s

Rollout ==
  /\ stage = "generated"
  /\ response' = MaybeTruncated(completion)
  /\ stage' = "rollout"
  /\ UNCHANGED <<completion, truncate, ranks, terms, lines>>

-----------------------------------------------------------------------------
(* compute_rank_grpo_advantage                                             *)

\* The line of the text a token is on, counted from 0.
LineOf(s, i) ==
  LET breaks(kind) == Cardinality({j \in 1 .. i - 1 : s[j] = kind})
  IN  breaks("nl") + 2 * breaks("nlnl")
ItemOn(s, l) == \E i \in DOMAIN s : LineOf(s, i) = l /\ s[i] = "item"

\* _process_rec_raw: the lines with a title and year on them, in order; blank
\* lines and other text are skipped.
Recs(s) == Ascending({l \in {LineOf(s, i) : i \in DOMAIN s} : ItemOn(s, l)})

Overflow(s, i) == ItemId(s, i) >= RecNum

\* rank_token_mask, less the eos tokens, with the rank gathered for it.
Rank(s, i) == IF Overflow(s, i) \/ s[i] = "eos" THEN -1 ELSE ItemId(s, i)

Terminated(s) == Contains(s, "eos")
ItemsEmitted(s) == IF s = <<>> THEN 0 ELSE Max({ItemId(s, i) : i \in DOMAIN s}) + 1
ExactLength(s) ==
  ItemsEmitted(s) >= RecNum /\ Terminated(s) /\ \A i \in DOMAIN s : ~ Overflow(s, i)
EarlyStop(s) == ItemsEmitted(s) < RecNum /\ Terminated(s)

Term(s, i) ==
  {t \in {"extra_token_penalty", "end_of_list_reward", "early_stop_penalty"} :
     CASE t = "extra_token_penalty" -> Overflow(s, i)
       [] t = "end_of_list_reward"  -> s[i] = "eos" /\ ExactLength(s)
       [] t = "early_stop_penalty"  -> s[i] = "eos" /\ EarlyStop(s)}

Credit ==
  /\ stage = "rollout"
  /\ lines' = Recs(response)
  /\ ranks' = [i \in DOMAIN response |-> Rank(response, i)]
  /\ terms' = [i \in DOMAIN response |-> Term(response, i)]
  /\ stage' = "credited"
  /\ UNCHANGED <<completion, truncate, response>>

Step == Rollout \/ Credit

Spec == Init /\ [][Step]_vars

-----------------------------------------------------------------------------
\* Rank r, which the reward computed from the r-th recommendation of the text
\* (counted from 0), is given to a token of s only on the line of that one.
OnItsLine(s) ==
  \A i \in DOMAIN s : ranks[i] \in 0 .. Len(lines) - 1 => LineOf(s, i) = lines[ranks[i] + 1]

\* Every recommendation among the first RecNum has a token with its rank.
Reached == \A r \in 0 .. Min({Len(lines), RecNum}) - 1 : \E i \in DOMAIN ranks : ranks[i] = r

\* A well-formed list: every line with a line after it holds a title and year.
WellFormed(s) == \A l \in 0 .. LineOf(s, Len(s)) - 1 : ItemOn(s, l)

\* In a well-formed list the credit of each recommendation lands on the tokens
\* of its own line and on no other, and none of the first rec_num goes without:
\* truncation, the mask and the numbering of the tokens agree with the parser of
\* the text (rankgrpo_algorithm.py:260-300, rankgrpo_reward.py:48-72).
CreditFollowsTheItem ==
  stage = "credited" /\ response # <<>> /\ WellFormed(response) =>
    OnItsLine(response) /\ Reached

\* The eos of a response is judged once: it has exactly one of the three length
\* terms and no rank, and no other token has one but for overflow.  A response
\* that was truncated has no other token of overflow, and its appended eos is
\* one: a list cut after rec_num items never earns the end-of-list reward
\* (rankgrpo_algorithm.py:379-401, rankgrpo_rollout_utils.py:46-114).
EosIsJudgedOnce ==
  stage = "credited" =>
    /\ \A i \in DOMAIN response :
         IF response[i] = "eos" THEN ranks[i] = -1 /\ Cardinality(terms[i]) = 1
         ELSE terms[i] \subseteq {"extra_token_penalty"}
    /\ \A i \in DOMAIN response :
         truncate /\ Overflow(response, i) =>
           i = Len(response) /\ response[i] = "eos" /\ terms[i] = {"extra_token_penalty"}

\* The credit of a recommendation lands on the tokens of its own line, whatever
\* the text (recipes/rankgrpo/README.md:98-99).
CreditOnItsLine == stage = "credited" => OnItsLine(response)
=============================================================================
