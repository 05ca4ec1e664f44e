------------------------------ MODULE BeamSearch ------------------------------
(***************************************************************************)
(* run_async_beam_search of verl_gr/workers/rollout/beam_backend.py, alone *)
(* or under the prefix trie of constraints.py, against an engine that may  *)
(* answer a step with any tokens: it is asked for the allowed ones, which  *)
(* "may not be fully enforced" (beam_backend.py:91).                       *)
(*                                                                         *)
(* One action handles one output of a step, in the order of the loop.      *)
(* Log-probabilities are small integers; the score of a beam is its total  *)
(* over a divisor, its length to the power of length_penalty, compared     *)
(* without the division. The prompt ends in the response header under      *)
(* which the trie files the first token.                                   *)
(***************************************************************************)
EXTENDS Integers, FiniteSets, SequencesExt, Sorting

CONSTANTS
  Catalogue,      \* the items, each a sequence of tokens
  EOS,            \* eos_token_id, larger than every token of an item
  Logprob,        \* the log-probabilities the engine gives
  PromptLen,      \* len(prompt_token_ids)
  Divisor,        \* seq_len ** length_penalty of every length
  Calls           \* the calls considered: mode, width, budget, constrained, ignoreEos

Token == {EOS} \cup UNION {Range(item) : item \in Catalogue}

\* The arguments of a call; budget is max_tokens.
Call == [mode : {"deterministic_beam", "stochastic_constrained"}, width : Nat \ {0},
         budget : Nat, constrained : BOOLEAN, ignoreEos : BOOLEAN]

\* Assumed of the constants by RunParts.
ConstantsAssumption ==
  /\ IsFiniteSet(Catalogue) /\ Catalogue # {}
  /\ \A item \in Catalogue : item \in Seq(0 .. EOS - 1) /\ item # <<>>
  /\ Logprob \subseteq {n \in Int : n <= 0}
  /\ EOS \in Nat
  /\ PromptLen \in Nat
  /\ Divisor \in Seq(Nat \ {0})
  /\ Calls \subseteq Call /\ \A c \in Calls : PromptLen + c.budget < Len(Divisor)

VARIABLES
  call,      \* the arguments
  phase,     \* "search", "done" (returned) or "failed" (raised)
  step,      \* for step in range(max_tokens)
  beamIdx,   \* the next output of the step
  active,    \* beams of the step
  expanded,  \* their continuations
  completed, \* beams that ended in EOS, in the end the beams returned
  obeyed,    \* history: each output so far named exactly the allowed tokens
  strayed    \* history: some output had a token and no log-probabilities

vars == <<call, phase, step, beamIdx, active, expanded, completed, obeyed, strayed>>

-------------------------------------------------------------------------------
(* The constraint and the scores.                                          *)

\* The token sequences of the trie (PrefixTrieConstraint.from_info_file).
Spelled == {Append(item, EOS) : item \in Catalogue}

\* allowed_tokens, with the EOS fallback for a prefix the trie does not have.
Allowed(generated) ==
  LET next == {s[Len(generated) + 1] : s \in {t \in Spelled : IsStrictPrefix(generated, t)}}
  IN  IF next = {} THEN {EOS} ELSE next

Beam(tokens, total) == [tokens |-> tokens, total |-> total]
Extend(beam, t, logprob) == Beam(Append(beam.tokens, t), beam.total + logprob)
EndsInEOS(beam) == beam.tokens # <<>> /\ Last(beam.tokens) = EOS

\* The length a score is divided by: the final EOS does not count.
Length(beam) ==
  LET n == PromptLen + Len(beam.tokens) - (IF EndsInEOS(beam) THEN 1 ELSE 0)
  IN  IF n < 1 THEN 1 ELSE n

\* beam_search_score of b is larger than that of c.
Outscores(b, c) ==
  b.total * Divisor[Length(c)] > c.total * Divisor[Length(b)]

\* The stable sort by falling score.
Sorted(beams) ==
  LET first(i, j) == \/ Outscores(beams[i], beams[j])
                     \/ ~Outscores(beams[j], beams[i]) /\ i < j
      places == DOMAIN beams
      order == Ordered(places, {p \in places \X places : first(p[1], p[2])})
  IN  [k \in DOMAIN order |-> beams[order[k]]]

Top(beams) == SubSeq(Sorted(beams), 1, Min({call.width, Len(beams)}))

-------------------------------------------------------------------------------
Stochastic == call.mode = "stochastic_constrained"

Init ==
  /\ call \in Calls
  /\ phase = "search"
  /\ step = 0
  /\ beamIdx = 1
  /\ active = [i \in 1 .. (IF Stochastic THEN call.width ELSE 1) |-> Beam(<<>>, 0)]
  /\ expanded = <<>>
  /\ completed = <<>>
  /\ obeyed = TRUE
  /\ strayed = FALSE

InStep == phase = "search" /\ step < call.budget
Handling == InStep /\ beamIdx <= Len(active)
StepIsOver == InStep /\ beamIdx > Len(active)

Current == active[beamIdx]
AllowedNow == IF call.constrained THEN Allowed(Current.tokens) ELSE Token

\* A continuation that ends in EOS is completed, any other is expanded.
Add(beams) ==
  LET ends == {k \in DOMAIN beams : EndsInEOS(beams[k]) /\ ~call.ignoreEos}
  IN  /\ expanded' = expanded \o At(beams, DOMAIN beams \ ends)
      /\ completed' = completed \o At(beams, ends)

\* add_fallback_token: EOS if it is allowed, else the smallest token. It is
\* called under a constraint; without one the beam is dropped.
Fallback ==
  LET t == IF EOS \in AllowedNow THEN EOS ELSE Min(AllowedNow)
  IN  IF call.constrained THEN <<Extend(Current, t, 0)>> ELSE <<>>

NextOutput ==
  /\ beamIdx' = beamIdx + 1
  /\ UNCHANGED <<call, phase, step, active>>

\* The ranked tokens that the constraint allows.
Filtered(ranked) == At(ranked, {k \in DOMAIN ranked : ranked[k] \in AllowedNow})

\* The rankings of the tokens an output names, up to the order of ties.
Rankings(named) ==
  {r \in SetToSeqs(DOMAIN named) :
     \A i, j \in DOMAIN r : i < j => named[r[i]] >= named[r[j]]}

\* An output with log-probabilities for some tokens, or with no token: the
\* beam goes on with the best 2 * width that are allowed, or else with a
\* forced token. In the stochastic mode an output that is not empty has a
\* sample (HandleSample).
HandleLogprobs ==
  /\ Handling
  /\ \E shown \in SUBSET Token :
     \E named \in [shown -> Logprob] :
     \E ranking \in Rankings(named) :
       LET tokens == Filtered(SubSeq(ranking, 1, Min({2 * call.width, Len(ranking)})))
       IN  /\ Stochastic => shown = {}
           /\ Add(IF tokens = <<>> THEN Fallback
                  ELSE [k \in DOMAIN tokens |-> Extend(Current, tokens[k], named[tokens[k]])])
           /\ obeyed' = (obeyed /\ shown = AllowedNow)
  /\ NextOutput
  /\ UNCHANGED strayed

\* The stochastic mode goes on with the token that was sampled, if the output
\* gives its log-probability and the constraint allows it.
HandleSample ==
  /\ Handling
  /\ Stochastic
  /\ \E sampled \in Token, logprob \in Logprob, given \in BOOLEAN :
       Add(IF given /\ Filtered(<<sampled>>) # <<>>
           THEN <<Extend(Current, sampled, logprob)>>
           ELSE Fallback)
  /\ NextOutput
  /\ UNCHANGED <<obeyed, strayed>>

\* An output with a token and no log-probabilities: the token is taken as it
\* is, and the beam is searched on even if it is EOS.
HandleBareToken ==
  /\ Handling
  /\ \E t \in Token : expanded' = Append(expanded, Extend(Current, t, 0))
  /\ strayed' = TRUE
  /\ NextOutput
  /\ UNCHANGED <<completed, obeyed>>

\* finish_reason "error"
HandleError ==
  /\ Handling
  /\ phase' = "failed"
  /\ UNCHANGED <<call, step, beamIdx, active, expanded, completed, obeyed, strayed>>

\* Mutant: the search stops as soon as one beam has ended.
OneEnded == expanded = <<>> \/ completed # <<>>

NothingToExpand == expanded = <<>>

NextStep ==
  /\ StepIsOver
  /\ ~NothingToExpand
  /\ active' = Top(expanded)
  /\ expanded' = <<>>
  /\ step' = step + 1
  /\ beamIdx' = 1
  /\ UNCHANGED <<call, phase, completed, obeyed, strayed>>

\* Mutant: beams that have not ended are returned with those that have.
EndedAndActive == completed \o active

\* The beams to return: those that ended, or else the active ones.
Candidates == IF completed = <<>> THEN active ELSE completed

Return ==
  /\ \/ StepIsOver /\ NothingToExpand
     \/ phase = "search" /\ step = call.budget
  /\ completed' = Top(Candidates)
  /\ phase' = "done"
  /\ UNCHANGED <<call, step, beamIdx, active, expanded, obeyed, strayed>>

\* The call has returned or raised.
Rest == phase # "search" /\ UNCHANGED vars

Next ==
  \/ HandleLogprobs \/ HandleSample \/ HandleBareToken \/ HandleError
  \/ NextStep \/ Return \/ Rest

Spec == Init /\ [][Next]_vars

-------------------------------------------------------------------------------
(* What the call promises.                                                 *)

WithoutEOS(tokens) == At(tokens, {k \in DOMAIN tokens : tokens[k] # EOS})

\* Whatever tokens the engine names, and however many of its outputs are
\* empty, a constrained search returns at least one beam, and only items of
\* the catalogue, or, what could not be finished within max_tokens, prefixes
\* of items, and never both unless the EOS is ignored: the forced tokens of
\* add_fallback_token stay in the trie (beam_backend.py:87-108, 159-163,
\* 191-198).
ReturnsItems ==
  LET whole(b) == WithoutEOS(b.tokens) \in Catalogue
      cut(b) == /\ step = call.budget /\ Len(b.tokens) = call.budget
                /\ \E s \in Spelled : IsPrefix(b.tokens, s)
      returned == Range(completed)
  IN  phase = "done" /\ call.constrained /\ ~strayed =>
        /\ completed # <<>>
        /\ \A b \in returned : whole(b) \/ cut(b)
        /\ call.ignoreEos \/ (\A b \in returned : whole(b)) \/ (\A b \in returned : cut(b))

\* A deterministic search returns no sequence of tokens twice, nor a sequence
\* and the same one ended: the duplicates that "compress the effective beam
\* width" (beam_backend.py:187-190).
DistinctBeams ==
  phase = "done" /\ ~Stochastic =>
    \A i, j \in DOMAIN completed :
      LET cut(b) == IF EndsInEOS(b) /\ ~call.ignoreEos THEN Front(b.tokens) ELSE b.tokens
      IN  i # j => cut(completed[i]) # cut(completed[j])

Longest == CHOOSE n \in {Len(item) : item \in Catalogue} :
             \A item \in Catalogue : Len(item) <= n

\* A constrained search with tokens enough for the longest item and its EOS
\* fills the group that waits for its beams: in the stochastic mode always,
\* in the deterministic mode when the engine names the allowed tokens and the
\* catalogue has items enough. Neither the cut to width nor that to 2 * width
\* nor a beam that ends early takes a place away (beam_backend.py:85, 154-185).
FillsTheGroup ==
  phase = "done" /\ call.constrained /\ ~strayed /\ call.budget > Longest =>
    /\ Stochastic => Len(completed) = call.width
    /\ ~Stochastic /\ obeyed => Len(completed) = Min({call.width, Cardinality(Catalogue)})
===============================================================================
