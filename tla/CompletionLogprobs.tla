------------------------- MODULE CompletionLogprobs -------------------------
(***************************************************************************)
(* CompletionOnlyLogprobMixin of                                           *)
(* verl_gr/workers/engine/completion_only_logprob.py: the log-probability  *)
(* of the tokens of the completions alone, for a micro-batch of samples of *)
(* different lengths.  Either the samples are packed one after the other   *)
(* and the positions are picked from the packed logits, or they are padded *)
(* and the last columns are taken and packed.                              *)
(*                                                                         *)
(* A token is <<sample, position>>, and so are the logits computed at it.  *)
(* A log-probability is <<logits, token>>: what it says of which token.    *)
(***************************************************************************)
EXTENDS Integers, Sequences, SequencesExt

CONSTANTS
  Samples,  \* the lengths of a sample: records of prompt and response
  Engines,  \* what the engine and the batch are configured to
  Null

\* Assumed of the constants by RunParts.
LogprobAssumption ==
  /\ Samples \subseteq [prompt : Nat \ {0}, response : Nat]
  /\ Engines \subseteq [padded : BOOLEAN, tensors : BOOLEAN, mask : BOOLEAN, eosIsPad : BOOLEAN,
                        declared : BOOLEAN, width : Nat \ {0}]
  /\ \A s \in Samples, e \in Engines : s.response <= e.width

VARIABLES
  micro,   \* the micro-batch
  engine,  \* padded: completion_only_force_padded; tensors: prompts and responses
           \* are there, width columns of responses; mask: so is the loss mask;
           \* declared: and max_response_len
  inputs,  \* the positions to pick, or the padded rows
  logps,   \* the packed log-probabilities
  at       \* "prepare", "forward", "done" or "failed"

vars == <<micro, engine, inputs, logps, at>>

SeqLen(i) == micro[i].prompt + micro[i].response

\* Where a sample ends or begins in the packed tensors (cu_seqlens).
Before(i) == MapThenSumSet(SeqLen, 1 .. i - 1)
Packed == FlattenSeq([i \in DOMAIN micro |-> [k \in 1 .. SeqLen(i) |-> <<i, k>>]])

\* The response tokens that are not the pad token, which a final EOS may be.
NotPad(i) == micro[i].response - (IF engine.eosIsPad /\ micro[i].response > 0 THEN 1 ELSE 0)

\* _prompt_and_response_lens
ResponseLen(i) == IF engine.mask THEN micro[i].response ELSE NotPad(i)
PromptLength(i) == IF engine.mask THEN SeqLen(i) - ResponseLen(i) ELSE micro[i].prompt

\* _max_response_len
MaxResponseLen ==
  IF engine.declared THEN engine.width ELSE Max({ResponseLen(i) : i \in DOMAIN micro})

\* Mutant: the logits at a token are taken for those of it, not of the next.
AtTheToken(i) == Before(i) + PromptLength(i) + 1

\* _build_completion_logit_indices: the last token of the prompt gives the logits
\* of the first of the response.
FirstIndex(i) == Before(i) + PromptLength(i)

Indices ==
  FlattenSeq([i \in DOMAIN micro |->
    IF PromptLength(i) <= 0 THEN <<>>
    ELSE [j \in 1 .. ResponseLen(i) |-> FirstIndex(i) + j - 1]])

\* _build_padded_completion_inputs: left-padded prompts, trimmed to the longest,
\* before the responses; or else the samples padded on their right.
LongestPrompt == Max({micro[i].prompt : i \in DOMAIN micro})
Row(i) ==
  IF engine.tensors
  THEN [c \in 1 .. LongestPrompt + engine.width |->
          LET k == c - (LongestPrompt - micro[i].prompt)
          IN  IF k \in 1 .. SeqLen(i) THEN <<i, k>> ELSE Null]
  ELSE [c \in 1 .. Max({SeqLen(k) : k \in DOMAIN micro}) |->
          IF c <= SeqLen(i) THEN <<i, c>> ELSE Null]

Init ==
  /\ micro \in Samples \X Samples
  /\ engine \in Engines
  /\ inputs = <<>> /\ logps = <<>>
  /\ at = "prepare"

\* prepare_model_inputs
Prepare ==
  /\ at = "prepare"
  /\ inputs' = IF engine.padded THEN [i \in DOMAIN micro |-> Row(i)] ELSE Indices
  /\ at' = "forward"
  /\ UNCHANGED <<micro, engine, logps>>

Nothing == [t \in DOMAIN Packed |-> Null]

\* The labels of the packed tokens are these rolled by one.
Rolled(t) == Packed[(t % Len(Packed)) + 1]

\* _scatter_selected_log_probs
Scattered == [t \in DOMAIN Packed |-> IF t \in ToSet(inputs) THEN <<Packed[t], Rolled(t)>> ELSE Null]

\* per_token_logps_logits_to_keep: of the last columns, each by the one before.
LastColumns(i) ==
  LET from == Len(inputs[i]) - MaxResponseLen
  IN  [j \in 1 .. MaxResponseLen |-> <<inputs[i][from + j - 1], inputs[i][from + j]>>]

\* nested_log_probs_from_completion_logps: the offset of a sample is the sum of
\* the lengths resolved for those before it.
PackedFrom(i) == MapThenSumSet(LAMBDA k : PromptLength(k) + ResponseLen(k), 1 .. i - 1) + PromptLength(i)
PackedBack ==
  LET taken(i) == Min({ResponseLen(i), MaxResponseLen}) IN
  [t \in DOMAIN Packed |->
     LET from == {i \in DOMAIN micro : t - PackedFrom(i) \in 0 .. taken(i) - 1}
     IN  IF from = {} THEN Null ELSE LastColumns(Max(from))[t - PackedFrom(Max(from)) + 1]]

\* prepare_model_outputs; more columns than there are cannot be gathered.
Forward ==
  /\ at = "forward"
  /\ IF engine.padded /\ MaxResponseLen >= Len(inputs[1])
     THEN at' = "failed" /\ UNCHANGED logps
     ELSE /\ logps' = IF engine.padded THEN PackedBack ELSE Scattered
          /\ at' = "done"
  /\ UNCHANGED <<micro, engine, inputs>>

Next == Prepare \/ Forward

------------------------------------------------------------------------------
\* The lengths are counted right: by the loss mask, or by a pad token of its own.
Counted == engine.mask \/ ~engine.eosIsPad

\* What a batch of the trainer has: its tensors, and the width of its responses.
AsTrained == engine.tensors /\ engine.declared

\* Either way of computing them gives every token of a response its own
\* log-probability, at the place from which the loss takes it, and nothing to any
\* other place, whatever the lengths of the samples.
LogprobsOfCompletions ==
  Counted /\ (engine.padded => AsTrained) =>
    /\ at # "failed"
    /\ at = "done" =>
         /\ DOMAIN logps = DOMAIN Packed
         /\ \A i \in DOMAIN micro : \A k \in 1 .. SeqLen(i) :
              logps[Before(i) + k] =
                IF k \in micro[i].prompt .. SeqLen(i) - 1 THEN <<<<i, k>>, <<i, k + 1>>>> ELSE Null
==============================================================================
