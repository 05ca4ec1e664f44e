---------------------------- MODULE HFGeneration ----------------------------
(***************************************************************************)
(* The searches of one rank of MiniOneRec:                                 *)
(*   verl_gr/recipes/minionerec/minionerec_fsdp_workers.py keeps the       *)
(*   generators of a process, one for each set of parameters;              *)
(*   verl_gr/recipes/minionerec/hf_constrained_generation.py searches the  *)
(*   prompts of a call in micro-batches, constrained by a prefix trie.     *)
(*                                                                         *)
(* The beam search itself is model.generate() of transformers.  Of it the  *)
(* code relies on this: of the extensions of its live beams it looks at    *)
(* the 2 * num_beams best, those the constraint allows before all others;  *)
(* an ended beam counts only among the num_beams best.  Which are best is  *)
(* any choice, so a search that samples is not told from one that does     *)
(* not.  A beam that the constraint forbids scores -inf and stands for     *)
(* none: where the allowed ones are too few, it is an answer that is       *)
(* missing here.                                                           *)
(***************************************************************************)
EXTENDS Naturals, SequencesExt, FiniteSetsExt

CONSTANTS
  Catalogue,  \* the items, as sequences of tokens; none begins like the header
  EOS,        \* the token that ends them
  HFConfigs,  \* beam_width, val_beam_width, lengths and micro-batch of a run
  HFCalls,    \* the calls: their prompts, each TRUE if it ends in the header
  MaxCalls    \* bound on the calls of a process

\* Assumed of the constants by RunParts.
HFAssumption ==
  /\ IsFiniteSet(Catalogue) /\ Catalogue # {} /\ EOS \in Nat
  /\ \A item \in Catalogue : item \in Seq(Nat \ {EOS}) /\ item # <<>>
  /\ HFConfigs \subseteq [width : Nat \ {0}, valWidth : Nat \ {0}, train : Nat \ {0},
                          response : Nat \ {0}, micro : Nat \ {0}]
  /\ HFCalls \subseteq [validate : BOOLEAN, prompts : Seq(BOOLEAN)]
  /\ MaxCalls \in Nat

VARIABLES
  config,      \* rollout.custom and response_length
  generators,  \* _hf_cached_generators: the parameters of each
  calls,       \* how many calls there were
  call,        \* the one at hand
  gen,         \* the generator it uses
  count,       \* the steps the constraint has seen, of all the beams of a micro-batch
  beams,       \* the search of every prompt of the micro-batch
  outs,        \* the completions of the prompts searched so far
  at           \* "idle", "chunk", "step" or "done"

vars == <<config, generators, calls, call, gen, count, beams, outs, at>>

Idle == [validate |-> FALSE, prompts |-> <<>>]

Init ==
  /\ config \in HFConfigs
  /\ generators = {}
  /\ calls = 0
  /\ call = Idle
  /\ gen = <<>> /\ count = 0 /\ beams = <<>> /\ outs = <<>>
  /\ at = "idle"

\* What a call asks for: a training has a length of its own.
Parameters(c) ==
  [width |-> config.width, valWidth |-> config.valWidth, micro |-> config.micro,
   tokens |-> IF c.validate THEN config.response ELSE config.train]

\* cache_key
CacheKey(g) == <<g.width, g.valWidth, g.tokens, g.micro>>

Begin ==
  /\ at = "idle" /\ calls < MaxCalls
  /\ \E c \in HFCalls :
       LET same == {g \in generators : CacheKey(g) = CacheKey(Parameters(c))} IN
       /\ call' = c
       /\ gen' = IF same = {} THEN Parameters(c) ELSE CHOOSE g \in same : TRUE
       /\ generators' = generators \cup {gen'}
  /\ calls' = calls + 1
  /\ outs' = <<>>
  /\ at' = "chunk"
  /\ UNCHANGED <<config, count, beams>>

\* generate_train or generate_eval
NumBeams == IF call.validate THEN gen.valWidth ELSE gen.width

NewSearch == [live |-> {<<>>}, ended |-> {}, done |-> FALSE]

\* A micro-batch begins, with a constraint of its own.
StartChunk ==
  /\ at = "chunk" /\ Len(outs) < Len(call.prompts)
  /\ beams' = [k \in 1 .. Min({gen.micro, Len(call.prompts) - Len(outs)}) |-> NewSearch]
  /\ count' = 0
  /\ at' = "step"
  /\ UNCHANGED <<config, generators, calls, call, gen, outs>>

Headed(k) == call.prompts[Len(outs) + k]

\* _build_hash_dict: what may follow the header and then the tokens s.
Following(s) ==
  {t \in {EOS} \cup UNION {Range(item) : item \in Catalogue} :
     \E item \in Catalogue : IsPrefix(Append(s, t), Append(item, EOS))}

\* _ConstrainedLogitsProcessor: the key is the end of the prompt in its first step
\* and the last count tokens after that; a key that is not there forces EOS.
AllowedTokens(k, s) ==
  LET key == SubSeq(s, Len(s) - count + 1, Len(s))
      found == IF count = 0 /\ ~Headed(k) THEN {} ELSE Following(key)
  IN  IF found = {} THEN {EOS} ELSE found

Closed(S) == {s \in S : Last(s) = EOS}
UpTo(n, S) == kSubset(Min({n, Cardinality(S)}), S)

\* The choices of a step: the candidates that are looked at, the best of them, and
\* the beams that live on, of these before the others.
Selections(candidates) ==
  UNION {{[looked |-> looked, top |-> top, live |-> live] :
            top \in UpTo(NumBeams, looked), live \in UpTo(NumBeams, looked \ Closed(looked))} :
         looked \in UpTo(2 * NumBeams, candidates)}

\* The searches that one step can make of search k; it may stop when it is full.
AfterStep(k) ==
  LET b == beams[k]
      candidates == UNION {{Append(s, t) : t \in AllowedTokens(k, s)} : s \in b.live}
      choices == {c \in Selections(candidates) : c.top \ Closed(c.top) \subseteq c.live}
      pool(c) == b.ended \cup Closed(c.top)
      searches(c) ==
        {s \in [live : {c.live}, ended : UpTo(NumBeams, pool(c)), done : BOOLEAN] :
           /\ c.live = {} => s.done
           /\ s.done => c.live = {} \/ Cardinality(pool(c)) >= NumBeams}
  IN  IF b.done THEN {b} ELSE UNION {searches(c) : c \in choices}

\* A step of model.generate() for all prompts of the micro-batch, and of count.
Step ==
  /\ at = "step" /\ count < gen.tokens /\ \E k \in DOMAIN beams : ~beams[k].done
  /\ beams' \in {b \in [DOMAIN beams -> UNION {AfterStep(k) : k \in DOMAIN beams}] :
                   \A k \in DOMAIN beams : b[k] \in AfterStep(k)}
  /\ count' = count + 1
  /\ UNCHANGED <<config, generators, calls, call, gen, outs, at>>

\* The sequences model.generate() can return of a search: if it was cut, live beams
\* take the places that are left, or only if none has ended.
Answers(b) ==
  LET pool == b.ended \cup IF b.done THEN {} ELSE b.live IN
  kSubset(Min({NumBeams, Cardinality(pool)}), pool) \cup IF b.ended = {} THEN {} ELSE {b.ended}

\* It pads them to one length, with the pad token that EOS is.
PaddedTo(s, n) == s \o [i \in 1 .. n - Len(s) |-> EOS]

\* clean_ids: up to the first EOS, with it.
Clean(s) == LET eos == SelectInSeq(s, LAMBDA t : t = EOS) IN
            IF eos = 0 THEN s ELSE SubSeq(s, 1, eos)

Collect ==
  /\ at = "step"
  /\ count = gen.tokens \/ \A k \in DOMAIN beams : beams[k].done
  /\ \E answers \in [DOMAIN beams -> UNION {Answers(beams[k]) : k \in DOMAIN beams}] :
       /\ \A k \in DOMAIN beams : answers[k] \in Answers(beams[k])
       /\ outs' = outs \o [k \in DOMAIN beams |-> {Clean(PaddedTo(s, count)) : s \in answers[k]}]
  /\ at' = "chunk"
  /\ UNCHANGED <<config, generators, calls, call, gen, count, beams>>

Return ==
  /\ at = "chunk" /\ Len(outs) = Len(call.prompts)
  /\ at' = "done"
  /\ UNCHANGED <<config, generators, calls, call, gen, count, beams, outs>>

\* The next call of the process finds the generators only.
Leave ==
  /\ at = "done"
  /\ call' = Idle /\ gen' = <<>> /\ count' = 0 /\ beams' = <<>> /\ outs' = <<>>
  /\ at' = "idle"
  /\ UNCHANGED <<config, generators, calls>>

Next == Begin \/ StartChunk \/ Step \/ Collect \/ Return \/ Leave

-----------------------------------------------------------------------------
Width == IF call.validate THEN config.valWidth ELSE config.width
Tokens == Parameters(call).tokens
Ended(item) == Append(item, EOS)
Longest == Max({Len(item) : item \in Catalogue})

\* A rank answers every prompt of a call, and never with an empty completion: a
\* completion is a whole item with its EOS, or the beginning of one that the length
\* of this call cut, whatever calls the generators served before; only a prompt that
\* does not end in the header gets a bare EOS.
CompletionsAreItems ==
  at = "done" =>
    /\ Len(outs) = Len(call.prompts)
    /\ \A p \in DOMAIN outs : \A c \in outs[p] :
         IF ~call.prompts[p] THEN c = <<EOS>>
         ELSE \E item \in Catalogue :
                c = Ended(item) \/ (Len(c) = Tokens /\ IsStrictPrefix(c, Ended(item)))

\* If there are as many items as beams and the length of the call holds each, a
\* prompt gets as many different ones as the call is to return: no place in the
\* search is lost to a beam that ended or that the constraint forbids.
EveryBeamFilled ==
  at = "done" /\ Cardinality(Catalogue) >= Width /\ Tokens > Longest =>
    \A p \in DOMAIN outs : call.prompts[p] =>
      /\ Cardinality(outs[p]) = Width
      /\ outs[p] \subseteq {Ended(item) : item \in Catalogue}
=============================================================================
