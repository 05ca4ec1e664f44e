------------------------------- MODULE MCRunParts -------------------------------
(* Small instances of the parts of RunParts. *)
EXTENDS RunParts, Sequences, TLC

---------------------------------------------------------------------------------
(* RunSetup: configurations that name a recipe, widths, lengths and a model at     *)
(* every place the code looks for them.                                            *)

Plain ==
  [name |-> Null, classPath |-> Null, rollout |-> Null, dataset |-> Null,
   reward |-> Null, oldReward |-> Null, rankGrpo |-> FALSE, loop |-> Null,
   beamWidth |-> Null, stage2BeamSize |-> Null, beamSize |-> Null, valBeamWidth |-> Null,
   groups |-> Null, n |-> Null, valN |-> Null,
   stage1Tokens |-> Null, stage2Tokens |-> Null, paramsTokens |-> Null, itemTokens |-> Null,
   reasoningTokens |-> Null, response |-> Null, trainMode |-> "hf", valMode |-> "hf",
   rank |-> Null, nestedRank |-> Null, adapterPath |-> Null,
   strategy |-> "fsdp", engine |-> Null, engineClass |-> Null, roleClass |-> Null,
   useKl |-> Null, klInReward |-> Null, optimizer |-> Null, buried |-> Null,
   adapterClass |-> Null]

\* The rollout a recipe registers.
RolloutOf == [openonerec |-> "two_stage", minionerec |-> "constrained_beam", rankgrpo |-> "rankgrpo"]

\* The adapter that the configurations of a recipe name.
ClassOf ==
  [openonerec |-> "OpenOneRecTrainerAdapter", minionerec |-> "MiniOneRecTrainerAdapter", rankgrpo |-> Null]

\* All of one recipe.
Of(recipe) ==
  [Plain EXCEPT !.name = recipe, !.rollout = RolloutOf[recipe], !.loop = recipe,
                !.adapterClass = ClassOf[recipe],
                !.rankGrpo = (recipe = "rankgrpo"), !.beamWidth = 2]
Nameless == [Of("openonerec") EXCEPT !.name = Null]

RecipeConfigs ==
  {[Plain EXCEPT !.name = name, !.classPath = path, !.rollout = rollout, !.dataset = d,
                 !.oldReward = reward, !.rankGrpo = r, !.loop = name] :
     name \in {"openonerec", "minionerec", "rankgrpo", "other", Null},
     path \in {Null, "minionerec"},
     rollout \in {"two_stage", "constrained_beam", "rankgrpo", "vllm"},
     d \in {Null, "minionerec", "rankgrpo"}, reward \in {Null, "minionerec", "rankgrpo"},
     r \in BOOLEAN}
WidthConfigs ==
  {[Of(recipe) EXCEPT !.beamWidth = w, !.stage2BeamSize = s, !.beamSize = b, !.valBeamWidth = v,
                      !.groups = g, !.n = n, !.valN = vn] :
     recipe \in {"openonerec", "minionerec"}, w \in {Null, 2, 3}, s \in {Null, 3}, b \in {Null, 3},
     v \in {Null, 3}, g \in {Null, 0, 2}, n \in {Null, 2}, vn \in {Null, 3}}
TokenConfigs ==
  {[c EXCEPT !.stage1Tokens = s1, !.stage2Tokens = s2, !.paramsTokens = p, !.itemTokens = i,
             !.reasoningTokens = r] :
     c \in {Of("openonerec"), Nameless}, s1 \in {Null, 5}, s2 \in {Null, 6}, p \in {Null, 7},
     i \in {Null, 8}, r \in {Null, 9}}
ModeConfigs ==
  {[Of("minionerec") EXCEPT !.trainMode = t, !.valMode = v] : t \in {"hf", "other"}, v \in {"hf", "other"}}
ModelConfigs ==
  {[Of("openonerec") EXCEPT !.rank = r, !.nestedRank = q, !.adapterPath = a, !.strategy = s,
                            !.roleClass = role, !.useKl = k, !.klInReward = kr] :
     r \in {Null, 8}, q \in {Null, 0, 4}, a \in {Null, "path"}, s \in {Null, "fsdp"},
     role \in {Null, "ddp"}, k \in {Null, TRUE}, kr \in {Null, TRUE}}
BuriedConfigs ==
  {[Of("minionerec") EXCEPT !.optimizer = o, !.buried = b] :
     o \in {Null, "AdamW", "bnb"}, b \in {Null, "AdamW", "bnb"}}

\* Of one recipe, by a task or a rollout of another.
MixedConfigs ==
  {[Of(recipe) EXCEPT !.classPath = path, !.name = name, !.rollout = rollout, !.n = n,
                      !.valN = vn] :
     recipe \in {"openonerec", "minionerec"}, path \in {Null, "openonerec", "minionerec", "rankgrpo"},
     name \in {"openonerec", "minionerec", "rankgrpo"}, rollout \in {"two_stage", "constrained_beam", "vllm"},
     n \in {Null, 2}, vn \in {Null, 4}}

MCSetups == RecipeConfigs \cup WidthConfigs \cup TokenConfigs \cup ModeConfigs \cup ModelConfigs
               \cup BuriedConfigs \cup MixedConfigs

---------------------------------------------------------------------------------
(* BeamSearch                                                                      *)

\* Three items over two tokens; the third is shorter than the others.
SmallCatalogue == {<<0, 0>>, <<0, 1>>, <<1>>}

Args(mode, width, budget, constrained, ignoreEos) ==
  [mode |-> mode, width |-> width, budget |-> budget,
   constrained |-> constrained, ignoreEos |-> ignoreEos]

\* Budget 3 ends the longest item, budget 2 does not, budget 0 is a prompt
\* that fills max_model_len.
SmallCalls ==
  {Args("deterministic_beam", w, 3, TRUE, FALSE) : w \in 1 .. 3}
    \cup {Args("deterministic_beam", 2, 3, TRUE, TRUE)}
    \cup {Args(m, 2, n, c, FALSE) :
            m \in {"deterministic_beam", "stochastic_constrained"},
            n \in {0, 2}, c \in BOOLEAN}
    \cup {Args("stochastic_constrained", 2, 3, TRUE, FALSE)}

Twice == {-2, -1}

\* length_penalty 1 of the lengths there are.
Lengthwise == <<1, 2, 3, 4, 5>>

---------------------------------------------------------------------------------
(* HFGeneration                                                                    *)

\* Items that share their beginnings, one the beginning of another.
MCItems == {<<0, 0>>, <<0, 1>>, <<0, 1, 1>>, <<1>>, <<1, 0>>}

HFConfig(width, valWidth, train, response, microBatch) ==
  [width |-> width, valWidth |-> valWidth, train |-> train, response |-> response, micro |-> microBatch]

\* A training shorter than the items and a validation as long, one beam and three,
\* micro-batches of one prompt and of two.
MCHFConfigs == {HFConfig(2, 3, 2, 4, 2), HFConfig(1, 2, 4, 4, 1), HFConfig(2, 1, 3, 2, 2)}

\* Shards of none to three prompts, some cut before the header.
MCHFCalls ==
  [validate : BOOLEAN, prompts : {<<TRUE, TRUE>>, <<TRUE, FALSE, TRUE>>, <<FALSE>>, <<>>}]

---------------------------------------------------------------------------------
(* GatedFit                                                                        *)

Reading(kl, lags, blowout, klAligned, lpAligned) ==
  [kl |-> kl, lags |-> lags, blowout |-> blowout, klAligned |-> klAligned, lpAligned |-> lpAligned]

\* Two KLs above the floor, one less than half of the other; one under it; none.
MCReadings ==
  {Reading(5, FALSE, FALSE, "yes", "yes"), Reading(2, FALSE, FALSE, "no", "skip"),
   Reading(0, FALSE, TRUE, "skip", "no"), Reading(-1, TRUE, FALSE, "skip", "skip")}

\* Three processes without the watchdogs, two with the one of the KL, and one
\* with all of them.
Config(watchdog, report, logging, runs) ==
  [watchdog |-> watchdog, report |-> report, logging |-> logging, runs |-> runs]
MCConfigs ==
  {Config(FALSE, FALSE, 1, 3), Config(TRUE, FALSE, 1, 2), Config(TRUE, TRUE, 1, 1),
   Config(TRUE, TRUE, 2, 1)}

---------------------------------------------------------------------------------
(* ValidationScores                                                                *)

\* Two prompts of one source, of which the one asks for what is wrong for the other.
MCSource == <<"a", "a", "b">>
MCTruth == <<1, 2, 1>>
MCOther == <<2, 1, 2>>

Way(recipe, eng, twoStage, search, n, width) ==
  [recipe |-> recipe, engine |-> eng, twoStage |-> twoStage, search |-> search,
   n |-> n, width |-> width]
Ways ==
  {Way("openonerec", "async", TRUE, FALSE, 3, 3), Way("openonerec", "sync", TRUE, FALSE, 1, 2),
   Way("openonerec", "sync", FALSE, TRUE, 3, 1), Way("openonerec", "async", FALSE, FALSE, 2, 1),
   Way("minionerec", "async", FALSE, FALSE, 2, 1), Way("minionerec", "sync", FALSE, FALSE, 2, 1),
   Way("rankgrpo", "async", FALSE, FALSE, 1, 1), Way("rankgrpo", "async", FALSE, FALSE, 2, 1)}

\* One batch, and two of different lengths, padded for one, three and four workers.
AnyPlans ==
  {w @@ [batches |-> b, divisor |-> d, keyed |-> k, reward |-> r] :
     w \in Ways, b \in {<<<<1, 2>>>>, <<<<1, 2>>, <<3>>>>, <<<<1>>, <<2, 3>>>>}, d \in {1, 3, 4},
     k \in BOOLEAN, r \in BOOLEAN}

\* Only MiniOneRec looks for keys, and only RankGRPO for rewards of the reward function.
MCPlans == {p \in AnyPlans : (p.recipe # "minionerec" => p.keyed) /\ (p.recipe # "rankgrpo" => p.reward)}

---------------------------------------------------------------------------------
(* GroupRewards                                                                    *)

\* Two groups of two beams, and a group of three beside one of one.
MCBatches == {<<1, 1, 2, 2>>, <<1, 1, 1, 2>>}
MCKinds == {"hit", "miss", "invalid", "empty"}
MCTrainings ==
  {[keyed |-> k, balanced |-> b, eosIsPad |-> e, empty |-> 0, invalid |-> 0] :
     k \in BOOLEAN, b \in BOOLEAN, e \in BOOLEAN}

---------------------------------------------------------------------------------
(* DatasetRows                                                                     *)

\* Below the limit with the prefix, below it without, and above it.
MCLengths == <<2, 4, 6>>

Rowset(recipe, max, shuffle, seeded, filter, truncation, prefixed, alignment) ==
  [recipe |-> recipe, max |-> max, shuffle |-> shuffle, seeded |-> seeded, filter |-> filter,
   truncation |-> truncation, prefixed |-> prefixed, alignment |-> alignment, sample |-> 1]
MCDatasets ==
  {Rowset(r, m, s, k, f, t, p, FALSE) :
     r \in {"openonerec", "rankgrpo"}, m \in {-1, 2}, s \in BOOLEAN, k \in BOOLEAN,
     f \in BOOLEAN, t \in {"left", "right", "middle", "error"}, p \in BOOLEAN}
  \cup {Rowset("minionerec", m, s, TRUE, FALSE, t, FALSE, a) :
     m \in {-1, 3}, s \in BOOLEAN, t \in {"left", "right", "error"}, a \in BOOLEAN}

---------------------------------------------------------------------------------
(* CompletionLogprobs                                                              *)

\* Prompts and responses of different lengths, some empty.
MCSamples == [prompt : 1 .. 3, response : 0 .. 3]
MCEngines == [padded : BOOLEAN, tensors : BOOLEAN, mask : BOOLEAN, eosIsPad : BOOLEAN,
              declared : BOOLEAN, width : {3, 4}]

---------------------------------------------------------------------------------
(* OfflineEval                                                                     *)

\* The newest checkpoint over HTTP and offline, a step by number without thinking, and
\* a model that was never trained.
Command(n, raw, force, skip, think, http) ==
  [step |-> n, raw |-> raw, force |-> force, skip |-> skip, think |-> think, serving |-> http]
MCCommands ==
  {Command(Null, FALSE, FALSE, FALSE, TRUE, TRUE), Command(Null, FALSE, TRUE, FALSE, TRUE, FALSE),
   Command(1, TRUE, FALSE, TRUE, FALSE, FALSE), Command(2, FALSE, TRUE, FALSE, FALSE, FALSE),
   Command(Null, TRUE, FALSE, FALSE, FALSE, FALSE)}
=================================================================================
