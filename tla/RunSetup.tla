------------------------------- MODULE RunSetup -------------------------------
(***************************************************************************)
(* How a configuration becomes a run.                                      *)
(*   verl_gr/trainers/main_ppo.py: run_ppo picks the task and backfills    *)
(*     the configuration in the driver, TaskRunner.run picks it again in   *)
(*     the runner and prepares the configuration;                          *)
(*   verl_gr/core/config_compat.py: the defaults;                          *)
(*   verl_gr/recipes/task_runtime.py and the tasks of the three recipes:   *)
(*     rollout counts, agent loop, worker, LoRA;                           *)
(*   verl_gr/trainers/rl_trainer.py and the adapters of the recipes: what  *)
(*     a batch asks of the rollout, in training and in validation;         *)
(*   the agent loops and verl_gr/workers/rollout/beam_config.py: what the  *)
(*     server decodes.                                                     *)
(* Every one of these reads the recipe and the widths from keys of its     *)
(* own, and falls back on defaults of its own.                             *)
(*                                                                         *)
(* A configuration is a record with Null for a key that is absent.  Of a   *)
(* path or a class path only the recipe it names is kept.                  *)
(***************************************************************************)
EXTENDS Integers, Sequences, SequencesExt

CONSTANTS
  Configs,     \* the configurations as composed by Hydra
  AdapterRank, \* the rank in the metadata of a LoRA adapter
  Null

\* What a configuration says, or leaves to a default.
Keys == {"name", "classPath", "rollout", "dataset", "reward", "oldReward", "rankGrpo", "loop",
         "beamWidth", "stage2BeamSize", "beamSize", "valBeamWidth", "groups", "n", "valN",
         "stage1Tokens", "stage2Tokens", "paramsTokens", "itemTokens", "reasoningTokens",
         "response", "trainMode", "valMode", "rank", "nestedRank", "adapterPath",
         "strategy", "engine", "engineClass", "roleClass",
         "useKl", "klInReward", "optimizer", "buried", "adapterClass"}

Numbers == {"beamWidth", "stage2BeamSize", "beamSize", "valBeamWidth", "groups", "n", "valN",
            "rank", "nestedRank"}

\* Assumed of the constants by RunParts.
SetupAssumption ==
  /\ AdapterRank \in Nat \ {0}
  /\ Null \notin Int \cup {"openonerec", "minionerec", "rankgrpo", "AdamW"}
  /\ \A c \in Configs :
       /\ DOMAIN c = Keys /\ c = [k \in Keys |-> c[k]]
       /\ \A k \in Numbers : c[k] \in Int \cup {Null}

VARIABLES
  wanted,   \* history: the configuration the run was started with
  cfg,      \* the configuration
  at,       \* who holds it
  driver,   \* the recipe of the task the driver picked
  run,      \* what the runner and the trainer took: a record of their choices
  asked     \* the last decoding asked for, as the server resolves it

vars == <<wanted, cfg, at, driver, run, asked>>

Recipes == {"openonerec", "minionerec", "rankgrpo"}
OwnRollout == [openonerec |-> "two_stage", minionerec |-> "constrained_beam", rankgrpo |-> "rankgrpo"]

\* The first value of a chain of fallbacks that is there.
First(s) == s[SelectInSeq(s, LAMBDA v : v # Null)]
When(b, v) == IF b THEN v ELSE Null
AtLeastOne(i) == IF i < 1 THEN 1 ELSE i

\* The recipes named by the dataset and by the reward function, at either of
\* the places of the latter.
Paths(c) == {c.dataset, IF c.oldReward # Null THEN c.oldReward ELSE c.reward}

\* Mutant: the reward function is looked up at its old place only.
InferFromOldPlace(c) ==
  First(<<c.classPath,
          When(c.rollout = "constrained_beam", "minionerec"),
          When(c.rollout = "two_stage", "openonerec"),
          When("minionerec" \in {c.dataset, c.oldReward}, "minionerec"),
          When("rankgrpo" \in {c.dataset, c.oldReward} \/ c.rankGrpo, "rankgrpo"),
          "openonerec">>)

InferTask(c) ==
  First(<<c.classPath,
          When(c.rollout = "constrained_beam", "minionerec"),
          When(c.rollout = "two_stage", "openonerec"),
          When("minionerec" \in Paths(c), "minionerec"),
          When("rankgrpo" \in Paths(c) \/ c.rankGrpo, "rankgrpo"),
          "openonerec">>)

SelectTask(c) == First(<<c.classPath, c.name, InferTask(c)>>)

\* verl's migrate_legacy_reward_impl moves the reward function to its new place.
Migrated(c) ==
  IF c.oldReward = Null THEN c ELSE [c EXCEPT !.reward = c.oldReward, !.oldReward = Null]

ModelDefaults == [rank |-> 0, nestedRank |-> Null, adapterPath |-> Null]
RolloutDefaults == [rollout |-> Null, n |-> 1, valN |-> 1]
ActorDefaults == [useKl |-> FALSE, optimizer |-> "AdamW"]
DataDefaults == [response |-> 512, dataset |-> Null]
AlgorithmDefaults == [klInReward |-> FALSE]
RewardDefaults == [reward |-> Null]
Defaults == <<ModelDefaults, RolloutDefaults, ActorDefaults, DataDefaults, AlgorithmDefaults,
              RewardDefaults>>

\* merge_missing: a key that is null or absent gets its default, the others stay.
Backfilled(c) ==
  [k \in DOMAIN c |->
     IF c[k] = Null /\ \E i \in DOMAIN Defaults : k \in DOMAIN Defaults[i]
     THEN Defaults[CHOOSE i \in DOMAIN Defaults : k \in DOMAIN Defaults[i]][k]
     ELSE c[k]]

\* A recipe's configuration composed under config._ leaves the root to the defaults.
Buried(c) == c.buried # Null /\ c.buried # c.optimizer

Nothing == [task |-> Null, strategy |-> Null, loop |-> Null, ranked |-> FALSE, reference |-> Null,
            adapter |-> Null, useRm |-> FALSE, gates |-> FALSE, prunes |-> FALSE]
NotAsked == [rows |-> 0, width |-> 1, items |-> 0, reasons |-> 0]

Init ==
  /\ wanted \in Configs
  /\ cfg = wanted
  /\ at = "driver"
  /\ driver = Null
  /\ run = Nothing
  /\ asked = [train |-> NotAsked, val |-> NotAsked]

Refuse ==
  /\ at' = "refused"
  /\ UNCHANGED <<wanted, cfg, driver, run, asked>>

Drive ==
  /\ at = "driver"
  /\ LET c == Backfilled(Migrated(cfg)) IN
     IF SelectTask(cfg) \notin Recipes \/ Buried(c)
     THEN Refuse
     ELSE /\ driver' = SelectTask(cfg)
          /\ cfg' = c
          /\ at' = "runner"
          /\ UNCHANGED <<wanted, run, asked>>

\* The width a two-stage or a constrained-beam rollout is expanded by.
TwoStageWidth(c) == First(<<c.beamWidth, c.stage2BeamSize, 32>>)
ConstrainedWidth(c) == First(<<c.beamWidth, c.beamSize, 20>>)

Expanded(task, c) ==
  CASE task = "openonerec" /\ c.rollout = "two_stage" ->
         [c EXCEPT !.n = @ * TwoStageWidth(c), !.valN = @ * TwoStageWidth(c)]
    [] task = "minionerec" /\ c.rollout = "constrained_beam" ->
         LET groups == AtLeastOne(First(<<c.groups, c.n>>))
         IN  [c EXCEPT !.groups = groups, !.n = groups * AtLeastOne(ConstrainedWidth(c))]
    [] OTHER -> c

Rank(c) == IF c.nestedRank # Null /\ c.nestedRank > 0 THEN c.nestedRank ELSE c.rank
WithLora(c) == IF c.adapterPath # Null /\ Rank(c) <= 0 THEN [c EXCEPT !.rank = AdapterRank] ELSE c

\* Explicit, or inferred from the engine's strategy, the engine's class or the role's class.
Strategies(c) == <<c.strategy, c.engine, c.engineClass, c.roleClass>>

\* Only the task of a recipe registers the rollout of the recipe.
Registered(task, c) == c.rollout \notin {OwnRollout[r] : r \in Recipes \ {task}}

\* The agent loop: OpenOneRec and MiniOneRec set theirs with their own rollout.
Loop(task, c) == IF task # "rankgrpo" /\ c.rollout = OwnRollout[task] THEN task ELSE c.loop

\* Does the worker compute the loss of RankGRPO?
Ranked(task, c) == task = "rankgrpo" /\ c.rollout = "rankgrpo" /\ c.rankGrpo

\* Where the reference model is: with LoRA it is the actor without its adapter.
Reference(c) ==
  CASE ~(c.useKl \/ c.klInReward) -> "none"
    [] (c.useKl \/ c.klInReward) /\ (Rank(c) > 0 \/ c.adapterPath # Null) -> "in actor"
    [] OTHER -> "own"

Prepare ==
  /\ at = "runner"
  /\ LET task == SelectTask(cfg)
         c == WithLora(Expanded(task, cfg))
     IN IF ~Registered(task, c) \/ \A i \in DOMAIN Strategies(c) : Strategies(c)[i] = Null
        THEN Refuse
        ELSE /\ cfg' = c
             /\ run' = [run EXCEPT !.task = task, !.strategy = First(Strategies(c)),
                                   !.loop = Loop(task, c), !.ranked = Ranked(task, c),
                                   !.reference = Reference(c)]
             /\ at' = "trainer"
             /\ UNCHANGED <<wanted, driver, asked>>

\* RLTrainer reads task.name, and never the class path of the task.
Adapter(c) ==
  CASE c.name = "rankgrpo" -> "rankgrpo"
    [] c.name = "minionerec" \/ (c.rollout = "constrained_beam" /\ c.name # "rankgrpo") -> "minionerec"
    [] c.name = "openonerec" /\ c.rollout # "constrained_beam" -> "openonerec"
    [] OTHER -> "default"

\* The class of each adapter, whatever task.trainer_adapter_class says: that of
\* OpenOneRec is a private one.
AdapterClass(adapter) ==
  CASE adapter = "rankgrpo" -> "RankGRPOTrainerAdapter"
    [] adapter = "minionerec" -> "MiniOneRecTrainerAdapter"
    [] adapter = "openonerec" -> "_OpenOneRecTrainerAdapter"
    [] adapter = "default" -> "TrainerTaskAdapter"

\* The classes that override evaluate_and_prune_checkpoint.
PruningClasses == {"OpenOneRecTrainerAdapter", "MiniOneRecTrainerAdapter"}

\* Does a save evaluate its checkpoint and prune the others?
Prunes(c) == c.name = "openonerec" /\ AdapterClass(Adapter(c)) \in PruningClasses

UseRm(c) == c.rollout = "constrained_beam" \/ c.name = "minionerec"

StartTrainer ==
  /\ at = "trainer"
  /\ run' = [run EXCEPT !.adapter = Adapter(cfg), !.useRm = UseRm(cfg),
                        !.gates = (cfg.name = "rankgrpo"), !.prunes = Prunes(cfg)]
  /\ at' = "training"
  /\ UNCHANGED <<wanted, cfg, driver, asked>>

\* What the meta_info of a batch asks for; the default adapter asks for nothing.
NoMeta == [width |-> Null, items |-> Null, reasons |-> Null]
Meta(c) ==
  CASE c.rollout = "two_stage" /\ run.adapter # "default" ->
         [width |-> TwoStageWidth(c),
          items |-> First(<<c.stage2Tokens, c.paramsTokens, 3>>),
          reasons |-> First(<<c.stage1Tokens, c.reasoningTokens, c.response>>)]
    [] c.rollout = "constrained_beam" /\ run.adapter # "default" ->
         [width |-> ConstrainedWidth(c), items |-> First(<<c.paramsTokens, c.response>>), reasons |-> Null]
    [] OTHER -> NoMeta

\* What a worker of OpenOneRec makes of it: every key falls back on its own chain.
TwoStageSampling(c) ==
  [width |-> First(<<Meta(c).width, c.beamWidth, c.stage2BeamSize, 32>>),
   items |-> First(<<Meta(c).items, c.paramsTokens, c.stage2Tokens, 16>>),
   reasons |-> First(<<Meta(c).reasons, c.reasoningTokens, c.stage1Tokens, c.response>>)]

\* What the server decodes (resolve_beam_search_config and
\* resolve_two_stage_decode_config).
Decoded(s, c) ==
  [width |-> AtLeastOne(s.width),
   items |-> First(<<s.items, c.paramsTokens, c.itemTokens, c.stage2Tokens, 16>>),
   reasons |-> First(<<s.reasons, c.reasoningTokens, c.stage1Tokens, c.response>>)]

\* MiniOneRec generates with HuggingFace: the widths are those of the
\* configuration whatever the batch asks for, and a training has a length of its own.
HFWidth(c) == First(<<c.beamWidth, 16>>)
HFSearch(c, validate) ==
  IF validate THEN [width |-> First(<<c.valBeamWidth, HFWidth(c)>>), items |-> c.response, reasons |-> 0]
              ELSE [width |-> HFWidth(c), items |-> 128, reasons |-> 0]

\* The search that serves the rows of a prompt; of verl's own loop, a sample for each.
Search(c, validate) ==
  CASE run.loop = "openonerec" /\ c.rollout = "two_stage" -> Decoded(TwoStageSampling(c), c)
    [] run.loop = "minionerec" -> HFSearch(c, validate)
    [] OTHER -> [width |-> 1, items |-> c.response, reasons |-> 0]

\* The manager of MiniOneRec has no workers for another mode than HuggingFace's,
\* and takes no prompt whose rows are not whole groups.
Generates(mode, rows, width) == run.loop = "minionerec" => mode = "hf" /\ rows % width = 0

\* The rows of a prompt in a validation: MiniOneRec counts its own, the others
\* take the count that was expanded.
MiniOneRecRows(c) ==
  LET width == First(<<c.beamWidth, c.valN>>) IN
  AtLeastOne(First(<<c.groups, AtLeastOne(c.n \div AtLeastOne(width))>>))
    * AtLeastOne(First(<<c.valBeamWidth, width>>))

\* Mutant: the validation of OpenOneRec multiplies by the width once more.
WidenedAgain(c) == IF run.adapter = "minionerec" THEN MiniOneRecRows(c) ELSE c.valN * TwoStageWidth(c)

ValRows(c) == IF run.adapter = "minionerec" THEN MiniOneRecRows(c) ELSE c.valN

Ask(batch, rows, mode) ==
  LET search == Search(cfg, batch = "val") IN
  IF ~Generates(mode, rows, search.width)
  THEN Refuse
  ELSE /\ asked' = [asked EXCEPT ![batch] = [rows |-> rows, width |-> search.width,
                                           items |-> search.items, reasons |-> search.reasons]]
       /\ at' = IF batch = "train" THEN "validating" ELSE "running"
       /\ UNCHANGED <<wanted, cfg, driver, run>>

AskTrain == at = "training" /\ Ask("train", cfg.n, cfg.trainMode)
AskVal == at = "validating" /\ Ask("val", ValRows(cfg), cfg.valMode)

Next == Drive \/ Prepare \/ StartTrainer \/ AskTrain \/ AskVal

-------------------------------------------------------------------------------
\* A configuration that names its recipe, and everything it names is of it.
Named ==
  /\ wanted.name \in Recipes
  /\ wanted.classPath \in {Null, wanted.name}
  /\ wanted.rollout = OwnRollout[wanted.name]
  /\ wanted.rankGrpo = (wanted.name = "rankgrpo")
  /\ wanted.loop = wanted.name

\* The driver and the runner take the same recipe, at whichever place the
\* configuration names it; a run whose configuration is all of one recipe has the
\* adapter, the agent loop, the rewards, the watchdogs and the loss of that recipe;
\* and no default replaces a configured optimizer, reference model or adapter.
OneRecipe ==
  /\ at \in {"trainer", "training", "validating", "running"} =>
       /\ run.task = driver
       /\ cfg.optimizer = First(<<wanted.buried, wanted.optimizer, "AdamW">>)
       /\ run.reference = "in actor" => Rank(cfg) > 0
       /\ Named => run.loop = wanted.name /\ run.ranked = wanted.rankGrpo
  /\ at \in {"training", "validating", "running"} /\ Named =>
       /\ run.adapter = wanted.name
       /\ run.useRm = (wanted.name = "minionerec")
       /\ run.gates = (wanted.name = "rankgrpo")

\* A run of OpenOneRec that is configured with an adapter that prunes checkpoints
\* prunes them.
PrunesAsConfigured ==
  at \in {"training", "validating", "running"} /\ Named /\ wanted.name = "openonerec" =>
    (wanted.adapterClass \in PruningClasses => run.prunes)

\* The one length that is there, if only one place names it.
Single(s) == LET there == {i \in DOMAIN s : s[i] # Null} IN
             IF Cardinality(there) = 1 THEN s[CHOOSE i \in there : TRUE] ELSE Null

\* What the rollout counts were expanded by is what the trainer asks for and what is
\* searched: the rows of a prompt are whole groups, as many as configured, in
\* training and in validation, whichever keys name the width; and what OpenOneRec
\* decodes has the lengths of the configuration, whichever key names them.  Two keys
\* are not read by all: MiniOneRec must name beam_width, and the length of an item
\* in decode_config is hidden by the default of the trainer.  And the trainer counts
\* the rows of a validation by task.name, which a class path may contradict.
OneDecoding ==
  at = "running" =>
    /\ run.loop = "openonerec" /\ cfg.rollout = "two_stage" =>
         /\ asked.train.rows = First(<<wanted.n, 1>>) * asked.train.width
         /\ run.adapter # "minionerec" =>
              asked.val.rows = First(<<wanted.valN, 1>>) * asked.val.width
         /\ \A b \in {"train", "val"} :
              /\ Single(<<wanted.stage2Tokens, wanted.paramsTokens>>) \in {Null, asked[b].items}
              /\ Single(<<wanted.stage1Tokens, wanted.reasoningTokens>>) \in {Null, asked[b].reasons}
    /\ run.loop = "minionerec" /\ cfg.rollout = "constrained_beam" /\ cfg.beamWidth # Null =>
         LET groups == AtLeastOne(First(<<wanted.groups, wanted.n, 1>>)) IN
         /\ asked.train.rows = groups * asked.train.width
         /\ run.adapter = "minionerec" => asked.val.rows = groups * asked.val.width
===============================================================================
