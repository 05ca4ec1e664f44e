-------------------------------- MODULE RunParts --------------------------------
(***************************************************************************)
(* What is around the rollout of RolloutLoops in a run, and after it:      *)
(*   RunSetup            from the configuration to the first decodings     *)
(*   DatasetRows         the rows of an epoch                              *)
(*   BeamSearch          the search of both native servers                 *)
(*   HFGeneration        the search of MiniOneRec without a server         *)
(*   CompletionLogprobs  the log-probabilities of what was generated       *)
(*   GatedFit            the steps, the checkpoints and the watchdogs      *)
(*   GroupRewards        the training rewards of MiniOneRec                *)
(*   ValidationScores    a validation                                      *)
(*   OfflineEval         the evaluation of a checkpoint                    *)
(* What one of them passes to another is enumerated by the other's Init,   *)
(* so a behaviour follows one part: the variables of the others stay       *)
(* "off", as in RolloutLoops.                                              *)
(***************************************************************************)
EXTENDS Integers

CONSTANTS
  Null,                                                    \* of all of them
  Setups, AdapterRank,                                     \* RunSetup
  Lengths, MaxLength, Slack, Prefix, Datasets, MaxProcess, \* DatasetRows
  Catalogue, EOS, Logprob, PromptLen, Divisor, Calls,      \* BeamSearch
  Items, HFConfigs, HFCalls, MaxCalls,                     \* HFGeneration
  Samples, Engines,                                        \* CompletionLogprobs
  MaxStep, MaxRuns, SaveFreq, SyncFreq, GateSteps, KlFloor, LengthMinStep, Warmup,
  Configs, Readings,                                       \* GatedFit
  Batches, Kinds, Trainings,                               \* GroupRewards
  Source, Truth, Other, Plans, Cut,                        \* ValidationScores
  NumSamples, Truthless, Steps, Shards, Commands, MaxConcurrent, MaxRetries, MaxSaves, MaxProcesses
                                                           \* OfflineEval

VARIABLES
  part,
  wanted, cfg, setupAt, driver, choices, asked,
  dataset, frame, position, used, given, rowsSaved, rowsProcess, serving,
  call, beamPhase, beamStep, beamIdx, active, expanded, completed, obeyed, strayed,
  hfConfig, generators, hfCalls, hfCall, gen, count, beams, completions, hfAt,
  micro, engine, inputs, logps, logprobAt,
  phase, run, step, kind, actor, masters, adam, schedule, ref, files, tracker, byHand, excused,
  config, atGate, tally, status, aborted, logged, unreported,
  training, order, rewards, rewardsAt,
  plan, correct, batch, rows, padded, outs, samples, sums, scores, scoresAt,
  saved, time, evalTracker, merged, process, command, began, evalStep, shards, model, prompts,
  requests, scored, evalAt

Setup == INSTANCE RunSetup WITH Configs <- Setups, at <- setupAt, run <- choices
Rows == INSTANCE DatasetRows WITH saved <- rowsSaved, process <- rowsProcess
Beam == INSTANCE BeamSearch WITH phase <- beamPhase, step <- beamStep
HF == INSTANCE HFGeneration WITH Catalogue <- Items, config <- hfConfig, calls <- hfCalls,
        call <- hfCall, outs <- completions, at <- hfAt
Logps == INSTANCE CompletionLogprobs WITH at <- logprobAt
Fit == INSTANCE GatedFit
Rewards == INSTANCE GroupRewards WITH at <- rewardsAt
Scores == INSTANCE ValidationScores WITH at <- scoresAt
Eval == INSTANCE OfflineEval WITH tracker <- evalTracker, step <- evalStep, at <- evalAt

ASSUME PartsAssumption ==
  /\ Setup!SetupAssumption /\ Rows!RowsAssumption /\ Beam!ConstantsAssumption /\ HF!HFAssumption
  /\ Logps!LogprobAssumption
  /\ Fit!WorkerAssumption /\ Fit!GatesAssumption /\ Rewards!RewardsAssumption
  /\ Scores!ScoresAssumption
  /\ Eval!EvalAssumption

setupVars == <<wanted, cfg, setupAt, driver, choices, asked>>
rowsVars == <<dataset, frame, position, used, given, rowsSaved, rowsProcess, serving>>
beamVars == <<call, beamPhase, beamStep, beamIdx, active, expanded, completed, obeyed, strayed>>
hfVars == <<hfConfig, generators, hfCalls, hfCall, gen, count, beams, completions, hfAt>>
logpsVars == <<micro, engine, inputs, logps, logprobAt>>
fitVars == <<phase, run, step, kind, actor, masters, adam, schedule, ref, files, tracker, byHand,
             excused, config, atGate, tally, status, aborted, logged, unreported>>
rewardsVars == <<training, order, rewards, rewardsAt>>
scoresVars == <<plan, correct, batch, rows, padded, outs, samples, sums, scores, scoresAt>>
evalVars == <<saved, time, evalTracker, merged, process, command, began, evalStep, shards, model,
              prompts, requests, scored, evalAt>>
vars == <<part, setupVars, rowsVars, beamVars, hfVars, logpsVars, fitVars, rewardsVars, scoresVars, evalVars>>

Parts == {"setup", "rows", "beam", "hf", "logps", "fit", "rewards", "scores", "eval"}

Off == "off"

NoSetup ==
  /\ wanted = Off /\ cfg = Off /\ setupAt = Off /\ driver = Off /\ choices = Off /\ asked = Off
NoRows ==
  /\ dataset = Off /\ frame = Off /\ position = Off /\ used = Off /\ given = Off
  /\ rowsSaved = Off /\ rowsProcess = Off /\ serving = Off
NoBeam ==
  /\ call = Off /\ beamPhase = Off /\ beamStep = Off /\ beamIdx = Off /\ active = Off
  /\ expanded = Off /\ completed = Off /\ obeyed = Off /\ strayed = Off
NoHF ==
  /\ hfConfig = Off /\ generators = Off /\ hfCalls = Off /\ hfCall = Off /\ gen = Off
  /\ count = Off /\ beams = Off /\ completions = Off /\ hfAt = Off
NoLogps ==
  /\ micro = Off /\ engine = Off /\ inputs = Off /\ logps = Off /\ logprobAt = Off
NoFit ==
  /\ phase = Off /\ run = Off /\ step = Off /\ kind = Off /\ actor = Off /\ masters = Off
  /\ adam = Off /\ schedule = Off /\ ref = Off /\ files = Off /\ tracker = Off /\ byHand = Off
  /\ excused = Off /\ config = Off /\ atGate = Off /\ tally = Off /\ status = Off
  /\ aborted = Off /\ logged = Off /\ unreported = Off
NoRewards ==
  /\ training = Off /\ order = Off /\ rewards = Off /\ rewardsAt = Off
NoScores ==
  /\ plan = Off /\ correct = Off /\ batch = Off /\ rows = Off /\ padded = Off /\ outs = Off
  /\ samples = Off /\ sums = Off /\ scores = Off /\ scoresAt = Off
NoEval ==
  /\ saved = Off /\ time = Off /\ evalTracker = Off /\ merged = Off /\ process = Off
  /\ command = Off /\ began = Off /\ evalStep = Off /\ shards = Off /\ model = Off
  /\ prompts = Off /\ requests = Off /\ scored = Off /\ evalAt = Off

Init ==
  /\ part \in Parts
  /\ IF part = "setup" THEN Setup!Init ELSE NoSetup
  /\ IF part = "rows" THEN Rows!Init ELSE NoRows
  /\ IF part = "beam" THEN Beam!Init ELSE NoBeam
  /\ IF part = "hf" THEN HF!Init ELSE NoHF
  /\ IF part = "logps" THEN Logps!Init ELSE NoLogps
  /\ IF part = "fit" THEN Fit!Init ELSE NoFit
  /\ IF part = "rewards" THEN Rewards!Init ELSE NoRewards
  /\ IF part = "scores" THEN Scores!Init ELSE NoScores
  /\ IF part = "eval" THEN Eval!Init ELSE NoEval

\* A step of the part a behaviour follows.
SetupStep ==
  /\ part = "setup" /\ Setup!Next
  /\ UNCHANGED <<part, rowsVars, beamVars, hfVars, logpsVars, fitVars, rewardsVars, scoresVars, evalVars>>
RowsStep ==
  /\ part = "rows" /\ Rows!Next
  /\ UNCHANGED <<part, setupVars, beamVars, hfVars, logpsVars, fitVars, rewardsVars, scoresVars, evalVars>>
BeamStep ==
  /\ part = "beam" /\ Beam!Next
  /\ UNCHANGED <<part, setupVars, rowsVars, hfVars, logpsVars, fitVars, rewardsVars, scoresVars, evalVars>>
HFStep ==
  /\ part = "hf" /\ HF!Next
  /\ UNCHANGED <<part, setupVars, rowsVars, beamVars, logpsVars, fitVars, rewardsVars, scoresVars, evalVars>>
LogpsStep ==
  /\ part = "logps" /\ Logps!Next
  /\ UNCHANGED <<part, setupVars, rowsVars, beamVars, hfVars, fitVars, rewardsVars, scoresVars, evalVars>>
FitStep ==
  /\ part = "fit" /\ Fit!Next
  /\ UNCHANGED <<part, setupVars, rowsVars, beamVars, hfVars, logpsVars, rewardsVars, scoresVars, evalVars>>
RewardsStep ==
  /\ part = "rewards" /\ Rewards!Next
  /\ UNCHANGED <<part, setupVars, rowsVars, beamVars, hfVars, logpsVars, fitVars, scoresVars, evalVars>>
ScoresStep ==
  /\ part = "scores" /\ Scores!Next
  /\ UNCHANGED <<part, setupVars, rowsVars, beamVars, hfVars, logpsVars, fitVars, rewardsVars, evalVars>>
EvalStep ==
  /\ part = "eval" /\ Eval!Next
  /\ UNCHANGED <<part, setupVars, rowsVars, beamVars, hfVars, logpsVars, fitVars, rewardsVars, scoresVars>>

Next ==
  \/ SetupStep \/ RowsStep \/ BeamStep \/ HFStep \/ LogpsStep \/ FitStep
  \/ RewardsStep \/ ScoresStep \/ EvalStep

Spec == Init /\ [][Next]_vars

---------------------------------------------------------------------------------
\* The driver, the runner, the trainer and the workers make one run of one recipe
\* out of a configuration, and no default replaces what it says
\* (main_ppo.py:46-98, config_compat.py:127-725, rl_trainer.py:426-440).
OneRecipe == part = "setup" => Setup!OneRecipe

\* What the rollout counts were expanded by is what is asked for and searched, in
\* training and in validation, whichever keys name the widths and the lengths
\* (onerec_recipe.py:409-427, minionerec_recipe.py:25-44, beam_config.py:90-240).
OneDecoding == part = "setup" => Setup!OneDecoding

\* An epoch trains on every row of its dataset once, over a restart too, and on the
\* tokens the server was given (onerec_recipe.py:152-396).
EveryRowOnce == part = "rows" => Rows!EveryRowOnce

\* A constrained search returns items of the catalogue, whatever the engine answers,
\* and a deterministic one no sequence twice, ended or not; and so does the search of
\* MiniOneRec, whatever calls its generators served before
\* (beam_backend.py:87-108, 159-163, 187-198, minionerec_fsdp_workers.py:136-152,
\* hf_constrained_generation.py:193-206, 291-308).
ReturnsDistinctItems ==
  /\ part = "beam" => Beam!ReturnsItems /\ Beam!DistinctBeams
  /\ part = "hf" => HF!CompletionsAreItems

\* A search with tokens enough fills the group that waits for its beams
\* (beam_backend.py:85, 154-185, hf_constrained_generation.py:144-167).
FillsTheGroup ==
  /\ part = "beam" => Beam!FillsTheGroup
  /\ part = "hf" => HF!EveryBeamFilled

\* Packed or padded, every token of a completion gets its own log-probability, and
\* no other place gets one (completion_only_logprob.py:95-285, 442-497).
LogprobsOfCompletions == part = "logps" => Logps!LogprobsOfCompletions

\* The model, the masters, the optimizer state and the schedule of a process that
\* trains have seen the same steps (transformer_impl.py:64-139, optimizer.py:74-90).
StateBelongsTogether == part = "fit" => Fit!StateBelongsTogether

\* The reference model is an ancestor of the actor (rl_trainer.py:770-784).
RefIsAncestor == part = "fit" => Fit!RefIsAncestor

\* No training goes on past a gate at which its KL has collapsed
\* (convergence_gate.py:427-496).
CollapseEndsTheRun == part = "fit" => Fit!CollapseEndsTheRun

\* A process that exits with 0 was neither aborted nor passed unjudged
\* (rl_trainer.py:399-424, rankgrpo_logprob_metrics.py:1236-1470).
SuccessIsEarned == part = "fit" => Fit!SuccessIsEarned

\* A prompt is scored by its own outputs, by all of them and in their order, and the
\* beams of a group are rewarded by those of the group alone
\* (onerec_trainer.py:255-560, minionerec_trainer.py:102-260, minionerec_reward.py:110-126).
ScoresBelongToPrompts ==
  /\ part = "scores" => Scores!ScoresBelongToPrompts
  /\ part = "rewards" => Rewards!RewardsStayInTheGroup

\* "total_rewards[2] < total_rewards[1]" (tests/minionerec/test_reward.py:31): of a hit,
\* a valid miss and an invalid completion the last is paid least.
InvalidIsWorse == part = "rewards" => Rewards!InvalidIsWorse

\* "task.trainer_adapter_class is set in yaml; adapter loads OpenOneRecTrainerAdapter
\* (includes checkpoint prune)" (docs/verl_gr/full_training_benchmark.md:60).
PrunesAsConfigured == part = "setup" => Setup!PrunesAsConfigured

\* "Capture rank_reward_sum / rank_reward_mean from the advantage computation as a
\* fallback when extract_reward() didn't provide them" (rankgrpo_trainer.py:166-168):
\* there is then one for every sample of a validation.
FallbackCoversEverySample == part = "scores" => Scores!FallbackCoversEverySample

\* An offline evaluation scores samples by their own beams, and the checkpoint it
\* was asked for (openonerec_eval.py:200-310, 748-790, 886-900).
EvaluatesWhatItSays == part = "eval" => Eval!EvaluatesWhatItSays
=================================================================================
