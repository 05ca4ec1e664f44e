# A formal model of verl-GR

verl-GR trains generative recommenders with reinforcement learning on top of the
`verl` library, by three recipes: OpenOneRec (think, then search an item),
MiniOneRec (search an item under a prefix trie) and RankGRPO (write a list of
titles). What is its own, between the configuration and the checkpoint, is modelled
here in TLA+, checked with TLC, and for its central safety properties proved with
TLAPS. Losses and other tensor arithmetic are `verl`'s or plain formulas and are left
out (section 6).

## 1. Inventory

Paths are under `src/verl_gr/`.

| Component | State it keeps | Operations | Hard because of | Modelled by |
|---|---|---|---|---|
| Two-stage rollout server (`workers/rollout/two_stage_vllm_async.py`) | build registry, LRU cache with use counters, stage-2 lock, engine semaphore | `generate`, build task (stage 1, beam search), done callbacks, `abort_all_requests` | interleaving at every `await`, failures, cancellation, eviction | `TwoStageServer` |
| Its adapter (`two_stage_vllm_rollout.py`) | none | `update_weights`: abort, sync, resume | an update meets builds in progress; the sync may raise | `TwoStageServer` |
| Beam search and constraint (`beam_backend.py`, `constraints.py`) | active and finished beams; a prefix trie | one step per token | beams that end, cannot be extended or tie | `BeamSearch` |
| Constrained-beam server (`constrained_beam_vllm_async.py`) | cache and registry of its own | the same pattern with a stochastic mode | two copies of one protocol | `ConstrainedBeamServer` |
| OpenOneRec agent loop (`recipes/openonerec/two_stage_agent_loop.py`) | counters that name groups; adaptive validation budget | split into groups, waves of requests | groups cut by worker chunks, budget limits | `ValidationWaves` |
| MiniOneRec agent loop and workers (`recipes/minionerec/constrained_beam_agent_loop.py`, `minionerec_fsdp_workers.py`, `hf_constrained_generation.py`) | prompt runs, shards; generators, a step counter | merge, shard round-robin, search, reassemble | order, missing shards, state kept over calls | `PromptShards`, `HFGeneration` |
| RankGRPO agent loop (`recipes/rankgrpo/rankgrpo_agent_loop.py`) | none | pack a prompt's samples, dispatch, reassemble | a group split or reordered | `RankDispatch` |
| RankGRPO reward and algorithm (`rankgrpo_reward.py`, `rankgrpo_algorithm.py`) | none | match titles, number tokens by rank, advantages | two ways to count lines; greedy matching | `RankMatch`, `RankCredit` |
| MiniOneRec rewards (`minionerec_reward.py`) | none | group, charge misses by place | reordered batches | `GroupRewards` |
| Trainer, top-k checkpoints (`trainers/rl_trainer.py`) | list in memory, list file, tracker file, directories | rank after validation, prune, write | crashes between the writes, resumes | `TopKCheckpoints` |
| OpenOneRec pruning (`recipes/openonerec/onerec_trainer.py`) | score file, directories | rank after save, remove, write | never reached: the trainer takes an adapter without it | its choice in `RunSetup` (section 6) |
| Training process (`workers/ref_sync.py`, `optimizer.py`, `engine/ddp`) | model, masters, optimizer, schedule, reference, files | step, sync, save, load | partial checkpoints, changed optimizers | `TrainingWorker` |
| Watchdogs and summary (`recipes/rankgrpo/alignment`, `rankgrpo_logprob_metrics.py`) | gates passed, tallies, exit status | judge a step, end the process, judge the run | aborts inside callbacks, a `finally` that exits | `GatedFit` |
| Completion log-probabilities (`engine/completion_only_logprob.py`) | none | pick positions, packed or padded | off by one, lengths that differ | `CompletionLogprobs` |
| Datasets (`onerec_recipe.py`, `minionerec_dataset.py`, `rankgrpo_dataset.py`) | rows, position in the epoch | draw, filter, prefix, truncate, resume | unseeded draws, limits that disagree | `DatasetRows` |
| Validation (the three trainers) | samples of all batches | repeat, pad, generate, cut, group, score | factors that depend on engine and mode | `ValidationScores` |
| Configuration (`main_ppo.py`, `config_compat.py`, `task_runtime.py`, `beam_config.py`, adapters) | the configuration | infer, backfill, prepare, read | many keys for one thing, read by different parts | `RunSetup` |
| Offline evaluation (`src/eval/openonerec_eval.py`) | merged model, requests | find, merge, think, search, score | a training that goes on, retries | `OfflineEval` |
| Native router, RankGRPO server, SFT, profiling, losses | none that outlives a call | | | (section 6) |

How they interact: the trainer's fit loop (from `verl`) asks the agent loops for
rollouts; they send `generate` calls to the servers, several calls naming one
group; the servers drive the vLLM engine. Between training steps the trainer
updates the weights through the adapter, which aborts what the server has under
way. It saves checkpoints, validates, and prunes them by rank. What makes
each component correct is listed with its properties in section 4. `PROJECT.json`
has one entry per component, and the hazards with their lines.

## 2. Modules

| Module | What it is |
|---|---|
| `SharedSamples` | abstract specification: the calls of a group share samples |
| `TwoStageServer` | the two-stage server and the weight update, action by action |
| `MCTwoStage` | groups and beam indices for TLC |
| `TwoStageServerProofs` | the types, the permits, the lock, with quiet updates the registry and the cache; the counters and the limit of the cache, and that the server implements `SharedSamples` |
| `CheckpointDisk` | the training loop, its checkpoint directory, crashes and resumes |
| `TopKCheckpoints` | `_update_topk_checkpoints`, extends `CheckpointDisk` |
| `TopKProofs` | its types, the truncated list, the agreement of list, disk and tracker, the ranking |
| `RolloutLoops`, `MCRolloutLoops` | the rollout side of the recipes: the next six modules, one per behaviour |
| `ValidationWaves` | the workers of the OpenOneRec agent loop |
| `ConstrainedBeamServer` | the constrained-beam server and its weight update |
| `PromptShards` | grouping, sharding and reassembly of MiniOneRec's HF rollout |
| `RankDispatch` | packing and dispatch of RankGRPO's batches |
| `RankCredit` | from the tokens of a RankGRPO completion to what each is credited with |
| `RankMatch` | the matching of recommendations with ground truths |
| `LoopsProofs` | every safety property of these six |
| `RunParts`, `MCRunParts` | what is around a rollout: the next ten modules, one per behaviour |
| `RunSetup` | from a configuration to a running trainer and its first decodings |
| `DatasetRows` | the rows of an epoch, over a restart |
| `BeamSearch` | `run_async_beam_search` and the prefix trie |
| `HFGeneration` | constrained generation on one rank: generators, micro-batches, constraint |
| `CompletionLogprobs` | which logits are kept for which token |
| `TrainingWorker` | model, optimizer, masters, reference and the files of their checkpoint |
| `GatedFit` | the fit loop with its watchdogs and summary, extends `TrainingWorker` |
| `GroupRewards` | the training rewards of MiniOneRec's groups |
| `ValidationScores` | a validation of each recipe, from batches to scores |
| `OfflineEval` | the evaluation of a checkpoint while the training goes on |
| `PartsProofs` | the setup of a run, the training process with its watchdogs, and the offline evaluation |
| `DataProofs` | the rows, the log-probabilities, the training rewards, the validation scores |
| `BeamProofs` | the asynchronous beam search, `BeamSearch` |
| `SearchProofs` | `HFGeneration`, and what both searches promise; extends `BeamProofs` |
| `Sorting` | sorted sequences and filters, as definitions the prover can expand |
| `SetLemmas` | lemmas on finite sets and on sequences that the proof modules share |

`RolloutLoops` and `RunParts` are disjoint sums: `part` says which module a behaviour
follows, and the variables of the others are `"off"`. These modules do not share
state; what one hands to the next (a configuration, a batch, a completion) is
enumerated by the next one's `Init`. One instance of TLC checks all of them.

### TwoStageServer

The server is one asyncio event loop, so an action is a run of one coroutine from
one suspension to the next:

| Code | Actions |
|---|---|
| `_get_or_build_two_stage_cache_entry` up to its `await` | `CallHits`, `CallJoins`, `CallFindsFinished`, `CallBuilds` |
| its continuation, and the use of the entry | `ResumeWaiter`, with `TakeOutcome`, `Deliver`, `Spend` |
| `_run_generate_request` (semaphore, engine, `finally`) | `RequestStep`: `Acquire`, and the ends of a request |
| the build task | `Stage1Returns`, `Stage1Raises`, `TakeLock`, `SendStep`, `FinishSearch`, `FailSearch`, `UnwindWaiting` |
| done callbacks of a build | `StartDrain`, then `ResumeWaiter` for each waiter |
| `abort_all_requests`, `update_weights` | `StartUpdate`, `ClearAfterGather`, `AbortEngine`, `SyncWeights`, `ResumeGeneration` |

A task is named by the call that created it, and so are its cache entry and its
stage-1 sample. The done callbacks of a task (registry cleanup, then its waiters)
were scheduled together and run together: `draining` names the task whose
callbacks run. `gather` raises at the first failed request of a beam step while its
siblings run on: their slots stay in `request` and keep their permits. Tokens,
log-probabilities and texts are left out: a sample is its name, a response its
index, weights a version number.

### CheckpointDisk, TopKCheckpoints

`CheckpointDisk` is the fit loop of `verl` as the code here uses it: train, save,
validate, with the process dying anywhere (inside a pruning too) and resuming from
the directory the tracker file names. Weights are versions, so two trainings of the
same step number are told apart. `verl`'s own save, the removal of one directory and
the write of the tracker are one step each. `SaveFirst` is the order in which the
`verl` version pinned in `src/requirements.txt` saves and validates, which
`_update_topk_checkpoints` relies on (it needs the directory at validation).

`TopKCheckpoints` keeps a list in memory and in a file, and removes every directory
not in it. A file opened for writing is `torn` until its new content is there. The
sorted list is a set of entries with what it is sorted by, the value and, since the
sort is stable, the time of ranking.

### BeamSearch

The loop of `run_async_beam_search`, one action per output of a step
(`HandleLogprobs`, `HandleSample`, `HandleBareToken`, `HandleError`), then the cut to
`beam_width` (`NextStep`) or the answer (`Return`). The engine names any tokens with
any log-probabilities, or nothing: the code asks it for the allowed tokens and does
not rely on getting them. The trie is the set of the items' token sequences, each
followed by EOS; a beam is its tokens and its total. Two history variables say when
the engine named exactly the allowed tokens (`obeyed`) and when it gave a token
without log-probabilities (`strayed`): such a token is taken as it is, so what the
constraint promises is promised only without one. The prompt ends in the response
header under which the trie files the first token. The second fallback at the end of
the function (lines 197-198) cannot be reached, since some beam is always active, and
is not modelled. The requests of a step and their failures are in `TwoStageServer`.

### HFGeneration

`Begin` looks the generator up by its key, `StartChunk` takes a micro-batch and
resets the step counter, `Step` is one step of the transformers library's beam
search (external: each beam extended by any allowed token, ended sequences kept, the
cut to the width) under `prefix_allowed_tokens_fn`, and `Collect` cleans what came
back. The counter is one for all prompts of a micro-batch; the key into the trie is
the last so many tokens of a beam, and for a prompt that lost its header to the
truncation there is none and the EOS alone is allowed. The pad token is taken to be
EOS, as the worker sets it.

### The rollout loops

| Module | Code and actions |
|---|---|
| `ValidationWaves` | how `generate_sequences` numbers the rollouts of a chunk, and the chunks of `verl`, are functions of the row; a worker's actions are to send its rows (training) or a wave of groups (validation), to receive an answer or an exception, and to end a wave and read the load that sizes the next one |
| `ConstrainedBeamServer` | as `TwoStageServer`: one action per stretch between two suspensions. Requests of a search are counted rather than named; there is no lock; private and stochastic calls search in their own coroutine |
| `PromptShards` | `Unrouted`, `Refuse`, `Submit`: `_extract_prompt_groups`; `GenerateMicroBatch`, `EndShard`, `ShardRaises`: one rank; `Reassemble`: `_hf_generate_sequences` |
| `RankDispatch` | packing by group, the workers at their own pace, concatenation in the order of the workers |
| `RankCredit` | `Rollout` cuts the list and appends an EOS; `Credit` is parsing, segmentation and the length terms together |
| `RankMatch` | one recommendation after the other takes the nearest ground truth left |

### Around a rollout

| Module | Code and actions |
|---|---|
| `RunSetup` | the driver, the runner, the trainer's constructor, then a training and a validation batch, each reading its keys from the same configuration, filled in by the backfill on the way |
| `DatasetRows` | `Build` (draw, filter), `Serve` (one row truncated for the server and for the training), `Save`, `Restart`, `EndEpoch` |
| `CompletionLogprobs` | the packed and the padded path up to the scattering of the values |
| `TrainingWorker`, `GatedFit` | `Train`, one action per file of a checkpoint, `Log` with the watchdogs, `Leave` (the `finally` clause with the summary), `Crash`, and a start from any directory. Weights are the sequence of updates that made them, so two states compare by their history |
| `GroupRewards` | `Balance` (external, `trainer.balance_batch`) permutes the batch, `Reward` is `postprocess_rewards` with all it calls. Penalties are abstracted to their order |
| `ValidationScores` | `Repeat`, `Generate`, `Collect` per batch, then `Score` |
| `OfflineEval` | `Begin` is `main` up to the model: a raw model, a merged one that is used again, or the start of a merge, of the checkpoint that is named, tracked or has the latest `st_mtime`; `ReadShard`, `WriteModel`, `EndMerge` (external, `verl.model_merger`), then the two stages request by request and `Evaluate`. The training saves at any moment beside it (`Save`, `WriteTracker`). Saving a step again rewrites the files under their old names, which changes the weights and leaves the time of the directory, so both are kept |

## 3. Abstract specifications

`SharedSamples` says what a caller of the two-stage server can rely on, without
tasks, engine, lock or counters: a group has at most one open sample, a call is
answered from it when there is one, and it serves `Width` calls unless it is dropped.
`TwoStageServer!KeepsPromise` instantiates it with `open` mapped to the cached entry
of a group, `uses` to the calls served from it.

## 4. Runs

| Run | Instance | Shows |
|---|---|---|
| `two_stage` | 4 calls, 2 groups, 2 beams, 2 permits, 2 tokens, failures | `TypeOK`, `PermitsConserved`, `OneBuildPerGroup`, `LockFollowsSearch`, `OneOpenSample` |
| `two_stage_update` | 3 calls, cache of 1 entry, one weight update | `RemainingMatchesUses`, `CacheBounded`, `CacheIsFresh`, `NoForgottenBuild`, `KeepsPromise` |
| `two_stage_live` | 3 calls, 1 permit, one weight update, fairness | `EveryCallAnswered`, `UpdateEnds` |
| `two_stage_overlap` | as `two_stage_update`, with calls during the update | finding: `NoForgottenBuild` is violated |
| `topk` | 5 steps, keep 2, 2 values, 2 crashes | `ResumesFromCheckpoint`, `KeptOnDiskUncut`, `KeptAreBest`, `KeptNeverOverwritten`, `TornListKeepsAll` |
| `topk_crash` | 5 steps, keep 2, 3 values, 1 crash | finding: `KeptOnDisk` is violated |
| `rollout_loops` | the six rollout modules | `InFlightBounded`, `EveryBeamOnce`, `BatchReturns`, `RowsGetTheirOwn`, `OneSearchPerGroup`, `CacheIsFresh`, `CreditFollowsTheItem`, `HitsAreAMatching` |
| `rank_credit_text` | `RankCredit` with any completion | finding: `CreditOnItsLine` is violated |
| `run_parts` | the modules around a rollout | `OneRecipe`, `OneDecoding`, `EveryRowOnce`, `ReturnsDistinctItems`, `FillsTheGroup`, `LogprobsOfCompletions`, `StateBelongsTogether`, `RefIsAncestor`, `CollapseEndsTheRun`, `SuccessIsEarned`, `ScoresBelongToPrompts`, `EvaluatesWhatItSays` |
| `rank_fallback` | the instance of `run_parts` | finding: `FallbackCoversEverySample` is violated |
| `invalid_reward` | the instance of `run_parts` | finding: `InvalidIsWorse` is violated |
| `adapter_pruning` | the instance of `run_parts` | finding: `PrunesAsConfigured` is violated |

**Bounds.** Three calls of one group are one more than `Width`, so an entry is used
up and a second sample opened; the other group competes for the lock, the permits and
the cache. Two permits for up to four requests make requests queue; with one permit
(`two_stage_live`) every request of a beam step waits for another. One cache entry
for two groups forces evictions, also of entries whose group still waits. Two beam
steps separate the first, the middle and the last. One update meets every state of
every build. For checkpoints, five steps with two kept give two rankings in which a
checkpoint is dropped, before and after a resume; two values give ties and strict
orders; two crashes let a resumed run crash again. Three items over two tokens and EOS
share a prefix and differ in length, so beams end at different steps; width 1 makes
the cut to `2 * width` bite, width 3 holds the whole catalogue; budgets of 3, 2 and 0
tokens finish every item, the short one and none, in 13 calls. `MaxUpdates`, `MaxCrashes`,
`MaxStep`, `MaxTokens` and the set `Call` are the bounds.

Bounds of `rollout_loops`: 3 prompts of 3 rollouts over 1 to 3 workers with groups
of 2, so that a group can be whole, short or split, with 4 request budgets, one below
a group; 3 calls of 2 groups, a cache of 1, 2 permits and 2 tokens around 1 update;
batches of up to 4 prompts, 1 or 2 groups of 2 (training) or 3 beams (validation),
padded for 2, 3, 4 or 8 workers, over 2 ranks with micro-batches of 1; up to 5 rows of
3 keys over up to 3 workers; completions of up to 5 tokens with 2 ranks, which holds a
list, its overflow and an empty line; 3 recommendations and 2 ground truths over 3
years, where greedy and best matching differ.

Bounds of `run_parts`: about 1840 configurations, each of which names a recipe,
widths, lengths or an optimizer in some of the places that are read; rows of 3 lengths
on either side of the limit and of the filter's margin, 2 processes; the beam search
as above; 5 items, widths 1 to 3, lengths 2 to 4, micro-batches of 1 and 2, and 2 calls
of one generator cache; micro-batches of 2 samples with prompts of 1 to 3 and responses
of 0 to 3 tokens; 3 steps, 3 processes, a save every step, a sync every second and a
gate at each, no warm-up, so that three steps are compared and two thirds of them differ
from one half, with 4 watchdog configurations and 4 readings; two groups of two rows,
and of three and one, of any of four kinds and in any order; validations of 3 prompts
in at most 2 batches, padded for 1, 3 or 4, with every place of the hit; 3 samples, 2
checkpoint directories of 2 shards, 3 saves, so that a step can be saved twice around
another, 5 command lines, 2 evaluations, 2 permits and 1 retry. These are 2.8 million
states, in two to three minutes.

**Fairness.** `two_stage_live` assumes weak fairness of the server's own steps (the
event loop runs ready callbacks, the engine answers unless it is paused) and of the
update once it started. Calls need not come and updates need not start. Every call
makes finitely many requests, so weak fairness suffices whichever waiter the
semaphore or the lock serves first; asyncio's FIFO order is not used. `BatchReturns`
(in `rollout_loops`) assumes weak fairness of the steps of `ValidationWaves`: the event
loop runs what is ready, and a server answers a call or raises, which is what
`EveryCallAnswered` says of `TwoStageServer`.

**Conditions to know.** `OneOpenSample` is a property of runs without eviction and
without updates (the constants of `two_stage`): both may drop an open sample, which
`SharedSamples` allows. `NoForgottenBuild`, `OneBuildPerGroup` across updates and
`CacheIsFresh` need `QuietUpdates`: no call arrives while the weights are updated.
The trainer of `verl` waits for its rollouts before it updates, and
`two_stage_overlap` shows what happens otherwise. The stage-2 lock covers a search,
not the orphaned requests of a search that failed.

**The checkpoint properties** are about crashes. `cut` records that a crash fell
inside a pruning. Until then the list is the best of everything ranked with values
measured on what is on disk (`KeptAreBest`), every listed checkpoint is there, a
resumed process starts from a checkpoint, and a save never replaces a listed one.
After such a crash only `TornListKeepsAll` is claimed of the top-k list: the loader
raises on a truncated file rather than prune by an empty list.

**What the properties of the rollout loops and of a run say, and when.**

- `EveryBeamOnce`: no worker asks twice for a beam; that all beams of all groups are
  asked for holds only if no prompt is split between workers. Chunks are cut by rows:
  with the OpenOneRec defaults (`configs/verl_gr/openonerec/grpo_trainer.yaml`: a
  validation batch of 100 prompts of 32 rows over 8 workers) a chunk has 400 rows, which
  cuts a prompt in two, and the second part counts from 0 again.
- `RowsGetTheirOwn` is three statements: each row gets the response of its own prompt
  and beam (`PromptShards`), groups are never split and come back in order
  (`RankDispatch`), and a batch is refused as indivisible only for its padding.
- `OneSearchPerGroup` and `CacheIsFresh` hold, as for the two-stage server, when no
  call arrives during a weight update.
- `CreditFollowsTheItem` is about well-formed lists; for any text see finding 3.
- `HitsAreAMatching`: greedy matching finds at least half of what can be matched, and
  everything if only the exact year counts.
- `OneRecipe` and `OneDecoding` name what they except: a configuration must name its
  recipe for the adapter to be of it, MiniOneRec must name `beam_width`,
  `decode_config.item_generation.max_tokens` is hidden by the trainer's default, and a
  validation counts rows by `task.name`, whatever task a class path made the runner take.
- `EveryRowOnce` needs a seed, or a dataset that draws no lots: otherwise the resumed
  process constructs other rows, and trains some twice and others never. What a
  prompt and the forced prefix may be long rests on the prefix being no longer than the
  filter's margin (`Prefix <= Slack`).
- `CompletionsAreItems` (in `ReturnsDistinctItems`) is for prompts that end in the
  header; others are answered with a bare EOS.
- `LogprobsOfCompletions` says which engines and batches it is about: what is counted
  as response, and the values the training keeps.
- `StateBelongsTogether` excepts fp32 masters loaded from a plain optimizer state,
  incomplete directories named by hand, and parts of two processes met after a start
  behind the tracker. So it does not catch the masters that a plain optimizer state
  leaves at the initial weights (`optimizer.py:83`): the model has that, and the source
  says nothing of it.
- `RefIsAncestor` allows what the code does at `mixup_alpha = 0.0` (a copy of the actor)
  and at a resume (a reference built from the base): both are states of the same training.
- `CollapseEndsTheRun` is about the gates of one process: the memory of earlier gates
  is lost at a resume.
- `SuccessIsEarned`: a process that exits with 0 was compared on one step at least and
  disagrees on no more than one of three (`_GATE_MIN_PASS_FRACTION`,
  `rankgrpo_logprob_metrics.py:66`).
- `ScoresBelongToPrompts`: a validation's score is that of the prompt's own outputs, all
  of them and in order; a training reward of MiniOneRec depends on the rows of its group
  alone. That the better beam loses more of two misses holds only for batches in their
  original order, and it is why an invalid completion can be paid more than a miss
  before it (finding 5).
- `EvaluatesWhatItSays`: the checkpoint is the one that is named, or else the tracker's, or
  else the latest, provided that no step was saved twice: the time of a directory does not
  show a second save, and with saves of the steps 1, 2, 1 and no tracker step 2 is taken.
  What is in the model is claimed only under `--force-merge`, and then it is no older than
  the checkpoint that was found: a save during the merge may mix two saves of that step.

### Findings

1. `two_stage_overlap`: `abort_all_requests` clears the whole registry after its
   await, so a build registered during the await is neither cancelled nor known.
2. `topk_crash`: directories are removed before the list is written and the list is
   never compared with the disk. After a crash in between, a ghost holds a slot of
   the top k and real checkpoints are removed for it.
3. `rank_credit_text`: ranks are counted by line breaks and rewards by parsed items, so
   after a blank line, or a line without title and year, each advantage is credited to
   the tokens of another recommendation.
4. `rank_fallback`: the rank rewards of a RankGRPO validation are taken from the
   advantages for the first batch only, and the length assertion stops a validation of
   two batches.
5. `invalid_reward`: in a group with a hit, misses are charged less the later they come, and
   an invalid completion pays its shape penalty, 0 by default, on top. After a hit and a
   valid miss the invalid one is paid more than the miss (-0.235 against -0.296), and
   `tests/minionerec/test_reward.py:31` asserts the opposite.
6. `adapter_pruning`: `docs/verl_gr/full_training_benchmark.md:60` says that OpenOneRec loads
   `OpenOneRecTrainerAdapter`, checkpoint pruning included, as its configuration names it.
   `_get_task_adapter` goes by the name of the task and returns a private adapter without
   pruning (`rl_trainer.py:71-91, 437-438`), so nothing is evaluated or pruned after a save.

Disagreements seen while reading, which no run shows:

- The docstring of the MiniOneRec agent loop
  (`recipes/minionerec/constrained_beam_agent_loop.py:219`) names decode modes that
  lines 253-263 refuse; hence the constrained-beam server gets no calls.
- `minionerec_reward.py:32` says "rank-aware"; `balance_batch: true`
  (`configs/verl_gr/minionerec/grpo_trainer_ddp.yaml:212`) reorders the batch before the
  places are counted.
- `eval/README.md:27-29`: an existing merged directory is reused even when it is half
  merged or older than the checkpoint, and the tracker is preferred to the newest step.
- `ref_sync.py:13` documents `mixup_alpha = 0.0` as a frozen reference; line 93 calls it the
  hard copy, and that is what it does.

## 5. Proofs

The theorems hold for every value of the constants that the assumptions in the
modules allow: `ConstantsAssumption` of `TwoStageServer` (a finite set of calls, positive
sizes) and of `CheckpointDisk` (any steps saved and validated, any order of the two),
`LoopsAssumption` of `RolloutLoops` and `PartsAssumption` of `RunParts`, each the sum of
the assumptions of its parts. TLC evaluates all of them in the runs. Some theorems have a
hypothesis besides; the runs of section 4 satisfy each:

- (Q) `QuietUpdates = TRUE`: no call comes during a weight update. `two_stage_overlap` shows
  that it is needed.
- (R) `Roomy`: finitely many groups, no more than the cache holds, and no weight update.
  Otherwise an open sample may be dropped, which `SharedSamples` allows.
- (V) `~ValidateAtStart`: a process does not validate before it trains, as
  `run_rankgrpo.sh:183` has it (`val_before_train=False`). A resumed process that does
  ranks the checkpoint it resumed from a second time.
- (W) `PositiveWidths`: no configured width is below 1. The code clamps such a width in some
  of the places that read it and not in others.
- (S) `Prefix <= Slack`: the forced prefix fits in what the filter of overlong prompts
  leaves free, as 20 tokens do in the code (`onerec_recipe.py:130, 233`). With a longer one a
  row that the filter let through may not fit, which the property excuses in a way no
  argument on lengths alone follows.

| Theorem | States | Of |
|---|---|---|
| `TypeCorrect` | `[]TypeOK` | `TwoStageServer` |
| `PermitsAlwaysConserved` | `[]PermitsConserved` | |
| `LockAlwaysFollowsSearch` | `[]LockFollowsSearch` | |
| `NoBuildForgotten` (Q) | `[]NoForgottenBuild` | |
| `AlwaysOneBuildPerGroup` (Q) | `[]OneBuildPerGroup` | |
| `CacheAlwaysFresh` (Q) | `[]CacheIsFresh` | |
| `RemainingAlwaysMatchesUses` | `[]RemainingMatchesUses` | |
| `CacheAlwaysBounded` | `[]CacheBounded` | |
| `PromiseAlwaysKept` | `KeepsPromise`: the server implements `SharedSamples` | |
| `AlwaysOneOpenSample` (R) | `[]OneOpenSample` | |
| `TopKTypeCorrect` | `[]TypeOK` | `TopKCheckpoints` |
| `TornListAlwaysKeepsAll` | `TornListKeepsAll` | |
| `AlwaysResumesFromCheckpoint` | `[]ResumesFromCheckpoint` | |
| `ListAlwaysOnDisk` | `[]KeptOnDiskUncut` | |
| `ListNeverOverwritten` | `KeptNeverOverwritten` | |
| `ListIsAlwaysBest` (V) | `[]KeptAreBest` | |
| `InFlightAlwaysBounded` | `[]InFlightBounded` | `RolloutLoops` |
| `EveryBeamAlwaysOnce` | `[]EveryBeamOnce` | |
| `HitsAreAlwaysAMatching` | `[]HitsAreAMatching` | |
| `AlwaysOneSearchPerGroup` | `[]OneSearchPerGroup` | |
| `BeamCacheAlwaysFresh` | `[]CacheIsFresh` | |
| `CreditAlwaysFollowsTheItem` | `[]CreditFollowsTheItem` | |
| `GroupsAlwaysStayWhole` | part `dispatch` of `[]RowsGetTheirOwn` | |
| `ShardsAlwaysRight` | part `shards` of `[]RowsGetTheirOwn` | |
| `RowsAlwaysGetTheirOwn` | `[]RowsGetTheirOwn` | |
| `StateAlwaysBelongsTogether` | `[]StateBelongsTogether` | `RunParts` |
| `RefIsAlwaysAncestor` | `[]RefIsAncestor` | |
| `CollapseAlwaysEndsTheRun` | `[]CollapseEndsTheRun` | |
| `SuccessIsAlwaysEarned` | `[]SuccessIsEarned` | |
| `AlwaysEvaluatesWhatItSays` | `[]EvaluatesWhatItSays` | |
| `AlwaysOneRecipe` | `[]OneRecipe` | |
| `AlwaysOneDecoding` (W) | `[]OneDecoding` | |
| `EveryRowAlwaysOnce` (S) | `[]EveryRowOnce` | |
| `AlwaysLogprobsOfCompletions` | `[]LogprobsOfCompletions` | |
| `RewardsAlwaysStayInTheGroup` | part `rewards` of `[]ScoresBelongToPrompts` | |
| `ScoresAlwaysBelongToPrompts` | `[]ScoresBelongToPrompts` | |
| `AlwaysReturnsDistinctItems` | `[]ReturnsDistinctItems` | |
| `GroupsAreAlwaysFilled` | `[]FillsTheGroup` | |

**The two-stage server.** `TypeOK` is not inductive. The response index of `Deliver` is
within `Slot` only if the entry has a response (`ResponsesExist`), and that needs to know
that a finished or cached task has one. A call that creates a task must not find one
of its name (`IdleCallHasNoTask`), and a fresh task must have no old requests
(`NoTaskNoRequest`), or the count of permits would not add up. `permits` stays in
range only together with `PermitsConserved`, which is proved with the cardinality
theorems for finite sets: each step that changes `permits` adds or removes exactly
one request of `Holding`. `LockFollowsSearch` is inductive on its own. *RegistryInv* adds
to `NoForgottenBuild` what an abort relies on: while it gathers, every build under way is
among the tasks it cancelled, and once it has cleared the registry there is none.
*FreshInv* adds to `CacheIsFresh` that a build past stage 1 was sampled under the current
weights, and that the cache is empty from the end of the gather to the end of the update.

*CountInv* is about the counters, and rests on the above. Who waits for a sample is of its
group, the cache holds one entry of a group and no more than its limit, and the counter of
an entry and the calls served from it add up to `Width`, while the entry is cached or the
counter is above one: a late waiter puts back an entry that was evicted, and it has to go
on where it was. The last use does not write the counter, so of an entry that is gone with
a counter at one nothing can be said. With `CountInv` each action maps
to a step of `SharedSamples` or leaves its state alone (`PromiseStep`): a use is a use or
the opening of a sample with its first use, an eviction and the clearing of an update are
drops. *OpenInv* says, for (R), that a sample that was served from and has beams left is
in the cache.

**TopKCheckpoints.** Its type invariant adds that a list about to be written is not
empty, without which the tracker would name nothing: that rests on the lemma
`FiniteMinimum` (a finite non-empty set has a first element in a strict order, from
the well-foundedness of strict inclusion), used for the first of a ranking and for the
newest of a list. *TornInv* says where a truncated file can be met: in its own write,
or between prunings by a process with no list in memory, which cannot start one.
*KeptInv* relates, while no pruning was cut short, the three records: between
prunings the tracker names the newest directory, the list names existing directories,
the list in memory is the one in the file and the process is not behind the tracker;
inside a pruning the same is prepared for the list to be written. None of the properties
is inductive alone, since what the list says about the disk depends on which phase of the
pruning wrote what. *BestInv* adds the ranking: the list holds, of everything ranked, the
best `Keep`, and while one more is being ranked, the best of both.

**RolloutLoops.** *WavesInv* (`ValidationWaves`): which rows a worker holds, and which
beam a row asks for, is arithmetic on its index (`Division`, `OneQuotient`), so that rows
of one worker that ask for the same beam of the same group are the same row; the rest is
what of a wave was sent, answered and returned. *ServerInv* (`ConstrainedBeamServer`): a
search that served a call is still cached, unless it was used up, evicted or is of older
weights, and the cache holds one of a group. The callbacks of a search serve a set of
calls by a fold over the set, so the invariant is stated of any state that a fold passes
through, with the calls still to be served as a parameter. *MatchInv* (`RankMatch`) keeps
a witness, the ground truth that each hit took: what is left of a ground truth and the hits
that took it add up to how often it is there, and a recommendation without a hit found
nothing left. A better matching then charges each hit it has and the greedy one has not to
a ground truth that the greedy one used (`PartByPart`).

**RunParts.** *WorkerInv* (`TrainingWorker`) relates the process to its checkpoints: which
updates made the model, the masters, the optimizer, the schedule, the reference and each
file on disk. *GateInv* (`GatedFit`) relates it to its watchdogs: which gates were judged,
that what was judged was accepted or the process is on its way out, and what the tallies
count. *EvalInv* relates the times of the directories to their saves, the files that a merge
has read and its model to what was saved when the evaluation began, and the prompts of a
stage to the samples. *SetupInv* says who holds the configuration, that it
is still the one that was wanted in every key the choices depend on (`Untouched`: a default
only fills in a key that is null), and by which width its counts were multiplied;
*AskInv* what the two batches were asked for. An earlier form of `OneDecoding` did not
mention `task.name` and the rollout of MiniOneRec: it could not be proved, and TLC confirmed
the configurations that contradict it (`MixedConfigs`).

**What sequences hold.** The remaining properties are about what sorts, filters, folds and
reshapes over sequences return. Three things bring them into the prover's reach. The order
and the filter of a sequence are defined in `Sorting` as functions (the community modules
define them by recursion or leave them to Java); a fold that the code's loop is modelled by
is followed by induction over the finite set it folds; and an invariant speaks of a sequence
by its index: what is at place k, for every k.

- *CreditInv* (`RankCredit`): the rank of a token is the number of line ends before it, which
  the fold over the tokens counts (`ItemIdIsLine`); the lists with a rank out of range are
  cut where the first such rank is (`CutIs`).
- *DispatchInv* (`RankDispatch`): the parts are the spans between marks, and marks lie between
  groups. Packing one more group keeps that (`OneMoreGroup`).
- *ShardsInv* (`PromptShards`): each rank has answered the first texts of its shard.
  Text i goes to the rank i modulo the number of ranks, and put together each is where it was
  (`ReassemblesRight`).
- *LogpsInv* (`CompletionLogprobs`): the place of a token in the packed batch, and its column
  in the padded one, as sums of the lengths of the samples before (two samples, as in the
  runs; any lengths).
- *RowsInv* (`DatasetRows`): the rows used are the first of the frame, or of one that can
  be drawn again if no restart needs it to be the same (`InOneEpoch`).
- *RewardsInv* (`GroupRewards`): the beams of a prompt stay in order under the balancing of
  the batch.
- *ScoresInv* (`ValidationScores`): what was collected are the blocks of the prompts of the
  batches so far, in order; padding comes after and is cut off.
- *BeamInv* (`BeamSearch`, in `BeamProofs`): the beams of a step have one length and differ, and under a
  constraint follow the tokens of an item. `FillsTheGroup` needs a count: the beams that ended,
  those expanded and those still to expand are at least the width, or every item still has
  one of them. Scores are compared without division, by multiplying with the divisor of the
  other's length.
- *HFInv* (`HFGeneration`): the same for `transformers`' search (`HeadedOk`), where the
  place of each item (`PlaceForEach`) is kept because twice as many candidates are looked at as
  there are places, so that the ended ones never push out a live one (`NoPlaceIsLost`); a
  prompt without the header can only get an EOS (`BareOk`); and a generator found in the cache
  by its key has the parameters of the call.

These proofs asked for more to be said of the constants than TLC needs: that an item is a
sequence of token ids other than the EOS (`HFAssumption`, `ConstantsAssumption` of
`BeamSearch`), that a validation has a prompt once and no batch is empty (`ScoresAssumption`),
that the length penalty is defined for every length a call can reach.

*SetLemmas* holds what all these share: first elements, the best few of a set, functions
defined by recursion over the subsets of a finite set, by which folds are followed, and sizes
of sets counted part by part; and of sequences: concatenation, flattening, runs of equal
values, sorted sequences, and the arithmetic of rows and groups.

**Model-checked only.** Liveness (`EveryCallAnswered`, `UpdateEnds`, `BatchReturns`), which is
out of the prover's reach. **Neither proved nor run:** what the hypotheses (R), (V), (W) and
(S) exclude, and micro-batches of more than two samples.

## 6. Not modelled, and why

Cancellation of a `generate` call by its caller (no code here cancels one); the LoRA
branch of a request and `priority`, which add no state; an exception raised by the
engine's own abort or resume call; token data, log-probabilities, text. Of the
checkpoints: half-removed directories (the removal of one is a step), and a tracker
file torn in its one-line write. Which metric name is used is abstracted to whether
there is a finite value; note that `_select_topk_metric` takes `best_ckpt_metric` as
an exact key, so with a pattern (as the OpenOneRec and MiniOneRec configurations
have) it never ranks. Of the parts added around them:

- The losses, the statistics over log-probabilities
  (`recipes/rankgrpo/rankgrpo_logprob_metrics.py`, but for its gates and its summary) and
  the reports: floating-point arithmetic and formatting.
- The paths of `completion_only_logprob.py` without nested tensors, the forward pass,
  the gradient hooks of `workers/grad_hooks.py` (debugging).
- The tokenizer, the text formats and prompts of the datasets and of the evaluation, the
  metrics of a single sample; the trie cache on disk, keyed by the path of the file.
- The native router (`workers/rollout/native_router.py`), whose adapter raises; the
  RankGRPO server, which only sets sampling defaults; SFT; scripts.
- The pruning by score of `openonerec_evaluate_and_prune_checkpoint`: the adapter that
  calls it is instantiated nowhere (finding 6). Its copy in `minionerec_trainer.py` is
  reached only by a task named openonerec with a constrained-beam rollout;
  `onerec_dataset.py` is not used.
- An asynchronous engine with `use_beam_search_val`: it would cut too many padded rows,
  and no configuration of the repository asks for it.
- MiniOneRec: a training generates 128 tokens (`max_new_tokens`), a validation
  `response_length`; the pre-tokenized ids of a prompt with several groups are dropped
  and its text is tokenized again; row numbers as group keys are modelled but
  `verl` always gives a `uid`.

Facts about the code that came up and that the models keep: the legacy `beam_size` is
read neither by the HF path (16) nor by the validation (`n`); a nameless two-stage
configuration gets the default adapter; `lora_adapter_path` is compared with `None` in
one place and by truth in another; MiniOneRec never filters overlong prompts; right and
middle truncation make `raw_prompt_ids` differ from the trained tokens in MiniOneRec and
RankGRPO; samples whose stage 1 failed drop out of the evaluation's denominator; when
the budget cuts a search in which one beam has ended, that beam alone is returned
(`beam_backend.py:191`).

## 7. Plan

In order of importance:

1. (done) `TwoStageServer` with `SharedSamples`, its runs and proofs.
2. (done) `CheckpointDisk`, `TopKCheckpoints` and their runs.
3. (done) `BeamSearch`, `HFGeneration`.
4. (done) the rollout loops: `ValidationWaves`, `ConstrainedBeamServer`,
   `PromptShards`, `RankDispatch`, `RankCredit`, `RankMatch`.
5. (done) around a rollout: `RunSetup`, `DatasetRows`, `CompletionLogprobs`,
   `TrainingWorker` with `GatedFit`, `GroupRewards`, `ValidationScores`, `OfflineEval`.
6. (done) Proofs of every safety property of the runs (section 5), of `EveryRowOnce` under (S).
7. `EveryRowOnce` without (S); log-probabilities of more than two samples.
8. The fallback paths of the completion log-probabilities, the group advantages of
   RankGRPO, and the reports of the diagnostics.
