------------------------------ MODULE OfflineEval ------------------------------
(***************************************************************************)
(* eval/openonerec_eval.py: the evaluation of an OpenOneRec checkpoint     *)
(* outside the training.  A process finds the checkpoint, merges it into a *)
(* model unless there is one, lets it think about every sample (stage 1)   *)
(* and search its items (stage 2), over HTTP with retries or offline, and  *)
(* scores the samples by what came back.                                   *)
(*                                                                         *)
(* The training goes on beside it.  Its saves are numbered: the number     *)
(* stands for the weights, and for the time.  A step that is saved again   *)
(* gets new weights under the old names, so its directory keeps its time.  *)
(***************************************************************************)
EXTENDS Integers, Sequences, SequencesExt

CONSTANTS
  NumSamples,    \* of the test set
  Truthless,     \* the samples whose ground truth has no item
  Steps,         \* the steps with a checkpoint directory
  Shards,        \* the files of a checkpoint with weights, one of each rank
  Commands,      \* the command lines; raw: the root holds a HuggingFace model too
  MaxConcurrent, \* --max-concurrent
  MaxRetries,    \* --max-retries
  MaxSaves,      \* bound: saves of the training
  MaxProcesses,  \* bound: evaluations
  Null

Sample == 1 .. NumSamples

\* Assumed of the constants by RunParts.
EvalAssumption ==
  /\ NumSamples \in Nat /\ Truthless \subseteq Sample
  /\ Steps \subseteq Nat \ {0}
  /\ Commands \subseteq [step : Steps \cup {Null}, raw : BOOLEAN, force : BOOLEAN, skip : BOOLEAN,
                         think : BOOLEAN, serving : BOOLEAN]
  /\ {Shards, MaxConcurrent, MaxSaves, MaxProcesses} \subseteq Nat \ {0} /\ MaxRetries \in Nat

VARIABLES
  saved,    \* the save in global_step_<n>/actor; 0 if there is none
  time,     \* st_mtime of the directory: when a name in it was new
  tracker,  \* latest_checkpointed_iteration.txt; Null if there is none
  merged,   \* the model merged from each step; Null if there is none
  process,  \* how many evaluations have started
  command,  \* the command line of the one that runs
  began,    \* history: saved, time and tracker when it looked for the checkpoint
  step,     \* the checkpoint it found
  shards,   \* the saves of the files its merge has read
  model,    \* what it evaluates
  prompts,  \* the samples of the requests of the stage, in their order
  requests, \* each: "queued", "sent" with its retries, "ok", "empty" or "failed"
  scored,   \* what the samples are scored by: whose beams
  at        \* "idle", "merge", "think", "search", "done" or "refused"

vars == <<saved, time, tracker, merged, process, command, began, step, shards, model, prompts,
          requests, scored, at>>
trainVars == <<saved, time, tracker>>
diskVars == <<trainVars, merged>>
evalVars == <<process, command, began, step, shards, model, prompts, requests, scored, at>>

Nothing == [i \in {} |-> 0]
Saves == Max({saved[s] : s \in Steps})

\* A model: the saves its weights are from, and whether all of it is written.
Model(saves, whole) == [saves |-> saves, whole |-> whole]
Raw == Model({}, TRUE)

Init ==
  /\ saved = [s \in Steps |-> 0]
  /\ time = saved
  /\ tracker = Null
  /\ merged = [s \in Steps |-> Null]
  /\ process = 0
  /\ command = Null /\ began = Null /\ step = Null /\ model = Null
  /\ shards = <<>> /\ prompts = <<>> /\ requests = <<>> /\ scored = Nothing
  /\ at = "idle"

\* The training saves a step, perhaps again after a restart, and may end before it
\* writes the tracker.
Save ==
  /\ Saves < MaxSaves
  /\ \E s \in Steps :
       /\ saved' = [saved EXCEPT ![s] = Saves + 1]
       /\ time' = IF saved[s] = 0 THEN [time EXCEPT ![s] = Saves + 1] ELSE time
  /\ UNCHANGED <<tracker, merged, evalVars>>

WriteTracker ==
  /\ \E s \in Steps : saved[s] > 0 /\ saved[s] = Saves /\ tracker' = s
  /\ UNCHANGED <<saved, time, merged, evalVars>>

-------------------------------------------------------------------------------
(* The checkpoint and its model: main.                                     *)

\* discover_actor_checkpoint
Candidates(c) ==
  CASE c.step # Null -> {c.step}
    [] c.step = Null /\ tracker # Null -> {tracker}
    [] c.step = Null /\ tracker = Null -> Steps
Found(c) == {s \in Candidates(c) : saved[s] > 0}
Newer(s, t) == time[s] > time[t] \/ (time[s] = time[t] /\ s >= t)
Discovered(c) == CHOOSE s \in Found(c) : \A t \in Found(c) : Newer(s, t)

Request(state, retries) == [state |-> state, retries |-> retries]

\* The prompts of a stage, and its requests.
Ask(samples) == prompts' = samples /\ requests' = [k \in DOMAIN samples |-> Request("queued", 0)]
EvaluateModel(m, c) ==
  /\ model' = m
  /\ Ask([i \in Sample |-> i])
  /\ at' = IF c.think THEN "think" ELSE "search"
Refuse == at' = "refused" /\ UNCHANGED <<model, prompts, requests>>

\* discover_raw_hf_model_checkpoint: only if no step is named.
UsesRaw(c) == c.raw /\ c.step = Null
UseRaw(c) == UsesRaw(c) /\ step' = Null /\ EvaluateModel(Raw, c) /\ UNCHANGED merged

NoCheckpoint(c) == ~UsesRaw(c) /\ Found(c) = {} /\ step' = Null /\ Refuse /\ UNCHANGED merged

\* A model that is there is used as it is, unless it is to be merged by force.
UseMerged(c, s) ==
  /\ merged[s] # Null /\ (c.skip \/ ~c.force)
  /\ EvaluateModel(merged[s], c)
  /\ UNCHANGED merged
NotMerged(c, s) == merged[s] = Null /\ c.skip /\ Refuse /\ UNCHANGED merged

\* The old model is removed before the merge begins.
StartMerge(c, s) ==
  /\ ~c.skip /\ (merged[s] = Null \/ c.force)
  /\ merged' = [merged EXCEPT ![s] = Null]
  /\ at' = "merge"
  /\ UNCHANGED <<model, prompts, requests>>

Begin ==
  /\ at = "idle" /\ process < MaxProcesses
  /\ process' = process + 1
  /\ began' = [saved |-> saved, time |-> time, tracker |-> tracker]
  /\ \E c \in Commands :
       /\ command' = c
       /\ \/ UseRaw(c)
          \/ NoCheckpoint(c)
          \/ /\ ~UsesRaw(c) /\ Found(c) # {}
             /\ step' = Discovered(c)
             /\ UseMerged(c, step') \/ NotMerged(c, step') \/ StartMerge(c, step')
  /\ UNCHANGED <<trainVars, shards, scored>>

\* verl.model_merger reads one file after the other, and then writes the model.
ReadShard ==
  /\ at = "merge" /\ Len(shards) < Shards
  /\ shards' = Append(shards, saved[step])
  /\ UNCHANGED <<diskVars, process, command, began, step, model, prompts, requests, scored, at>>

WriteModel ==
  /\ at = "merge" /\ Len(shards) = Shards /\ merged[step] = Null
  /\ merged' = [merged EXCEPT ![step] = Model(Range(shards), FALSE)]
  /\ UNCHANGED <<trainVars, evalVars>>

EndMerge ==
  /\ at = "merge" /\ merged[step] # Null
  /\ merged' = [merged EXCEPT ![step] = Model(Range(shards), TRUE)]
  /\ EvaluateModel(Model(Range(shards), TRUE), command)
  /\ UNCHANGED <<trainVars, process, command, began, step, shards, scored>>

\* The evaluation ends, or is killed; in a merge it leaves what it has written.
Leave ==
  /\ at # "idle"
  /\ at' = "idle"
  /\ command' = Null /\ began' = Null /\ step' = Null /\ model' = Null
  /\ shards' = <<>> /\ prompts' = <<>> /\ requests' = <<>> /\ scored' = Nothing
  /\ UNCHANGED <<diskVars, process>>

-------------------------------------------------------------------------------
(* The requests of a stage.                                                *)

InStage == at \in {"think", "search"}
Answers == {"ok", "empty", "failed"}
In(states) == {k \in DOMAIN requests : requests[k].state \in states}
stageVars == <<diskVars, process, command, began, step, shards, model>>
Becomes(k, r) ==
  /\ requests' = [requests EXCEPT ![k] = r]
  /\ UNCHANGED <<stageVars, prompts, scored, at>>

\* A request takes a permit of the semaphore, and keeps it through its retries.
Post ==
  /\ InStage /\ command.serving /\ Cardinality(In({"sent"})) < MaxConcurrent
  /\ \E k \in In({"queued"}) : Becomes(k, Request("sent", 0))

\* A status other than 200 and an answer without choices are not retried.
Respond ==
  /\ InStage /\ command.serving
  /\ \E k \in In({"sent"}), answer \in Answers : Becomes(k, Request(answer, 0))

\* An exception is, while there are retries left.
Retry ==
  /\ InStage /\ command.serving
  /\ \E k \in In({"sent"}) : LET n == requests[k].retries IN
       Becomes(k, IF n < MaxRetries THEN Request("sent", n + 1) ELSE Request("failed", 0))

\* llm.generate and llm.beam_search answer the whole stage.
AnswerOffline ==
  /\ InStage /\ ~command.serving /\ In({"queued"}) # {}
  /\ requests' \in [DOMAIN requests -> {Request(answer, 0) : answer \in Answers}]
  /\ UNCHANGED <<stageVars, prompts, scored, at>>

StageIsOver == InStage /\ In(Answers) = DOMAIN requests

\* _build_stage2_prompts: a sample without thoughts is not searched.
Search ==
  /\ at = "think" /\ StageIsOver
  /\ Ask(SetToSortSeq({prompts[k] : k \in In({"ok"})}, <))
  /\ at' = "search"
  /\ UNCHANGED <<stageVars, scored>>

\* Mutant: the k-th beams are taken for those of the k-th sample.
SamePlace(k) == k

\* origin_indices
Origin(k) == prompts[k]

\* evaluate_sid: a sample is scored if its truth and its beams are there; a
\* successful search that decoded nothing still has beams.
Evaluate ==
  /\ at = "search" /\ StageIsOver
  /\ LET beams == {k \in In({"ok", "empty"}) : Origin(k) \notin Truthless}
     IN scored' = [i \in {Origin(k) : k \in beams} |-> prompts[CHOOSE k \in beams : Origin(k) = i]]
  /\ at' = "done"
  /\ UNCHANGED <<stageVars, prompts, requests>>

Next ==
  \/ Save \/ WriteTracker \/ Begin \/ ReadShard \/ WriteModel \/ EndMerge \/ Leave
  \/ Post \/ Respond \/ Retry \/ AnswerOffline \/ Search \/ Evaluate

-------------------------------------------------------------------------------
\* Was a step saved again before the evaluation began?
Resaved == \E s \in Steps : began.saved[s] # began.time[s]

\* An evaluation scores samples by their own beams only, whichever requests failed,
\* came back empty or were retried in either stage, and leaves no sample out that
\* was answered in both.  The checkpoint is the one the command names, or else the
\* tracker, or else, if no step was saved twice, the latest.  What a forced merge is
\* scored for is whole, and none of it is older than the checkpoint that was found: it
\* is that checkpoint, unless the training saved the step again in the meantime.
EvaluatesWhatItSays ==
  at = "done" =>
    /\ \A i \in DOMAIN scored : scored[i] = i
    /\ DOMAIN scored = {prompts[k] : k \in In({"ok", "empty"})} \ Truthless
    /\ step # Null =>
         /\ command.step # Null => step = command.step
         /\ command.step = Null /\ began.tracker # Null => step = began.tracker
         /\ command.step = Null /\ began.tracker = Null /\ ~Resaved =>
              \A s \in Steps : began.saved[s] <= began.saved[step]
         /\ command.force /\ ~command.skip =>
              model.whole /\ model.saves \subseteq began.saved[step] .. saved[step]
===============================================================================
