---------------------------- MODULE CheckpointDisk ----------------------------
(***************************************************************************)
(* The training process and its checkpoint directory, as the pruning of    *)
(* checkpoints sees them (TopKCheckpoints).                                *)
(*                                                                         *)
(* The loop is verl's RayPPOTrainer.fit, which verl_gr/trainers/           *)
(* rl_trainer.py inherits: train a step, save it, validate it.  A save     *)
(* writes global_step_<n> and the number n into                            *)
(* latest_checkpointed_iteration.txt.  A process that starts reads that    *)
(* file and resumes from the directory it names, or from scratch when the  *)
(* file or the directory is missing.  The loop's own save is one step      *)
(* here: what is modelled in detail is the pruning.                        *)
(*                                                                         *)
(* Weights are versions: every training step makes a new one, so two runs  *)
(* of the same step number are told apart.                                 *)
(***************************************************************************)
EXTENDS Naturals, FiniteSets

CONSTANTS
  MaxStep,         \* total training steps
  SaveAt,          \* the steps the loop saves (save_freq)
  ValidateAt,      \* the steps the loop validates (test_freq)
  SaveFirst,       \* does the loop save a step before it validates it?
  ValidateAtStart, \* val_before_train
  Value,           \* what a validation metric can be, larger is better
  Keep,            \* best_ckpts_to_keep
  MaxCrashes       \* bound on the crashes of a behaviour

Step == 1 .. MaxStep

ASSUME ConstantsAssumption ==
  /\ MaxStep \in Nat
  /\ SaveAt \subseteq Step
  /\ ValidateAt \subseteq Step
  /\ SaveFirst \in BOOLEAN
  /\ ValidateAtStart \in BOOLEAN
  /\ Value \subseteq Nat
  /\ Keep \in Nat \ {0}
  /\ MaxCrashes \in Nat

VARIABLES
  at,       \* where the training loop is
  op,       \* where the pruning in progress is
  step,     \* global_steps
  weights,  \* version of the weights in memory
  trained,  \* versions made so far (history: it names them)
  dirs,     \* the version in global_step_<n>, 0 if there is no directory
  tracker,  \* latest_checkpointed_iteration.txt, 0 if there is no file
  crashes,  \* crashes so far
  cut       \* history: did one of them cut a pruning short?

loopVars == <<at, step, weights, trained>>
diskVars == <<dirs, tracker>>
crashVars == <<crashes, cut>>
processVars == <<loopVars, op, diskVars, crashVars>>

Saved == {s \in Step : dirs[s] # 0}
Finished == at = "train" /\ step = MaxStep /\ op = "none"

ProcessInit ==
  /\ at = "start"
  /\ op = "none"
  /\ step = 0
  /\ weights = 0
  /\ trained = 0
  /\ dirs = [s \in Step |-> 0]
  /\ tracker = 0
  /\ crashes = 0
  /\ cut = FALSE

\* Where the loop goes from where it is.
NextPlace ==
  IF SaveFirst
  THEN [start |-> "train", train |-> "save", save |-> "validate", validate |-> "train"][at]
  ELSE [start |-> "train", train |-> "validate", validate |-> "save", save |-> "train"][at]

GoOn == at' = NextPlace /\ UNCHANGED <<step, weights, trained>>

TrainStep ==
  /\ at = "train" /\ op = "none" /\ step < MaxStep
  /\ step' = step + 1
  /\ trained' = trained + 1
  /\ weights' = trained'
  /\ at' = NextPlace
  /\ UNCHANGED <<op, diskVars, crashVars>>

\* Is this a place where the loop validates?
Validating ==
  /\ op = "none"
  /\ \/ at = "validate" /\ step \in ValidateAt
     \/ at = "start" /\ ValidateAtStart

SkipSave ==
  /\ at = "save" /\ op = "none" /\ step \notin SaveAt
  /\ GoOn
  /\ UNCHANGED <<op, diskVars, crashVars>>

SkipValidation ==
  /\ \/ at = "validate" /\ step \notin ValidateAt
     \/ at = "start" /\ ~ValidateAtStart
  /\ op = "none"
  /\ GoOn
  /\ UNCHANGED <<op, diskVars, crashVars>>

\* verl's own save.
WriteCheckpoint ==
  /\ at = "save" /\ op = "none" /\ step \in SaveAt
  /\ dirs' = [dirs EXCEPT ![step] = weights]
  /\ tracker' = step

\* The tracker names the newest of the kept checkpoints.
Newest(kept) == CHOOSE s \in kept : \A t \in kept : s >= t

Crash ==
  /\ at # "down" /\ ~Finished
  /\ crashes < MaxCrashes
  /\ crashes' = crashes + 1
  /\ cut' = (cut \/ op # "none")
  /\ at' = "down"
  /\ op' = "none"
  /\ UNCHANGED <<step, weights, trained, diskVars>>

\* The process starts again, from the directory the tracker names.
Restart ==
  /\ at = "down"
  /\ at' = "start"
  /\ step' = IF tracker \in Saved THEN tracker ELSE 0
  /\ weights' = IF tracker \in Saved THEN dirs[tracker] ELSE 0
  /\ UNCHANGED <<op, trained, diskVars, crashVars>>

ProcessTypeOK ==
  /\ at \in {"start", "train", "save", "validate", "down"}
  /\ step \in 0 .. MaxStep
  /\ trained \in Nat
  /\ weights \in 0 .. trained
  /\ dirs \in [Step -> 0 .. trained]
  /\ tracker \in 0 .. MaxStep
  /\ crashes \in 0 .. MaxCrashes
  /\ cut \in BOOLEAN

\* As long as no crash cuts a pruning short, a process that starts with
\* checkpoints on disk resumes from one of them (resume_mode auto,
\* configs/verl_gr/minionerec/grpo_trainer_ddp.yaml:230), rather than from
\* scratch because the tracker names a directory that was pruned.
ResumesFromCheckpoint ==
  at = "start" /\ op = "none" /\ Saved # {} /\ ~cut => step \in Saved
===============================================================================
