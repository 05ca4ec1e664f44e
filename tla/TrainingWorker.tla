--------------------------- MODULE TrainingWorker ---------------------------
(***************************************************************************)
(* What one training process holds and what survives it: the model and the *)
(* optimizer of the DDP engine, the fp32 masters, the learning rate        *)
(* schedule, the reference model and the checkpoint directories.           *)
(*   verl_gr/workers/engine/ddp/transformer_impl.py  steps, saves, loads   *)
(*   verl_gr/workers/optimizer.py                    fp32 masters          *)
(*   verl_gr/workers/ref_sync.py                     the reference         *)
(*   verl_gr/trainers/rl_trainer.py                  when it is synced     *)
(*                                                                         *)
(* Weights are the sequence of the updates that made them from the base    *)
(* model, <<>>; an update is named by its process and its step.  GatedFit  *)
(* puts the actions together into the loop of verl's trainer.              *)
(***************************************************************************)
EXTENDS Naturals, SequencesExt

CONSTANTS
  MaxStep,    \* total training steps
  MaxRuns,    \* bound on the processes that train one after the other
  SaveFreq,   \* save_freq
  SyncFreq    \* ref.sync_freq; 0 for none

\* Assumed of the constants by RunParts.
WorkerAssumption ==
  /\ {MaxStep, MaxRuns, SaveFreq} \subseteq Nat \ {0}
  /\ SyncFreq \in Nat

Step == 1 .. MaxStep

VARIABLES
  phase,    \* where the process is; "down" if there is none
  run,      \* which process it is
  step,     \* global_steps
  kind,     \* "fp32" if the optimizer keeps fp32 masters, else "plain"
  actor,    \* the model parameters
  masters,  \* the fp32 masters, if kind is "fp32"
  adam,     \* the updates the optimizer state has seen
  schedule, \* the steps of the learning rate schedule
  ref,      \* the actor that was last mixed into the reference model
  files,    \* the parts of every global_step_<n>, each with the run that wrote it
  tracker,  \* latest_checkpointed_iteration.txt; 0 if there is none
  byHand,   \* history: did a process start elsewhere than the tracker says?
  excused   \* history: did one load state that does not belong together?

memoryVars == <<kind, actor, masters, adam, schedule, ref>>
historyVars == <<byHand, excused>>
workerVars == <<phase, run, step, memoryVars, files, tracker, historyVars>>

\* A part of a checkpoint: which process wrote it, and what it says.
Missing == [run |-> 0, value |-> <<>>]
Parts == {"model", "optimizer", "schedule"}

Written(s) == {p \in Parts : files[s][p] # Missing}
Whole(s) == Written(s) = Parts /\ \A p, q \in Parts : files[s][p].run = files[s][q].run

WorkerInit ==
  /\ phase = "down"
  /\ run = 0
  /\ step = 0
  /\ kind = "plain"
  /\ actor = <<>> /\ masters = <<>> /\ adam = <<>> /\ ref = <<>>
  /\ schedule = 0
  /\ files = [s \in Step |-> [p \in Parts |-> Missing]]
  /\ tracker = 0
  /\ byHand = FALSE
  /\ excused = FALSE

-----------------------------------------------------------------------------
(* A process starts: build, then load.                                     *)

\* _fp32_master_params of a saved optimizer; an optimizer without masters
\* saves none.
MastersOf(part) == part.value.masters
HasMasters(part) == part # Missing /\ part.value.kind = "fp32"

\* Mutant: masters that are saved are not loaded.
KeepsTheMasters(s, k) ==
  /\ actor' = files[s]["model"].value
  /\ masters' = <<>>

\* model.pt, and then the masters over it if there are any on both sides;
\* masters that are not loaded are those of the model before the load.
LoadWeights(s, k) ==
  LET optimizer == files[s]["optimizer"]
      load == k = "fp32" /\ HasMasters(optimizer)
  IN  /\ actor' = IF load THEN MastersOf(optimizer) ELSE files[s]["model"].value
      /\ masters' = IF load THEN MastersOf(optimizer) ELSE <<>>

\* load_checkpoint: optimizer and schedule only if their files are there.
Load(s, k) ==
  /\ LoadWeights(s, k)
  /\ adam' = IF files[s]["optimizer"] = Missing THEN <<>> ELSE files[s]["optimizer"].value.adam
  /\ schedule' = IF files[s]["schedule"] = Missing THEN 0 ELSE files[s]["schedule"].value

FromScratch ==
  /\ actor' = <<>> /\ masters' = <<>> /\ adam' = <<>>
  /\ schedule' = 0

\* Mutant: the reference model outlives the process.
KeepRef == ref

\* No checkpoint holds the reference: it starts as the base model again.
FreshRef == <<>>

\* Loading s with optimizer k may put together what does not belong together:
\* masters are missing, or a directory named by hand was left half written.
Patchwork(s, k) ==
  \/ k = "fp32" /\ files[s]["optimizer"] # Missing /\ ~ HasMasters(files[s]["optimizer"])
  \/ byHand' /\ Written(s) # Parts
  \/ byHand' /\ k = "plain" /\ ~ Whole(s)

\* resume_mode auto follows the tracker, disable starts from scratch and
\* resume_path takes any directory with a model in it; the optimizer of the
\* configuration may be another one.
StartProcess ==
  /\ phase \in {"down", "ended"}
  /\ run < MaxRuns
  /\ run' = run + 1
  /\ phase' = "train"
  /\ kind' \in {"plain", "fp32"}
  /\ ref' = FreshRef
  /\ \E s \in {0, tracker} \cup {t \in Step : "model" \in Written(t)} :
       /\ step' = s
       /\ byHand' = (byHand \/ s # tracker)
       /\ IF s = 0 THEN FromScratch /\ UNCHANGED excused
          ELSE Load(s, kind') /\ excused' = (excused \/ Patchwork(s, kind'))
  /\ UNCHANGED <<files, tracker>>

-----------------------------------------------------------------------------
(* A training step.                                                        *)

\* The step is applied to the masters, and these are copied over the model.
Base == IF kind = "fp32" THEN masters ELSE actor

\* optimizer_step: gradients that are not finite are dropped;
\* lr_scheduler_step goes on all the same.
OptimizerStep(finite) ==
  LET update == <<run, step'>> IN
  IF finite
  THEN /\ actor' = Append(Base, update)
       /\ masters' = IF kind = "fp32" THEN actor' ELSE masters
       /\ adam' = Append(adam, update)
  ELSE UNCHANGED <<actor, masters, adam>>

\* _try_sync_ref_model: every mixup_alpha mixes the actor in, and 0 copies it.
SyncRef ==
  ref' = IF SyncFreq > 0 /\ step' % SyncFreq = 0 THEN actor' ELSE ref

Saving(s) == s % SaveFreq = 0 \/ s = MaxStep

Train ==
  /\ phase = "train"
  /\ step < MaxStep
  /\ step' = step + 1
  /\ \E finite \in BOOLEAN : OptimizerStep(finite)
  /\ schedule' = schedule + 1
  /\ SyncRef
  /\ phase' = IF Saving(step') THEN "model" ELSE "log"
  /\ UNCHANGED <<run, kind, files, tracker, historyVars>>

-----------------------------------------------------------------------------
(* save_checkpoint: rank 0 writes one file after the other.                *)

OptimizerState == [kind |-> kind, masters |-> masters, adam |-> adam]

WritePart(part, value, next) ==
  /\ phase = part
  /\ files' = [files EXCEPT ![step][part] = [run |-> run, value |-> value]]
  /\ phase' = next
  /\ UNCHANGED <<run, step, memoryVars, tracker, historyVars>>

SaveModel == WritePart("model", actor, "optimizer")
SaveOptimizer == WritePart("optimizer", OptimizerState, "schedule")
SaveSchedule == WritePart("schedule", schedule, "saved")

\* Every rank has passed the barrier: the trainer writes the tracker.
SaveTracker ==
  /\ phase = "saved"
  /\ tracker' = step
  /\ phase' = "log"
  /\ UNCHANGED <<run, step, memoryVars, files, historyVars>>

\* The process is killed.
Crash ==
  /\ phase \notin {"down", "ended"}
  /\ phase' = "down"
  /\ UNCHANGED <<run, step, memoryVars, files, tracker, historyVars>>

-----------------------------------------------------------------------------
\* While a process trains, its model, its masters and its optimizer state
\* have seen the same updates, and its schedule as many steps as it has
\* trained: over crashes between the files of a checkpoint, over checkpoints
\* that are written again, and over changes of the optimizer.  The exceptions
\* are a plain checkpoint loaded into fp32 masters, an incomplete directory
\* named by hand, and mixed parts met after a start behind the tracker
\* (transformer_impl.py:64-76, 123-139; optimizer.py:74-90).
StateBelongsTogether ==
  phase = "train" /\ ~ excused =>
    /\ actor = adam
    /\ kind = "fp32" => masters = actor
    /\ schedule = step

\* The reference is the base model or an earlier state of the very training
\* that goes on, never of one a crash has undone: the KL term compares the
\* actor with one of its own ancestors (rl_trainer.py:770-784,
\* ref_sync.py:58-72).
RefIsAncestor == phase # "down" /\ ~ excused => IsPrefix(ref, actor)
=============================================================================
