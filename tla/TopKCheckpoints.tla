--------------------------- MODULE TopKCheckpoints ---------------------------
(***************************************************************************)
(* The top-k checkpoints of verl_gr/trainers/rl_trainer.py: after every    *)
(* validation _update_topk_checkpoints ranks the checkpoint of the step,   *)
(* removes every checkpoint directory outside the best Keep, and writes    *)
(* the list and the tracker.                                               *)
(*                                                                         *)
(* The list is sorted by value, equal values staying in the order they     *)
(* were ranked in; it is a set of entries here, each with the time it was  *)
(* ranked at.                                                              *)
(***************************************************************************)
EXTENDS CheckpointDisk

VARIABLES
  file,     \* topk_checkpoints.json, a missing file being an empty list
  torn,     \* was the file being written when the process died?
  memory,   \* _topk_checkpoints: the list in memory, as a set of at most one
  keeping,  \* the list a pruning in progress will write
  ranked    \* history: every <<version, value>> that was ranked

listVars == <<file, torn, memory, keeping, ranked>>
vars == <<processVars, listVars>>

Entry == [step : Step, value : Value, time : 0 .. trained]
Steps(S) == {e.step : e \in S}

Init ==
  /\ ProcessInit
  /\ file = {}
  /\ torn = FALSE
  /\ memory = {}
  /\ keeping = {}
  /\ ranked = {}

Precedes(d, e) == d.value > e.value \/ (d.value = e.value /\ d.time < e.time)

\* Mutant: a list that cannot be read is an empty one.
ReadOrEmpty == {IF torn THEN {} ELSE file}

\* _load_topk_checkpoint_state: what json.load makes of the file, if anything.
ReadList == IF torn THEN {} ELSE {file}

\* The list in memory, or else in the file.
State == IF memory = {} THEN ReadList ELSE memory

\* Mutant: the list is cut from the wrong end.
LastOf(S) == {e \in S : Cardinality({d \in S : Precedes(e, d)}) < Keep}

\* state[:top_k] of the sorted list.
FirstOf(S) == {e \in S : Cardinality({d \in S : Precedes(d, e)}) < Keep}

ThisStep(v) == [step |-> step, value |-> v, time |-> trained]

\* The best of the list with the step's checkpoint ranked, in place of an
\* earlier entry of the same step.
Rank(state, v) == FirstOf({e \in state : e.step # step} \cup {ThisStep(v)})

\* No checkpoint to rank, or no finite metric: the list is left alone.
ValidateWithoutRanking ==
  /\ Validating
  /\ GoOn
  /\ UNCHANGED <<op, diskVars, crashVars, listVars>>

ValidateAndRank ==
  /\ Validating
  /\ step \in Saved
  /\ \E state \in State, v \in Value :
       /\ memory' = {state}
       /\ keeping' = Rank(state, v)
       /\ ranked' = ranked \cup {<<weights, v>>}
  /\ op' = "prune"
  /\ UNCHANGED <<loopVars, diskVars, crashVars, file, torn>>

\* json.load raises on a torn list: the exception ends the process.
ValidateRaises ==
  /\ Validating
  /\ step \in Saved
  /\ State = {}
  /\ at' = "down"
  /\ UNCHANGED <<op, step, weights, trained, diskVars, crashVars, listVars>>

\* Mutant: the step that was just validated is pruned with the unranked ones.
UnkeptOrNew == Saved \ {s \in Steps(keeping) : s < step}

\* _prune_unkept_checkpoint_dirs: one directory after the other, ranked or
\* not.
Unkept == Saved \ Steps(keeping)

PruneDirectory ==
  /\ op = "prune"
  /\ \E s \in Unkept : dirs' = [dirs EXCEPT ![s] = 0]
  /\ UNCHANGED <<loopVars, op, tracker, crashVars, listVars>>

PruneIsOver ==
  /\ op = "prune"
  /\ Unkept = {}
  /\ op' = "list"
  /\ UNCHANGED <<loopVars, diskVars, crashVars, listVars>>

\* _save_topk_checkpoint_state: open(..., "w") empties the file first.
TruncateList ==
  /\ op = "list"
  /\ torn' = TRUE
  /\ op' = "write"
  /\ UNCHANGED <<loopVars, diskVars, crashVars, file, memory, keeping, ranked>>

WriteList ==
  /\ op = "write"
  /\ file' = keeping
  /\ torn' = FALSE
  /\ op' = "tracker"
  /\ UNCHANGED <<loopVars, diskVars, crashVars, memory, keeping, ranked>>

\* Mutant: the tracker is left to the save.
TrackerOfSave == tracker' = tracker

\* Mutant: the tracker names the best checkpoint instead of the newest.
TrackerOfBest ==
  \E b \in keeping : tracker' = b.step /\ \A d \in keeping \ {b} : Precedes(b, d)

TrackerOfList == tracker' = Newest(Steps(keeping))

WriteTracker ==
  /\ op = "tracker"
  /\ TrackerOfList
  /\ memory' = {keeping}
  /\ keeping' = {}
  /\ op' = "none"
  /\ GoOn
  /\ UNCHANGED <<dirs, crashVars, file, torn, ranked>>

Save ==
  /\ WriteCheckpoint
  /\ GoOn
  /\ UNCHANGED <<op, crashVars, listVars>>

Die == Crash /\ memory' = {} /\ keeping' = {} /\ UNCHANGED <<file, torn, ranked>>

Loop ==
  /\ TrainStep \/ SkipSave \/ SkipValidation \/ Restart
  /\ UNCHANGED listVars

Ranking ==
  \/ ValidateWithoutRanking \/ ValidateAndRank \/ ValidateRaises
  \/ PruneDirectory \/ PruneIsOver \/ TruncateList \/ WriteList \/ WriteTracker

Rest == Finished /\ UNCHANGED vars

Next == Loop \/ Save \/ Ranking \/ Die \/ Rest

Spec == Init /\ [][Next]_vars

-------------------------------------------------------------------------------
TypeOK ==
  /\ ProcessTypeOK
  /\ op \in {"none", "prune", "list", "write", "tracker"}
  /\ file \subseteq Entry
  /\ torn \in BOOLEAN
  /\ memory \in SUBSET (SUBSET Entry) /\ Cardinality(memory) <= 1
  /\ keeping \subseteq Entry
  /\ ranked \subseteq (1 .. trained) \X Value

\* After a ranking every entry of the list still has its directory: no slot of
\* the top k is held by a checkpoint that is gone
\* (docs/verl_gr/recipes/rankgrpo_mapping.md:214).
KeptOnDisk == op = "none" /\ memory # {} => Steps(file) \subseteq Saved

\* That much holds as long as no crash cuts a pruning short.
KeptOnDiskUncut == ~cut => KeptOnDisk

\* The list holds the best Keep of all the checkpoints ever ranked, with the
\* values that were measured on what their directories now hold, over any
\* number of resumes and steps trained again, as long as no crash cuts a
\* pruning short.
KeptAreBest ==
  op = "none" /\ ~cut =>
    LET kept == {<<dirs[e.step], e.value>> : e \in file} IN
      /\ kept \subseteq ranked
      /\ \A r \in ranked \ kept :
           /\ Cardinality(file) = Keep
           /\ \A k \in kept : k[2] >= r[2]

\* Training goes on from the newest kept checkpoint, so that a later save never
\* replaces a checkpoint of the list, as long as no crash cuts a pruning short.
KeptNeverOverwritten ==
  [][Save /\ ~cut => step \notin Steps(file)]_vars

\* A list that a crash has truncated is never taken for an empty one: every
\* checkpoint but the newest would then be removed as not kept.
TornListKeepsAll ==
  [][torn => Save \/ UNCHANGED dirs]_vars
===============================================================================
