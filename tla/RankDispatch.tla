---------------------------- MODULE RankDispatch ----------------------------
(***************************************************************************)
(* The agent loop of RankGRPO,                                             *)
(*   verl_gr/recipes/rankgrpo/rankgrpo_agent_loop.py: the manager packs    *)
(* the rows of a batch into one chunk for each worker without splitting a  *)
(* group of equal prompts, a worker generates its groups concurrently, and *)
(* the outputs are put together in the order of the workers.               *)
(***************************************************************************)
EXTENDS Integers, SequencesExt, FiniteSetsExt, Sorting

CONSTANTS
  Key,        \* the prompts (raw_prompt_ids)
  MaxRows,    \* the most rows of a batch
  MaxWorkers  \* the most agent loop workers

\* Assumed of the constants by RolloutLoops.
DispatchAssumption == {MaxRows, MaxWorkers} \subseteq Nat \ {0}

VARIABLES
  keys,       \* the prompt of every row of the batch
  workers,    \* how many workers there are
  parts,      \* the rows each worker was sent; <<>> before that
  generated,  \* the groups a worker has generated, each as <<worker, group>>
  outputs     \* the prompt every row of the output was generated from

vars == <<keys, workers, parts, generated, outputs>>

\* The runs of equal keys of s: the positions of each, in order.
Runs(s) ==
  LET starts == Ascending({i \in DOMAIN s : i = 1 \/ s[i] # s[i - 1]})
      ends == Append(Tail(starts), Len(s) + 1)
  IN  [g \in DOMAIN starts |-> [k \in 1 .. ends[g] - starts[g] |-> starts[g] + k - 1]]

\* target_size: the rows of a worker, rounded up.
Target == (Len(keys) + workers - 1) \div workers

Groups == Runs(keys)

\* A group goes to the next worker if it does not fit a chunk that has rows,
\* and there is a next worker.
Pack(packed, group) ==
  LET c == packed.at
      full == packed.chunk[c] # <<>> /\ Len(packed.chunk[c]) + Len(group) > Target
      next == IF full /\ c < workers THEN c + 1 ELSE c
  IN  [at |-> next, chunk |-> [packed.chunk EXCEPT ![next] = @ \o group]]

Init ==
  /\ keys \in UNION {[1 .. n -> Key] : n \in 1 .. MaxRows}
  /\ workers \in 1 .. MaxWorkers
  /\ parts = <<>>
  /\ generated = {}
  /\ outputs = <<>>

\* _grouped_worker_indices, and a part for each worker.
Dispatch ==
  /\ parts = <<>>
  /\ parts' = FoldLeft(Pack, [at |-> 1, chunk |-> [w \in 1 .. workers |-> <<>>]], Groups).chunk
  /\ UNCHANGED <<keys, workers, generated, outputs>>

\* The rows of a worker as it sees them (_group_repeated_prompts).
KeysOf(w) == [i \in DOMAIN parts[w] |-> keys[parts[w][i]]]
WorkerGroups(w) == IF parts[w] = <<>> THEN <<>> ELSE Runs(KeysOf(w))

\* The concurrent requests of a group have all been answered.
GenerateGroup(w, g) ==
  /\ parts # <<>> /\ outputs = <<>>
  /\ w \in DOMAIN parts
  /\ g \in DOMAIN WorkerGroups(w)
  /\ <<w, g>> \notin generated
  /\ generated' = generated \cup {<<w, g>>}
  /\ UNCHANGED <<keys, workers, parts, outputs>>

\* The outputs of a worker by position: a group's are those of its prompt.
OutputsOf(w) ==
  [i \in DOMAIN parts[w] |->
     LET g == CHOOSE g \in DOMAIN WorkerGroups(w) : i \in Range(WorkerGroups(w)[g])
     IN  KeysOf(w)[Head(WorkerGroups(w)[g])]]

\* Every worker with rows has returned: DataProto.concat.
Concat ==
  /\ parts # <<>> /\ outputs = <<>>
  /\ \A w \in DOMAIN parts : \A g \in DOMAIN WorkerGroups(w) : <<w, g>> \in generated
  /\ outputs' = FlattenSeq([w \in DOMAIN parts |-> OutputsOf(w)])
  /\ UNCHANGED <<keys, workers, parts, generated>>

Step == Dispatch \/ Concat \/ \E w \in 1 .. MaxWorkers, g \in 1 .. MaxRows : GenerateGroup(w, g)

Spec == Init /\ [][Step]_vars

-----------------------------------------------------------------------------
\* The output has a row for every row of the batch, generated from its prompt;
\* no group of adjacent equal prompts is split between workers, and no worker
\* but the last gets more than its share of the rows unless one group alone is
\* larger (rankgrpo_agent_loop.py:119-146, 279-306).
GroupsStayWhole ==
  /\ outputs # <<>> => outputs = keys
  /\ parts # <<>> =>
       /\ \A i \in 1 .. Len(keys) - 1 :
            keys[i] = keys[i + 1] => \E w \in DOMAIN parts : {i, i + 1} \subseteq Range(parts[w])
       /\ \A w \in 1 .. workers - 1 : Len(parts[w]) > Target => Len(WorkerGroups(w)) = 1
=============================================================================
