--------------------------- MODULE ValidationWaves ---------------------------
(***************************************************************************)
(* The agent loop workers of                                               *)
(* verl_gr/recipes/openonerec/two_stage_agent_loop.py: each gets a chunk   *)
(* of the rows of a batch, names the stage-1 sample and the beam candidate *)
(* every row asks the servers for, and sends its rows.  Training sends     *)
(* them all at once; validation sends whole groups in waves, and sizes the *)
(* next wave by the load it reads when a wave is over.                     *)
(***************************************************************************)
EXTENDS Integers, FiniteSets, FiniteSetsExt

CONSTANTS
  Prompts,     \* the number of prompts of a batch
  Rollouts,    \* the rows of a prompt (rollout.n), adjacent in the batch
  Width,       \* the beam width: the rows that share one stage-1 sample
  Workers,     \* values of agent.num_workers
  Limits       \* configurations of the request budget of a wave

\* Assumed of the constants by RolloutLoops.
WavesAssumption ==
  /\ {Prompts, Rollouts, Width} \cup Workers \subseteq Nat \ {0}
  /\ Limits \subseteq [max : Int, min : Int, step : Int, adaptive : BOOLEAN]

VARIABLES
  validate,   \* is the batch a validation batch?
  limit,      \* the limits on the requests in flight
  workers,    \* the number of agent loop workers
  plan,       \* what every row asks for, and the first row of its group
  sent,       \* the rows whose call was made
  answered,   \* the rows whose output is in place
  groups,     \* how many groups the next wave of a worker may start
  returned,   \* the workers that returned their outputs
  raised,     \* the workers that ended with the exception of a call
  reading     \* what each worker last made of the load

vars == <<validate, limit, workers, plan, sent, answered, groups, returned, raised, reading>>

Total == Prompts * Rollouts
Chunk == (Total + workers - 1) \div workers

\* The batch is padded to a multiple of the workers with copies of its rows.
Row == 0 .. Chunk * workers - 1
Worker == 0 .. workers - 1
Prompt(r) == (r % Total) \div Rollouts
WorkerOf(r) == r \div Chunk
RowsOf(w) == w * Chunk .. (w + 1) * Chunk - 1

\* Mutant: the rows of a prompt are counted from the end of the chunk.
CountFromTheEnd(r) ==
  Cardinality({s \in RowsOf(WorkerOf(r)) : s > r /\ Prompt(s) = Prompt(r)}) \div 2

\* get_trajectory_info: the place of a row among the adjacent rows of its
\* prompt, in the chunk of the worker.
RolloutN(r) ==
  Cardinality({s \in RowsOf(WorkerOf(r)) :
                 s < r /\ \A t \in s .. r : Prompt(t) = Prompt(r)})

\* What a row asks for: the request id names the shared sample.
Asked(r) == [group |-> <<Prompt(r), RolloutN(r) \div Width>>, beam |-> RolloutN(r) % Width]

\* grouped_task_indices: a group is known by its first row.
Plan ==
  LET asked == [r \in Row |-> Asked(r)] IN
  [r \in Row |->
     [group |-> asked[r].group, beam |-> asked[r].beam,
      leader |-> Min({s \in RowsOf(WorkerOf(r)) : asked[s].group = asked[r].group})]]

Group(r) == plan[r].group
Beam(r) == plan[r].beam
Leaders(w) == {r \in RowsOf(w) : plan[r].leader = r}

Reading == {"none", "idle", "fair", "busy"}

\* The limits as generate_sequences uses them: a limit of 0 is no limit.
Normalized(l) ==
  LET max == IF l.max <= 0 THEN Chunk ELSE Min({l.max, Chunk})
  IN  [l EXCEPT !.max = max, !.min = Max({1, Min({l.min, max})}), !.step = Max({1, l.step})]

Unsent(w) == Leaders(w) \ sent
Unanswered(w) == (sent \cap RowsOf(w)) \ answered
Running(w) == w \notin returned \cup raised

\* Mutant: a budget smaller than one group starts none.
RoundDown(budget, pending) == Min({Min({budget, limit.max}) \div Width, pending})

\* Mutant: one group more than the budget has room for.
OneMore(budget, pending) ==
  Min({Min({Max({1, budget}), limit.max}) \div Width + 1, pending})

\* normalize_group_concurrency: the budget in whole groups, at least one.
GroupConcurrency(budget, pending) ==
  Min({Max({1, Min({Max({1, budget}), limit.max}) \div Width}), pending})

Init ==
  /\ validate \in BOOLEAN
  /\ workers \in Workers
  /\ validate \/ Total % workers = 0    \* only a validation batch is padded
  /\ limit \in {Normalized(l) : l \in Limits}
  /\ plan = Plan
  /\ sent = {}
  /\ answered = {}
  /\ groups = [w \in Worker |-> GroupConcurrency(limit.max, Cardinality(Leaders(w)))]
  /\ returned = {}
  /\ raised = {}
  /\ reading = [w \in Worker |-> "none"]

\* The first n groups not sent yet.
NextGroups(w, n) == {r \in Unsent(w) : Cardinality({s \in Unsent(w) : s < r}) < n}
RowsIn(leaders) == {r \in Row : plan[r].leader \in leaders}

\* Training: every row of the chunk at once.
SendAll(w) ==
  /\ ~ validate
  /\ Running(w)
  /\ Unsent(w) # {}
  /\ sent' = sent \cup RowsOf(w)
  /\ UNCHANGED <<validate, limit, workers, plan, answered, groups, returned, raised, reading>>

FirstWave(w) ==
  /\ validate
  /\ Running(w)
  /\ sent \cap RowsOf(w) = {}
  /\ sent' = sent \cup RowsIn(NextGroups(w, groups[w]))
  /\ UNCHANGED <<validate, limit, workers, plan, answered, groups, returned, raised, reading>>

\* The budget after a wave, from the load of the servers, or of the devices
\* when no server answers.
Adapted(w, load) ==
  LET budget == CASE load = "busy" -> groups[w] * Width - limit.step
                  [] load = "idle" -> groups[w] * Width + limit.step
                  [] OTHER -> groups[w] * Width
  IN  Max({limit.min, Min({limit.max, budget})})

\* The wave is over and groups are left: read the load and start the next.
NextWave(w) ==
  /\ validate
  /\ Running(w)
  /\ sent \cap RowsOf(w) # {}
  /\ Unanswered(w) = {}
  /\ Unsent(w) # {}
  /\ \E load \in IF limit.adaptive THEN Reading \ {"none"} ELSE {"none"} :
       /\ groups' = [groups EXCEPT ![w] =
            IF limit.adaptive THEN GroupConcurrency(Adapted(w, load), Cardinality(Unsent(w)))
            ELSE groups[w]]
       /\ sent' = sent \cup RowsIn(NextGroups(w, groups'[w]))
       /\ reading' = [reading EXCEPT ![w] = load]
  /\ UNCHANGED <<validate, limit, workers, plan, answered, returned, raised>>

\* A call returns, and its output is put in the place of its row.
Answer(r) ==
  /\ Running(WorkerOf(r))
  /\ r \in sent \ answered
  /\ answered' = answered \cup {r}
  /\ UNCHANGED <<validate, limit, workers, plan, sent, groups, returned, raised, reading>>

\* A call raises: gather passes it on, and the worker's other calls go on
\* with nobody waiting.
Raise(r) ==
  /\ Running(WorkerOf(r))
  /\ r \in sent \ answered
  /\ raised' = raised \cup {WorkerOf(r)}
  /\ UNCHANGED <<validate, limit, workers, plan, sent, answered, groups, returned, reading>>

Return(w) ==
  /\ Running(w)
  /\ RowsOf(w) \subseteq answered
  /\ returned' = returned \cup {w}
  /\ UNCHANGED <<validate, limit, workers, plan, sent, answered, groups, raised, reading>>

Next ==
  \/ \E w \in Worker : SendAll(w) \/ FirstWave(w) \/ NextWave(w) \/ Return(w)
  \/ \E r \in Row : Answer(r) \/ Raise(r)

\* The servers answer every call and the event loop of a worker runs.
Spec == Init /\ [][Next]_vars /\ WF_vars(Next)

-----------------------------------------------------------------------------
\* Every worker has returned its outputs or passed on the exception of a call.
Ended == returned \cup raised = Worker

\* A validating worker never has more calls in flight than the configured
\* limit, or than one group when the limit is smaller than a group: whatever
\* the loads it read and the rows its groups hold
\* (two_stage_agent_loop.py:353-389).
InFlightBounded ==
  validate => \A w \in Worker :
                Cardinality(Unanswered(w)) <= Max({limit.max, Width})

\* No two rows a worker sends ask for the same beam of the same shared sample;
\* and if no prompt's rows are split between workers, every beam of every
\* sample has been asked for once the batch is back.  A split prompt is counted
\* again from 0 by the next worker, which asks for the same beams once more
\* (two_stage_agent_loop.py:47-58).
EveryBeamOnce ==
  /\ \A r, s \in sent :
       r # s /\ Group(r) = Group(s) /\ Beam(r) = Beam(s) => WorkerOf(r) # WorkerOf(s)
  /\ Ended /\ raised = {} /\ Chunk % Rollouts = 0 =>
       \A p \in 0 .. Prompts - 1, n \in 0 .. Rollouts - 1 :
         \E r \in answered : Group(r) = <<p, n \div Width>> /\ Beam(r) = n % Width
=============================================================================
