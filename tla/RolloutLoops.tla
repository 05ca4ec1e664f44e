----------------------------- MODULE RolloutLoops -----------------------------
(***************************************************************************)
(* The rollout side of the recipes.  The configuration of a run picks the  *)
(* recipe, and with it the agent loop and the server a batch goes through: *)
(*   OpenOneRec   ValidationWaves (its server is TwoStageServer)           *)
(*   MiniOneRec   PromptShards with HuggingFace generation, or             *)
(*                ConstrainedBeamServer with the native server             *)
(*   RankGRPO     RankDispatch, and then for each completion RankCredit    *)
(*                for its tokens and RankMatch for its rewards             *)
(* No two of these parts share state, so a behaviour follows one of them:  *)
(* the variables of the others stay "off".                                 *)
(***************************************************************************)
EXTENDS Integers, Sequences

CONSTANTS
  Prompts, Rollouts, Workers, Limits,                      \* ValidationWaves
  Call, GroupOf, MaxCacheSize, MaxInflight, MaxTokens, MaxUpdates, None,
                                                           \* ConstrainedBeamServer
  Width,                                                   \* of both
  MaxPrompts, Repeats, TrainWidth, ValWidth, Divisors, Ranks, MicroBatch,
                                                           \* PromptShards
  Key, MaxRows, MaxWorkers,                                \* RankDispatch
  MaxLength, RecNum,                                       \* RankCredit
  Title, NormOf, Year, Tolerances, MaxRecs, MaxTruths      \* RankMatch

VARIABLES
  part,
  validate, limit, workers, plan, sent, answered, groups, returned, raised, reading,
  kind, call, source, search, tokens, queued, inflight, broken, registry, cache,
  remaining, update, doomed, weights, oldest, evicted,
  batch, phase, out, mode, rows,
  keys, chunks, parts, generated, outputs,
  completion, truncate, response, ranks, terms, lines, stage,
  seen, catalog, tolerance, truths, recs, left, hits

Waves == INSTANCE ValidationWaves
Server == INSTANCE ConstrainedBeamServer
Shards == INSTANCE PromptShards
Dispatch == INSTANCE RankDispatch WITH workers <- chunks
Credit == INSTANCE RankCredit
Match == INSTANCE RankMatch

ASSUME LoopsAssumption ==
  /\ Waves!WavesAssumption /\ Server!ServerAssumption /\ Shards!ShardsAssumption
  /\ Dispatch!DispatchAssumption /\ Credit!CreditAssumption /\ Match!MatchAssumption

wavesVars == <<validate, limit, workers, plan, sent, answered, groups,
               returned, raised, reading>>
serverVars == <<kind, call, source, search, tokens, queued, inflight, broken, registry, cache,
                remaining, update, doomed, weights, oldest, evicted>>
shardsVars == <<batch, phase, out, mode, rows>>
dispatchVars == <<keys, chunks, parts, generated, outputs>>
creditVars == <<completion, truncate, response, ranks, terms, lines, stage>>
matchVars == <<seen, catalog, tolerance, truths, recs, left, hits>>
vars == <<part, wavesVars, serverVars, shardsVars, dispatchVars, creditVars, matchVars>>

Parts == {"waves", "server", "shards", "dispatch", "credit", "match"}

Off == "off"

NoWaves ==
  /\ validate = Off /\ limit = Off /\ workers = Off /\ plan = Off /\ sent = Off
  /\ answered = Off /\ groups = Off /\ returned = Off /\ raised = Off
  /\ reading = Off

NoServer ==
  /\ kind = Off /\ call = Off /\ source = Off /\ search = Off /\ tokens = Off
  /\ queued = Off /\ inflight = Off /\ broken = Off /\ registry = Off
  /\ cache = Off /\ remaining = Off /\ update = Off /\ doomed = Off
  /\ weights = Off /\ oldest = Off /\ evicted = Off

NoShards ==
  /\ batch = Off /\ phase = Off /\ out = Off /\ mode = Off /\ rows = Off

NoDispatch ==
  /\ keys = Off /\ chunks = Off /\ parts = Off /\ generated = Off
  /\ outputs = Off

NoCredit ==
  /\ completion = Off /\ truncate = Off /\ response = Off /\ ranks = Off
  /\ terms = Off /\ lines = Off /\ stage = Off

NoMatch ==
  /\ seen = Off /\ catalog = Off /\ tolerance = Off /\ truths = Off
  /\ recs = Off /\ left = Off /\ hits = Off

Init ==
  /\ part \in Parts
  /\ IF part = "waves" THEN Waves!Init ELSE NoWaves
  /\ IF part = "server" THEN Server!Init ELSE NoServer
  /\ IF part = "shards" THEN Shards!Init ELSE NoShards
  /\ IF part = "dispatch" THEN Dispatch!Init ELSE NoDispatch
  /\ IF part = "credit" THEN Credit!Init ELSE NoCredit
  /\ IF part = "match" THEN Match!Init ELSE NoMatch

\* A step of the part a behaviour follows; the others have no variable to change.
WavesStep ==
  /\ part = "waves" /\ Waves!Next
  /\ UNCHANGED <<part, serverVars, shardsVars, dispatchVars, creditVars, matchVars>>
ServerStep ==
  /\ part = "server" /\ Server!Next
  /\ UNCHANGED <<part, wavesVars, shardsVars, dispatchVars, creditVars, matchVars>>
ShardsStep ==
  /\ part = "shards" /\ Shards!Next
  /\ UNCHANGED <<part, wavesVars, serverVars, dispatchVars, creditVars, matchVars>>
DispatchStep ==
  /\ part = "dispatch" /\ Dispatch!Step
  /\ UNCHANGED <<part, wavesVars, serverVars, shardsVars, creditVars, matchVars>>
CreditStep ==
  /\ part = "credit" /\ Credit!Step
  /\ UNCHANGED <<part, wavesVars, serverVars, shardsVars, dispatchVars, matchVars>>
MatchStep ==
  /\ part = "match" /\ Match!Step
  /\ UNCHANGED <<part, wavesVars, serverVars, shardsVars, dispatchVars, creditVars>>

Next == WavesStep \/ ServerStep \/ ShardsStep \/ DispatchStep \/ CreditStep \/ MatchStep

\* The event loop of a worker runs, and the servers answer or raise.
Spec == Init /\ [][Next]_vars /\ WF_vars(WavesStep)

-----------------------------------------------------------------------------
\* A validating worker of OpenOneRec has never more calls in flight than the
\* configured limit, or than one group when the limit is smaller
\* (two_stage_agent_loop.py:353-389).
InFlightBounded == part = "waves" => Waves!InFlightBounded

\* No beam of a sample is asked for twice by a worker, and none is left out
\* when no prompt is split between workers (two_stage_agent_loop.py:47-58).
EveryBeamOnce == part = "waves" => Waves!EveryBeamOnce

\* Every worker returns its outputs or passes on the exception of a call: the
\* waves come to an end whatever the limits and the loads
\* (two_stage_agent_loop.py:382-450).
BatchReturns == part = "waves" ~> part = "waves" /\ Waves!Ended

\* Every row of a batch holds what was generated from its own prompt: through
\* the merging of prompts, round-robin shards, micro-batches and reassembly of
\* MiniOneRec, and the grouped chunks and concatenation of RankGRPO, which
\* splits no group; and a batch of MiniOneRec is refused as indivisible exactly
\* when the trainer padded it by other than whole groups
\* (constrained_beam_agent_loop.py:291-440, rankgrpo_agent_loop.py:119-146,
\* 279-306, minionerec_trainer.py:138-143).
RowsGetTheirOwn ==
  /\ part = "shards" => Shards!OwnResponses /\ Shards!RefusedOnlyForThePadding
  /\ part = "dispatch" => Dispatch!GroupsStayWhole

\* The calls of a group are served from one search of the constrained-beam
\* server, unless it was used up, evicted or outdated
\* (constrained_beam_vllm_async.py:206-219, 342-362).
OneSearchPerGroup == part = "server" => Server!OneSearchPerGroup

\* No entry of its cache comes from a search under older weights
\* (constrained_beam_vllm_async.py:96-120).
CacheIsFresh == part = "server" => Server!CacheIsFresh

\* In a well-formed list the credit of a recommendation lands on the tokens of
\* its own line, and in any list the eos has one length term and no rank, and a
\* truncated list pays for its appended eos as for overflow
\* (rankgrpo_algorithm.py:260-300, 379-401, rankgrpo_reward.py:48-72).
CreditFollowsTheItem ==
  part = "credit" => Credit!CreditFollowsTheItem /\ Credit!EosIsJudgedOnce

\* The hits of a list can be matched one to one with ground truths, and are at
\* least half of what could be (rankgrpo_reward.py:94-171).
HitsAreAMatching == part = "match" => Match!HitsAreAMatching
=============================================================================
