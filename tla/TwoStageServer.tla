---------------------------- MODULE TwoStageServer ----------------------------
(***************************************************************************)
(* The two-stage vLLM rollout server of                                    *)
(*   verl_gr/workers/rollout/two_stage_vllm_async.py                       *)
(* with the weight update that drives it,                                  *)
(*   verl_gr/workers/rollout/two_stage_vllm_rollout.py (update_weights).   *)
(*                                                                         *)
(* Several generate() calls belong to one group.  The first one creates a  *)
(* build task: a stage-1 request to the engine, then, under a lock, a beam *)
(* search that sends one-token requests step by step.  All engine requests *)
(* share one semaphore.  The result goes into an LRU cache and is handed   *)
(* out to the calls of the group, one beam each.                           *)
(*                                                                         *)
(* The server is one asyncio event loop, so an action is one run of a      *)
(* coroutine from one suspension to the next.  When a task ends, its done  *)
(* callbacks (the registry's cleanup, then every waiter) were queued       *)
(* together and run together: `draining' names the task whose callbacks    *)
(* are running, and nothing else moves until they have run.                *)
(*                                                                         *)
(* A call creates at most one build task, so a task, its cache entry and   *)
(* its stage-1 sample are named by the call that created the task.         *)
(***************************************************************************)
EXTENDS Integers, FiniteSets, SequencesExt

CONSTANTS
  Call,           \* the generate() calls that may arrive (bounds the environment)
  Group,          \* beam_group_id values
  GroupOf,        \* [Call -> Group]
  BeamOf,         \* [Call -> Nat], beam_index of each call
  Width,          \* beam_config.width
  MaxCacheSize,   \* _MAX_TWO_STAGE_CACHE_SIZE (1024 in the code)
  MaxInflight,    \* _two_stage_max_inflight_requests
  MaxTokens,      \* beam-search steps: beam_config.max_tokens
  MaxUpdates,     \* bound on the weight updates of a behaviour
  EngineMayFail,  \* may an engine request raise?
  QuietUpdates,   \* does the trainer send no call while weights are updated?
  None            \* no call, no task

ASSUME ConstantsAssumption ==
  /\ IsFiniteSet(Call)
  /\ GroupOf \in [Call -> Group]
  /\ BeamOf \in [Call -> Nat]
  /\ Width \in Nat \ {0}
  /\ MaxCacheSize \in Nat \ {0}
  /\ MaxInflight \in Nat \ {0}
  /\ MaxTokens \in Nat
  /\ MaxUpdates \in Nat
  /\ EngineMayFail \in BOOLEAN
  /\ QuietUpdates \in BOOLEAN
  /\ None \notin Call

VARIABLES
  call,         \* where each generate() call is
  source,       \* the task a call awaits, then the sample it was served from
  selected,     \* the response index a call was given
  task,         \* the build task created by each call
  request,      \* the engine requests of each task, by slot
  permits,      \* _two_stage_engine_request_semaphore
  lock,         \* _two_stage_stage2_lock: the task that holds it
  beamStep,     \* beam-search steps sent so far by each task
  registry,     \* _two_stage_build_tasks
  cache,        \* _two_stage_cache, least recently used first
  remaining,    \* cache_entry["remaining"]
  responses,    \* len(cache_entry["responses"])
  draining,     \* the finished task whose callbacks are running
  update,       \* where update_weights is
  doomed,       \* the tasks abort_all_requests is gathering
  weights,      \* version of the weights, and global_steps with it
  sampledUnder, \* history: the weights a task's stage 1 ran under
  stamp         \* cache_entry["extra_fields"]["global_steps"]

callVars    == <<call, source, selected>>
engineVars  == <<request, permits>>
cacheVars   == <<cache, remaining>>
updateVars  == <<update, doomed, weights>>
sampleVars  == <<responses, sampledUnder, stamp>>
vars == <<callVars, task, engineVars, lock, beamStep, registry, cacheVars,
          draining, updateVars, sampleVars>>

-------------------------------------------------------------------------------
Slot == 0 .. Width - 1
Request == Call \X Slot

Live(b)      == task[b] \in {"stage1", "lock", "stage2"}
Finished(b)  == task[b] \in {"result", "error"}
Cancelled(b) == b \in doomed /\ Live(b)
Paused       == update \in {"sync", "resume"}

\* Requests that hold a permit of the semaphore.
Holding == {r \in Request : request[r] \in {"inflight", "aborted"}}

\* The one-token requests that task b's gather still waits for.
Pending(b) == {r \in {b} \X Slot : request[r] \in {"queued", "inflight", "aborted"}}
Raised(b)  == \E r \in {b} \X Slot : request[r] = "err"

Waiters(b) == {c \in Call : call[c] = "waiting" /\ source[c] = b}
Cached(g)  == {b \in Range(cache) : GroupOf[b] = g}
Served(b)  == {c \in Call : call[c] = "served" /\ source[c] = b}

Init ==
  /\ call = [c \in Call |-> "idle"]
  /\ source = [c \in Call |-> None]
  /\ selected = [c \in Call |-> 0]
  /\ task = [b \in Call |-> "none"]
  /\ request = [r \in Request |-> "unused"]
  /\ permits = MaxInflight
  /\ lock = None
  /\ beamStep = [b \in Call |-> 0]
  /\ registry = [g \in Group |-> None]
  /\ cache = <<>>
  /\ remaining = [b \in Call |-> 0]
  /\ responses = [b \in Call |-> 0]
  /\ draining = None
  /\ update = "idle"
  /\ doomed = {}
  /\ weights = 0
  /\ sampledUnder = [b \in Call |-> 0]
  /\ stamp = [b \in Call |-> 0]

-------------------------------------------------------------------------------
(* Handing a cache entry to a call: the tail of                            *)
(* _get_or_build_two_stage_cache_entry and of _generate_two_stage.         *)

Without(s, b) ==
  IF \E i \in DOMAIN s : s[i] = b
  THEN RemoveAt(s, CHOOSE i \in DOMAIN s : s[i] = b)
  ELSE s

\* Mutant: the cache is never trimmed.
TrimNothing(s) == s

\* _trim_two_stage_cache: popitem(last=False) while the cache is too large.
Trim(s) ==
  IF Len(s) > MaxCacheSize
  THEN SubSeq(s, Len(s) - MaxCacheSize + 1, Len(s))
  ELSE s

\* The entry a call whose task b has returned uses, and the cache then: an
\* entry that is already there wins over the one in hand.
Entry(c, b) ==
  IF Cached(GroupOf[c]) # {} THEN CHOOSE e \in Cached(GroupOf[c]) : TRUE ELSE b
Inserted(c, b) ==
  IF Cached(GroupOf[c]) # {} THEN cache ELSE Trim(Append(cache, b))

\* min(beam_index, len(responses) - 1)
Pick(c, e) ==
  LET wanted == BeamOf[c] % Width
  IN  IF wanted < responses[e] THEN wanted ELSE responses[e] - 1

\* Mutant: a use that does not write the counter back.
SpendWithoutCounting(entries, e) ==
  /\ cache' = IF remaining[e] <= 1 THEN Without(entries, e)
              ELSE Append(Without(entries, e), e)
  /\ UNCHANGED remaining

\* Mutant: the first use pops the entry.
SpendAtOnce(entries, e) ==
  /\ cache' = Without(entries, e)
  /\ remaining' = [remaining EXCEPT ![e] = @ - 1]

\* Mutant: the entry is popped one use late.
SpendLate(entries, e) ==
  /\ cache' = IF remaining[e] <= 0 THEN Without(entries, e)
              ELSE Append(Without(entries, e), e)
  /\ remaining' = [remaining EXCEPT ![e] = IF @ > 0 THEN @ - 1 ELSE @]

\* One use of entry e less: the last use pops it, any other makes it the
\* most recently used.
Spend(entries, e) ==
  \/ /\ remaining[e] <= 1
     /\ cache' = Without(entries, e)
     /\ UNCHANGED remaining
  \/ /\ remaining[e] > 1
     /\ cache' = Append(Without(entries, e), e)
     /\ remaining' = [remaining EXCEPT ![e] = @ - 1]

Deliver(c, b) ==
  LET e == Entry(c, b) IN
    /\ call' = [call EXCEPT ![c] = "served"]
    /\ source' = [source EXCEPT ![c] = e]
    /\ selected' = [selected EXCEPT ![c] = Pick(c, e)]
    /\ Spend(Inserted(c, b), e)

Refuse(c) ==
  /\ call' = [call EXCEPT ![c] = "failed"]
  /\ UNCHANGED <<source, selected, cacheVars>>

\* What a call does with the outcome of the finished task it awaited.
TakeOutcome(c, b) ==
  \/ task[b] = "result" /\ Deliver(c, b)
  \/ task[b] = "error" /\ Refuse(c)

-------------------------------------------------------------------------------
(* generate() up to its first suspension.                                  *)

\* A call can start when the loop is free; in a quiet system the trainer
\* sends none while update_weights runs.
MayArrive(c) ==
  /\ draining = None
  /\ call[c] = "idle"
  /\ QuietUpdates => update = "idle"

\* The group is cached: the call is served at once.
CallHits(c) ==
  /\ MayArrive(c)
  /\ Cached(GroupOf[c]) # {}
  /\ Deliver(c, None)
  /\ UNCHANGED <<task, engineVars, lock, beamStep, registry, draining,
                 updateVars, sampleVars>>

\* The group has a running build: await it.
CallJoins(c) ==
  /\ MayArrive(c)
  /\ Cached(GroupOf[c]) = {}
  /\ registry[GroupOf[c]] # None
  /\ Live(registry[GroupOf[c]])
  /\ call' = [call EXCEPT ![c] = "waiting"]
  /\ source' = [source EXCEPT ![c] = registry[GroupOf[c]]]
  /\ UNCHANGED <<selected, task, engineVars, lock, beamStep, registry,
                 cacheVars, draining, updateVars, sampleVars>>

\* The group's build has ended but its callbacks have not run yet: awaiting a
\* task that is done does not suspend.
CallFindsFinished(c) ==
  /\ MayArrive(c)
  /\ Cached(GroupOf[c]) = {}
  /\ registry[GroupOf[c]] # None
  /\ Finished(registry[GroupOf[c]])
  /\ TakeOutcome(c, registry[GroupOf[c]])
  /\ UNCHANGED <<task, engineVars, lock, beamStep, registry, draining,
                 updateVars, sampleVars>>

\* Mutant: the new task is not registered for the calls that follow.
CallBuildsUnregistered(c) ==
  /\ MayArrive(c)
  /\ Cached(GroupOf[c]) = {}
  /\ registry[GroupOf[c]] = None
  /\ call' = [call EXCEPT ![c] = "waiting"]
  /\ source' = [source EXCEPT ![c] = c]
  /\ task' = [task EXCEPT ![c] = "stage1"]
  /\ request' = [request EXCEPT ![<<c, 0>>] = "queued"]
  /\ UNCHANGED <<selected, permits, lock, beamStep, registry, cacheVars,
                 draining, updateVars, sampleVars>>

\* Nothing there: create the build task, whose first act is to ask the
\* semaphore for the stage-1 request's permit, and await it.
CallBuilds(c) ==
  /\ MayArrive(c)
  /\ Cached(GroupOf[c]) = {}
  /\ registry[GroupOf[c]] = None
  /\ call' = [call EXCEPT ![c] = "waiting"]
  /\ source' = [source EXCEPT ![c] = c]
  /\ task' = [task EXCEPT ![c] = "stage1"]
  /\ request' = [request EXCEPT ![<<c, 0>>] = "queued"]
  /\ registry' = [registry EXCEPT ![GroupOf[c]] = c]
  /\ UNCHANGED <<selected, permits, lock, beamStep, cacheVars, draining,
                 updateVars, sampleVars>>

-------------------------------------------------------------------------------
(* _run_generate_request: acquire, drain the engine's generator, release   *)
(* in the finally clause.                                                  *)

Acquire(r) ==
  /\ draining = None
  /\ request[r] = "queued"
  /\ permits > 0
  /\ permits' = permits - 1
  /\ request' = [request EXCEPT ![r] = "inflight"]
  /\ UNCHANGED <<callVars, task, lock, beamStep, registry, cacheVars, draining,
                 updateVars, sampleVars>>

\* A paused engine answers only what it has aborted.
CanEnd(r) ==
  /\ draining = None
  /\ request[r] \in {"inflight", "aborted"}
  /\ Paused => request[r] = "aborted"

\* A request of a cancelled task ends with CancelledError and only so.
CanReturn(b) == ~Cancelled(b)
CanRaise(b)  == EngineMayFail \/ Cancelled(b)

\* Mutant: a request that raises releases its permit twice.
ReleaseTwiceIfRaised(r, state) ==
  /\ permits' = IF state = "err" THEN permits + 2 ELSE permits + 1
  /\ request' = [request EXCEPT ![r] = state]

\* Mutant: the permit is released only when the request returned.
ReleaseUnlessRaised(r, state) ==
  /\ permits' = IF state = "err" THEN permits ELSE permits + 1
  /\ request' = [request EXCEPT ![r] = state]

ReleaseTo(r, state) ==
  /\ permits' = permits + 1
  /\ request' = [request EXCEPT ![r] = state]

\* Stage 1 returns: the build goes on, in the same step, to wait for the lock.
Stage1Returns(b) ==
  /\ task[b] = "stage1"
  /\ CanEnd(<<b, 0>>)
  /\ CanReturn(b)
  /\ ReleaseTo(<<b, 0>>, "unused")
  /\ task' = [task EXCEPT ![b] = "lock"]
  /\ sampledUnder' = [sampledUnder EXCEPT ![b] = weights]
  /\ UNCHANGED <<callVars, lock, beamStep, registry, cacheVars, draining,
                 updateVars, responses, stamp>>

Stage1Raises(b) ==
  /\ task[b] = "stage1"
  /\ CanEnd(<<b, 0>>)
  /\ CanRaise(b)
  /\ ReleaseTo(<<b, 0>>, "unused")
  /\ task' = [task EXCEPT ![b] = "error"]
  /\ UNCHANGED <<callVars, lock, beamStep, registry, cacheVars, draining,
                 updateVars, sampleVars>>

\* A one-token request of the beam search ends; its build may have failed
\* before it, since gather does not stop the siblings of a failed request.
BeamEnds(r) ==
  /\ task[r[1]] # "stage1"
  /\ CanEnd(r)
  /\ \/ CanReturn(r[1]) /\ ReleaseTo(r, "ok")
     \/ CanRaise(r[1]) /\ ReleaseTo(r, "err")
  /\ UNCHANGED <<callVars, task, lock, beamStep, registry, cacheVars, draining,
                 updateVars, sampleVars>>

-------------------------------------------------------------------------------
(* Stage 2 of the build: the beam search under the lock.                   *)

\* Mutant: stage 2 does not wait for the lock.
LockIgnored == TRUE

LockIsFree == lock = None

TakeLock(b) ==
  /\ draining = None
  /\ task[b] = "lock"
  /\ ~Cancelled(b)
  /\ LockIsFree
  /\ lock' = b
  /\ task' = [task EXCEPT ![b] = "stage2"]
  /\ UNCHANGED <<callVars, engineVars, beamStep, registry, cacheVars, draining,
                 updateVars, sampleVars>>

\* The gather of the last step returned (or there was none yet).
StepReturned(b) ==
  /\ draining = None
  /\ task[b] = "stage2"
  /\ ~Cancelled(b)
  /\ Pending(b) = {}
  /\ ~Raised(b)

\* The next step asks one token for every active beam: one beam at first, up
\* to Width later.
SendStep(b) ==
  /\ StepReturned(b)
  /\ beamStep[b] < MaxTokens
  /\ beamStep' = [beamStep EXCEPT ![b] = @ + 1]
  /\ \E n \in 1 .. Width :
       /\ beamStep[b] = 0 => n = 1
       /\ request' = [r \in Request |->
                        IF r[1] # b THEN request[r]
                        ELSE IF r[2] < n THEN "queued" ELSE "unused"]
  /\ UNCHANGED <<callVars, task, permits, lock, registry, cacheVars, draining,
                 updateVars, sampleVars>>

\* The search is over, at its last step or when no beam can be extended: the
\* lock is released and the entry is made and stamped.  The search may return
\* fewer candidates than beams asked for, never none.
FinishSearch(b) ==
  /\ StepReturned(b)
  /\ MaxTokens > 0 => beamStep[b] > 0
  /\ lock' = None
  /\ task' = [task EXCEPT ![b] = "result"]
  /\ request' = [r \in Request |-> IF r[1] = b THEN "unused" ELSE request[r]]
  /\ \E n \in 1 .. Width :
       /\ beamStep[b] = 0 => n = 1
       /\ responses' = [responses EXCEPT ![b] = n]
  /\ remaining' = [remaining EXCEPT ![b] = Width]
  /\ stamp' = [stamp EXCEPT ![b] = weights]
  /\ UNCHANGED <<callVars, permits, beamStep, registry, cache, draining,
                 updateVars, sampledUnder>>

\* Mutant: an exception leaves the lock taken.
FailSearchKeepsLock(b) ==
  /\ draining = None
  /\ task[b] = "stage2"
  /\ Raised(b) \/ (Cancelled(b) /\ Pending(b) = {})
  /\ task' = [task EXCEPT ![b] = "error"]
  /\ UNCHANGED <<callVars, engineVars, lock, beamStep, registry, cacheVars,
                 draining, updateVars, sampleVars>>

\* A request raised, or the task is cancelled and its gather has ended: the
\* exception leaves `async with', which releases the lock.
FailSearch(b) ==
  /\ draining = None
  /\ task[b] = "stage2"
  /\ Raised(b) \/ (Cancelled(b) /\ Pending(b) = {})
  /\ lock' = None
  /\ task' = [task EXCEPT ![b] = "error"]
  /\ UNCHANGED <<callVars, engineVars, beamStep, registry, cacheVars, draining,
                 updateVars, sampleVars>>

\* A cancelled task that waits for a permit or for the lock ends at once.
UnwindWaiting(b) ==
  /\ draining = None
  /\ Cancelled(b)
  /\ \/ task[b] = "stage1" /\ request[<<b, 0>>] = "err"
     \/ task[b] = "lock"
  /\ task' = [task EXCEPT ![b] = "error"]
  /\ UNCHANGED <<callVars, engineVars, lock, beamStep, registry, cacheVars,
                 draining, updateVars, sampleVars>>

-------------------------------------------------------------------------------
(* The done callbacks of a finished task.                                  *)

\* First callback: the registry forgets the task, if it still names it.
StartDrain(b) ==
  /\ draining = None
  /\ Finished(b)
  /\ draining' = b
  /\ registry' = [g \in Group |-> IF registry[g] = b THEN None ELSE registry[g]]
  /\ UNCHANGED <<callVars, task, engineVars, lock, beamStep, cacheVars,
                 updateVars, sampleVars>>

\* Then every waiter; the task is retired with the last one.
ResumeWaiter(c) ==
  LET b == draining IN
    /\ b # None
    /\ c \in Waiters(b)
    /\ TakeOutcome(c, b)
    /\ \/ /\ Waiters(b) = {c}
          /\ draining' = None
          /\ task' = [task EXCEPT ![b] = "retired"]
       \/ /\ Waiters(b) # {c}
          /\ UNCHANGED <<draining, task>>
    /\ UNCHANGED <<engineVars, lock, beamStep, registry, updateVars, sampleVars>>

-------------------------------------------------------------------------------
(* update_weights: abort_all_requests, the weight sync, resume_generation. *)

Registered == {registry[g] : g \in Group} \ {None}

\* Mutant: the abort forgets the cache.
ClearRegistryOnly ==
  /\ registry' = [g \in Group |-> None]
  /\ UNCHANGED cache

ClearServerState ==
  /\ registry' = [g \in Group |-> None]
  /\ cache' = <<>>

\* Cancel every registered task that is not done.  A cancelled request that
\* waits for a permit leaves the semaphore's queue at once.
CancelBuilds(S) ==
  request' = [r \in Request |->
                IF r[1] \in S /\ Live(r[1]) /\ request[r] = "queued"
                THEN "err" ELSE request[r]]

StartUpdate ==
  /\ draining = None
  /\ update = "idle"
  /\ weights < MaxUpdates
  /\ \/ /\ Registered = {}
        /\ update' = "engine"
        /\ ClearServerState
        /\ UNCHANGED <<doomed, request>>
     \/ /\ Registered # {}
        /\ update' = "gather"
        /\ doomed' = Registered
        /\ CancelBuilds(Registered)
        /\ UNCHANGED <<registry, cache>>
  /\ UNCHANGED <<callVars, task, permits, lock, beamStep, remaining, draining,
                 weights, sampleVars>>

\* Mutant: the abort does not wait for the tasks it cancelled.
GatherSkipped == TRUE

\* The gather returns when every task it was given is done; that wake-up is
\* queued behind the callbacks of those tasks.
GatherReturned == \A b \in doomed : task[b] = "retired"

ClearAfterGather ==
  /\ draining = None
  /\ update = "gather"
  /\ GatherReturned
  /\ update' = "engine"
  /\ doomed' = {}
  /\ ClearServerState
  /\ UNCHANGED <<callVars, task, engineVars, lock, beamStep, remaining,
                 draining, weights, sampleVars>>

\* vLLM's own abort: what is in the engine ends with what it has, and the
\* engine is paused until resume_generation.
AbortEngine ==
  /\ draining = None
  /\ update = "engine"
  /\ update' = "sync"
  /\ request' = [r \in Request |->
                   IF request[r] = "inflight" THEN "aborted" ELSE request[r]]
  /\ UNCHANGED <<callVars, task, permits, lock, beamStep, registry, cacheVars,
                 draining, doomed, weights, sampleVars>>

\* Mutant: resume_generation is not in a finally clause.
SyncWithoutFinally ==
  /\ draining = None
  /\ update = "sync"
  /\ \/ update' = "resume" /\ weights' = weights + 1
     \/ update' = "raised" /\ UNCHANGED weights
  /\ UNCHANGED <<callVars, task, engineVars, lock, beamStep, registry,
                 cacheVars, draining, doomed, sampleVars>>

\* The sync may raise; resume_generation runs in the finally clause.
SyncWeights ==
  /\ draining = None
  /\ update = "sync"
  /\ update' = "resume"
  /\ weights' \in {weights, weights + 1}
  /\ UNCHANGED <<callVars, task, engineVars, lock, beamStep, registry,
                 cacheVars, draining, doomed, sampleVars>>

ResumeGeneration ==
  /\ draining = None
  /\ update = "resume"
  /\ update' = "idle"
  /\ UNCHANGED <<callVars, task, engineVars, lock, beamStep, registry,
                 cacheVars, draining, doomed, weights, sampleVars>>

-------------------------------------------------------------------------------
\* Every call that will ever come has been answered and nothing is under way.
Quiescent ==
  /\ \A c \in Call : call[c] \in {"served", "failed"}
  /\ \A b \in Call : task[b] \in {"none", "retired"} /\ Pending(b) = {}
  /\ update = "idle" /\ weights = MaxUpdates

Rest == Quiescent /\ UNCHANGED vars

\* Calls and weight updates come from outside.
CallArrives(c) ==
  CallHits(c) \/ CallJoins(c) \/ CallFindsFinished(c) \/ CallBuilds(c)

RequestStep(r) == Acquire(r) \/ BeamEnds(r)

BuildStep(b) ==
  \/ Stage1Returns(b) \/ Stage1Raises(b)
  \/ TakeLock(b) \/ SendStep(b) \/ FinishSearch(b) \/ FailSearch(b)
  \/ UnwindWaiting(b) \/ StartDrain(b)

UpdateStep ==
  ClearAfterGather \/ AbortEngine \/ SyncWeights \/ ResumeGeneration

ServerStep ==
  \/ \E r \in Request : RequestStep(r)
  \/ \E b \in Call : BuildStep(b) \/ ResumeWaiter(b)

Next ==
  \/ \E c \in Call : CallArrives(c)
  \/ ServerStep
  \/ StartUpdate
  \/ UpdateStep
  \/ Rest

\* The event loop runs a ready callback, the engine answers a request unless it
\* is paused, and the trainer goes on with the update it started.  Nothing
\* obliges a call to come or an update to start.  Every call makes finitely
\* many requests, so this weak fairness is enough without the order in which
\* asyncio's semaphore and lock serve their waiters.
Fairness == WF_vars(ServerStep) /\ WF_vars(UpdateStep)

Spec == Init /\ [][Next]_vars
FairSpec == Spec /\ Fairness

-------------------------------------------------------------------------------
(* Properties.                                                             *)

TypeOK ==
  /\ call \in [Call -> {"idle", "waiting", "served", "failed"}]
  /\ source \in [Call -> Call \cup {None}]
  /\ selected \in [Call -> Slot]
  /\ task \in [Call -> {"none", "stage1", "lock", "stage2", "result", "error",
                        "retired"}]
  /\ request \in [Request -> {"unused", "queued", "inflight", "aborted", "ok",
                              "err"}]
  /\ permits \in 0 .. MaxInflight
  /\ lock \in Call \cup {None}
  /\ beamStep \in [Call -> 0 .. MaxTokens]
  /\ registry \in [Group -> Call \cup {None}]
  /\ cache \in Seq(Call)
  /\ remaining \in [Call -> 0 .. Width]
  /\ responses \in [Call -> 0 .. Width]
  /\ draining \in Call \cup {None}
  /\ update \in {"idle", "gather", "engine", "sync", "resume"}
  /\ doomed \subseteq Call
  /\ weights \in 0 .. MaxUpdates
  /\ sampledUnder \in [Call -> 0 .. MaxUpdates]
  /\ stamp \in [Call -> 0 .. MaxUpdates]

\* The engine never has more requests than the semaphore allows, and no
\* permit is ever lost: not by a request that raises, nor by one whose build
\* failed before it, nor by a cancelled one (_run_generate_request).
PermitsConserved == permits + Cardinality(Holding) = MaxInflight

\* At most one stage-1 sample of a group is being made at a time, however the
\* calls of the group arrive around the end of a build
\* (_get_or_build_two_stage_cache_entry).
OneBuildPerGroup ==
  \A a, b \in Call : Live(a) /\ Live(b) /\ GroupOf[a] = GroupOf[b] => a = b

\* Beam searches exclude each other, and only a search in progress holds the
\* lock: no failure or cancellation leaves it taken (async with
\* self._two_stage_stage2_lock).
LockFollowsSearch == \A b \in Call : task[b] = "stage2" <=> lock = b

\* The counter of a cached entry is what is left of its Width uses, whether
\* its calls hit the cache, awaited the build or found the entry evicted and
\* put it back (cache_entry["remaining"]).  So an entry whose last use has
\* been made is not in the cache.
RemainingMatchesUses ==
  \A b \in Range(cache) : remaining[b] + Cardinality(Served(b)) = Width

\* The calls of a group share samples: a second sample is not used before the
\* first one has served Width calls.  Holds while nothing is evicted and no
\* weights are updated.
Opened(b) == Cardinality(Served(b)) \in 1 .. Width - 1
OneOpenSample ==
  \A a, b \in Call :
    Opened(a) /\ Opened(b) /\ GroupOf[a] = GroupOf[b] => a = b

\* The cache keeps within its limit and has one entry per group, also when
\* a late waiter puts an entry back (_trim_two_stage_cache).
CacheBounded ==
  /\ Len(cache) <= MaxCacheSize
  /\ \A i, j \in DOMAIN cache :
       GroupOf[cache[i]] = GroupOf[cache[j]] => i = j

\* An entry that a call can still be served from was sampled, and stamped,
\* under the weights the engine has now (abort_all_requests before each
\* weight sync).
CacheIsFresh ==
  \A b \in Range(cache) : sampledUnder[b] = weights /\ stamp[b] = weights

\* Every build that is under way is known to the registry, so a call of its
\* group joins it and an abort reaches it.
NoForgottenBuild == \A b \in Call : Live(b) => registry[GroupOf[b]] = b

\* A call that started is answered, by a response or by an exception,
\* whatever fails or is aborted around it.
EveryCallAnswered ==
  \A c \in Call : call[c] = "waiting" ~> call[c] \in {"served", "failed"}

\* A weight update that started ends with the engine resumed, also when the
\* sync raises and whatever builds it had to cancel.
UpdateEnds == update # "idle" ~> update = "idle"

Promise == INSTANCE SharedSamples WITH
  open <- [g \in Group |->
             IF Cached(g) = {} THEN None ELSE CHOOSE b \in Cached(g) : TRUE],
  uses <- [b \in Call |-> Cardinality(Served(b))],
  source <- [c \in Call |-> IF call[c] = "served" THEN source[c] ELSE None]

\* The server keeps the promise of SharedSamples.
KeepsPromise == Promise!Spec
===============================================================================
