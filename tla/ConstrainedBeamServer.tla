------------------------ MODULE ConstrainedBeamServer ------------------------
(***************************************************************************)
(* The constrained-beam rollout server of                                  *)
(*   verl_gr/workers/rollout/constrained_beam_vllm_async.py                *)
(* and the weight update that drives it,                                   *)
(*   verl_gr/workers/rollout/constrained_beam_vllm_rollout.py.             *)
(*                                                                         *)
(* A shared call is served from the search of its group, which the first   *)
(* call of the group starts and a cache keeps for the others.  A private   *)
(* call (training, with the cache off) searches for itself, and a sampling *)
(* call draws one sequence; both run in the call's own coroutine.          *)
(*                                                                         *)
(* A search is named by the call that started it.  Its engine requests are *)
(* counted, since nothing tells two requests of a search apart; all of     *)
(* them share one semaphore.  Which candidate of the entry a call is given *)
(* is left out.                                                            *)
(***************************************************************************)
EXTENDS Integers, FiniteSets, SequencesExt

CONSTANTS
  Call,          \* the generate() calls that may arrive
  GroupOf,       \* [Call -> beam group]
  Width,         \* beam_config.width
  MaxCacheSize,  \* _MAX_CONSTRAINED_BEAM_CACHE_SIZE (1024 in the code)
  MaxInflight,   \* _constrained_beam_max_inflight_requests
  MaxTokens,     \* bound on the steps of a search
  MaxUpdates,    \* bound on the weight updates
  None           \* no search

\* Assumed of the constants by RolloutLoops.
ServerAssumption ==
  /\ {Width, MaxCacheSize, MaxInflight, MaxTokens} \subseteq Nat \ {0}
  /\ MaxUpdates \in Nat
  /\ IsFiniteSet(Call) /\ DOMAIN GroupOf = Call
  /\ None \notin Call

VARIABLES
  kind,       \* "shared", "private" or "sample": the decode mode of the batch
  call,       \* "idle", "waiting", "served" or "failed"
  source,     \* the search a call awaits, then the one it was served from
  search,     \* "none", "running", "result" or "error"
  tokens,     \* the steps a search has sent
  queued,     \* the requests of a search that wait for a permit
  inflight,   \* the requests of a search the engine runs
  broken,     \* did a request of the search's last step raise?
  registry,   \* _constrained_beam_build_tasks
  cache,      \* _constrained_beam_cache, least recently used first
  remaining,  \* cache_entry["remaining"]
  update,     \* where update_weights is
  doomed,     \* the searches abort_all_requests cancels and gathers
  weights,    \* version of the weights
  oldest,     \* history: the first weights a search ran under
  evicted     \* history: the searches that left a full cache unused up

callVars   == <<call, source>>
searchVars == <<search, tokens, broken, oldest>>
engineVars == <<queued, inflight>>
cacheVars  == <<cache, remaining, evicted>>
updateVars == <<update, doomed, weights>>
vars == <<kind, callVars, searchVars, engineVars, registry, cacheVars, updateVars>>

Init ==
  /\ kind \in {"shared", "private", "sample"}
  /\ call = [c \in Call |-> "idle"]
  /\ source = [c \in Call |-> None]
  /\ search = [b \in Call |-> "none"]
  /\ tokens = [b \in Call |-> 0]
  /\ queued = [b \in Call |-> 0]
  /\ inflight = [b \in Call |-> 0]
  /\ broken = [b \in Call |-> FALSE]
  /\ registry = [g \in Range(GroupOf) |-> None]
  /\ cache = <<>>
  /\ remaining = [b \in Call |-> 0]
  /\ update = "idle"
  /\ doomed = {}
  /\ weights = 0
  /\ oldest = [b \in Call |-> 0]
  /\ evicted = {}

Permits == MaxInflight - FoldFunction(+, 0, inflight)
Cancelled(b) == b \in doomed /\ search[b] = "running"
Cached(s, g) == {b \in Range(s) : GroupOf[b] = g}
Without(s, b) ==
  IF \E i \in DOMAIN s : s[i] = b
  THEN RemoveAt(s, CHOOSE i \in DOMAIN s : s[i] = b)
  ELSE s

-----------------------------------------------------------------------------
(* Serving a call from an entry.                                           *)

\* One use of the entry less: the last one pops it without writing the
\* counter, any other makes it the most recently used.
Spend(st, e) ==
  IF st.remaining[e] <= 1
  THEN [st EXCEPT !.cache = Without(@, e)]
  ELSE [st EXCEPT !.cache = Append(Without(@, e), e), !.remaining[e] = @ - 1]

\* The result of search b goes into the cache unless an entry of the group is
\* there; a full cache drops its least recently used entry.
Insert(st, c, b) ==
  IF Cached(st.cache, GroupOf[c]) # {} THEN st
  ELSE IF Len(st.cache) < MaxCacheSize THEN [st EXCEPT !.cache = Append(@, b)]
  ELSE [st EXCEPT !.cache = Append(Tail(@), b), !.evicted = @ \cup {Head(st.cache)}]

\* One call served from its group's entry, or from search b when there is none.
Serve(c, b, st) ==
  LET there == Cached(st.cache, GroupOf[c])
      e == IF there # {} THEN CHOOSE d \in there : TRUE ELSE b
  IN  Spend([Insert(st, c, b) EXCEPT !.source[c] = e], e)

Store == [cache |-> cache, remaining |-> remaining, evicted |-> evicted, source |-> source]

\* The calls C are served, one after the other, after search b.
Deliver(C, b) ==
  LET end == FoldSet(LAMBDA c, st : Serve(c, b, st), Store, C) IN
  /\ cache' = end.cache
  /\ remaining' = end.remaining
  /\ evicted' = end.evicted
  /\ source' = end.source
  /\ call' = [c \in Call |-> IF c \in C THEN "served" ELSE call[c]]

\* The outcome of search b reaches the calls C.
Outcome(C, b) ==
  \/ search[b] = "result" /\ Deliver(C, b)
  \/ /\ search[b] = "error"
     /\ call' = [c \in Call |-> IF c \in C THEN "failed" ELSE call[c]]
     /\ UNCHANGED <<source, cacheVars>>

-----------------------------------------------------------------------------
(* A call arrives; the trainer sends none while update_weights runs.       *)

MayArrive(c) == call[c] = "idle" /\ update = "idle"

Start(c) ==
  /\ call' = [call EXCEPT ![c] = "waiting"]
  /\ source' = [source EXCEPT ![c] = c]
  /\ search' = [search EXCEPT ![c] = "running"]
  /\ tokens' = [tokens EXCEPT ![c] = 1]
  /\ queued' = [queued EXCEPT ![c] = 1]
  /\ oldest' = [oldest EXCEPT ![c] = weights]
  /\ UNCHANGED <<broken, inflight, cacheVars, updateVars>>

\* A private search or a sample: the call's own coroutine runs it.
CallAlone(c) ==
  /\ MayArrive(c)
  /\ kind # "shared"
  /\ Start(c)
  /\ UNCHANGED registry

Shared(c) == MayArrive(c) /\ kind = "shared"

CallHits(c) ==
  /\ Shared(c)
  /\ Cached(cache, GroupOf[c]) # {}
  /\ Deliver({c}, None)
  /\ UNCHANGED <<searchVars, engineVars, registry, updateVars>>

\* Mutant: a running search of the group is not joined.
JoinsNothing(c) == FALSE

Joins(c) == registry[GroupOf[c]] # None

\* The group's search is registered: await it, or take its outcome if it has
\* ended and its callbacks have not run yet.
CallJoins(c) ==
  /\ Shared(c)
  /\ Cached(cache, GroupOf[c]) = {}
  /\ Joins(c)
  /\ LET b == registry[GroupOf[c]] IN
       \/ /\ search[b] = "running"
          /\ call' = [call EXCEPT ![c] = "waiting"]
          /\ source' = [source EXCEPT ![c] = b]
          /\ UNCHANGED cacheVars
       \/ Outcome({c}, b)
  /\ UNCHANGED <<searchVars, engineVars, registry, updateVars>>

CallBuilds(c) ==
  /\ Shared(c)
  /\ Cached(cache, GroupOf[c]) = {}
  /\ ~ Joins(c)
  /\ Start(c)
  /\ registry' = [registry EXCEPT ![GroupOf[c]] = c]

-----------------------------------------------------------------------------
(* Engine requests and the steps of a search.                              *)

Acquire(b) ==
  /\ queued[b] > 0
  /\ Permits > 0
  /\ queued' = [queued EXCEPT ![b] = @ - 1]
  /\ inflight' = [inflight EXCEPT ![b] = @ + 1]
  /\ UNCHANGED <<callVars, searchVars, registry, cacheVars, updateVars>>

\* A request ends and gives its permit back; it raises if the engine fails or
\* its search was cancelled.  A paused engine answers nothing.
RequestEnds(b) ==
  /\ inflight[b] > 0
  /\ update \notin {"sync", "resume"}
  /\ inflight' = [inflight EXCEPT ![b] = @ - 1]
  /\ \E raises \in BOOLEAN :
       /\ Cancelled(b) => raises
       /\ broken' = [broken EXCEPT ![b] = search[b] = "running" /\ (@ \/ raises)]
  /\ UNCHANGED <<callVars, search, tokens, oldest, queued, registry,
                 cacheVars, updateVars>>

\* gather returns when every request of the step has.
StepReturned(b) ==
  /\ search[b] = "running"
  /\ ~ Cancelled(b)
  /\ queued[b] + inflight[b] = 0
  /\ ~ broken[b]

\* A sample goes on with one sequence, a search with every beam alive.
Alive == 1 .. (IF kind = "sample" THEN 1 ELSE Width)

\* The next step asks one token for each.
SendStep(b) ==
  /\ StepReturned(b)
  /\ tokens[b] < MaxTokens
  /\ tokens' = [tokens EXCEPT ![b] = @ + 1]
  /\ \E n \in Alive : queued' = [queued EXCEPT ![b] = n]
  /\ UNCHANGED <<callVars, search, broken, oldest, inflight, registry,
                 cacheVars, updateVars>>

\* The last step, or nothing is left to extend: the entry is made.
FindCandidates(b) ==
  /\ StepReturned(b)
  /\ search' = [search EXCEPT ![b] = "result"]
  /\ remaining' = [remaining EXCEPT ![b] = Width]
  /\ UNCHANGED <<callVars, tokens, broken, oldest, engineVars, registry, cache,
                 evicted, updateVars>>

\* gather raises at the first exception, and its other requests go on; a
\* cancelled search ends when all of its requests have.
SearchRaises(b) ==
  /\ search[b] = "running"
  /\ broken[b]
  /\ Cancelled(b) => queued[b] + inflight[b] = 0
  /\ search' = [search EXCEPT ![b] = "error"]
  /\ broken' = [broken EXCEPT ![b] = FALSE]
  /\ UNCHANGED <<callVars, tokens, oldest, engineVars, registry, cacheVars, updateVars>>

\* The done callback takes the search out of the registry if it is there.
Unregistered(b) == [g \in DOMAIN registry |-> IF registry[g] = b THEN None ELSE registry[g]]

\* The search has ended: its callbacks run, the registry's and then those of
\* the calls that await it.
Callbacks(b) ==
  /\ search[b] \in {"result", "error"}
  /\ LET waiters == {c \in Call : call[c] = "waiting" /\ source[c] = b} IN
       /\ waiters # {}
       /\ IF kind = "shared" THEN Outcome(waiters, b)
          ELSE /\ call' = [call EXCEPT ![b] = IF search[b] = "result" THEN "served" ELSE "failed"]
               /\ UNCHANGED <<source, cacheVars>>
  /\ registry' = Unregistered(b)
  /\ UNCHANGED <<searchVars, engineVars, updateVars>>

-----------------------------------------------------------------------------
(* update_weights: abort_all_requests, the new weights, resume.            *)

\* Every registered search is gathered, and cancelled if it runs.
AbortSearches ==
  /\ update = "idle"
  /\ weights < MaxUpdates
  /\ update' = "gather"
  /\ doomed' = Range(registry) \ {None}
  /\ LET cancelled == {b \in doomed' : search[b] = "running"} IN
       /\ queued' = [b \in Call |-> IF b \in cancelled THEN 0 ELSE queued[b]]
       /\ broken' = [b \in Call |-> broken[b] \/ b \in cancelled]
  /\ UNCHANGED <<callVars, search, tokens, oldest, inflight, registry,
                 cacheVars, weights>>

\* Mutant: the entries stay in the cache.
KeepEntries == cache

\* What abort_all_requests leaves in the cache.
ClearEntries == <<>>

\* The gather is over, after the callbacks of what it waited for: the registry
\* and the cache are cleared, and the engine aborts what it runs and pauses.
AbortEngine ==
  /\ update = "gather"
  /\ \A b \in doomed : search[b] # "running"
  /\ \A c \in Call : call[c] = "waiting" => source[c] \notin doomed
  /\ update' = "sync"
  /\ registry' = [g \in DOMAIN registry |-> None]
  /\ cache' = ClearEntries
  /\ inflight' = [b \in Call |-> 0]
  /\ UNCHANGED <<callVars, searchVars, queued, remaining, evicted, doomed, weights>>

NewWeights ==
  /\ update = "sync"
  /\ update' = "resume"
  /\ weights' = weights + 1
  /\ UNCHANGED <<callVars, searchVars, engineVars, registry, cacheVars, doomed>>

\* finally: generation resumes.
Resume ==
  /\ update = "resume"
  /\ update' = "idle"
  /\ doomed' = {}
  /\ UNCHANGED <<callVars, searchVars, engineVars, registry, cacheVars, weights>>

Proceed(b) ==
  \/ Acquire(b) \/ RequestEnds(b) \/ SearchRaises(b)
  \/ SendStep(b) \/ FindCandidates(b) \/ Callbacks(b)

Next ==
  /\ \/ \E c \in Call : CallAlone(c) \/ CallHits(c) \/ CallJoins(c) \/ CallBuilds(c) \/ Proceed(c)
     \/ AbortSearches \/ AbortEngine \/ NewWeights \/ Resume
  /\ UNCHANGED kind

Spec == Init /\ [][Next]_vars

-----------------------------------------------------------------------------
Shares(c) == kind = "shared" /\ call[c] = "served"
Uses(b) == Cardinality({c \in Call : Shares(c) /\ source[c] = b})

\* The calls of a group are served from one search: a second one only if the
\* first was used as often as it has beams, was dropped by a full cache, or
\* ran under older weights, however the calls, the callbacks and the cache
\* interleave (constrained_beam_vllm_async.py:206-219, 342-362).
OneSearchPerGroup ==
  \A c, d \in Call :
    /\ Shares(c) /\ Shares(d)
    /\ GroupOf[c] = GroupOf[d]
    /\ source[c] # source[d]
    => \E b \in {source[c], source[d]} :
         Uses(b) >= Width \/ b \in evicted \/ oldest[b] < weights

\* No entry of the cache comes from a search that began under older weights:
\* abort_all_requests leaves none behind and no search survives it, while the
\* trainer sends no call (constrained_beam_vllm_async.py:96-120).
CacheIsFresh == \A b \in Range(cache) : oldest[b] = weights
=============================================================================
