------------------------- MODULE TwoStageServerProofs -------------------------
(***************************************************************************)
(* What TwoStageServer keeps for every value of its constants: the types   *)
(* and the permits, the lock, and, when the trainer sends no call during a *)
(* weight update, the registry of builds and the freshness of the cache;   *)
(* the cache within its limit with one entry per group, the counter of an  *)
(* entry in step with the calls it has served, and with them that the      *)
(* server implements SharedSamples.                                        *)
(***************************************************************************)
EXTENDS TwoStageServer, TLAPS, FiniteSetTheorems, SequenceTheorems

LEMMA WithoutType ==
  ASSUME NEW S, NEW s \in Seq(S), NEW b
  PROVE  /\ Without(s, b) \in Seq(S)
         /\ Range(Without(s, b)) \subseteq Range(s)
<1>1. CASE \E i \in DOMAIN s : s[i] = b
  <2> DEFINE k == CHOOSE i \in DOMAIN s : s[i] = b
             front == SubSeq(s, 1, k - 1)
             back == SubSeq(s, k + 1, Len(s))
  <2>1. k \in 1 .. Len(s)
    BY <1>1
  <2>2. Without(s, b) = front \o back
    BY <1>1 DEF Without, RemoveAt
  <2> HIDE DEF k
  <2>3. /\ front \in Seq(S)
        /\ Len(front) = k - 1
        /\ \A i \in 1 .. k - 1 : front[i] = s[i]
    BY <2>1
  <2>4. /\ back \in Seq(S)
        /\ Len(back) = Len(s) - k
        /\ \A i \in 1 .. Len(s) - k : back[i] = s[k + i]
    BY <2>1
  <2> HIDE DEF front, back
  <2>5. /\ front \o back \in Seq(S)
        /\ Len(front \o back) = Len(front) + Len(back)
        /\ \A i \in 1 .. Len(front) + Len(back) :
             (front \o back)[i] = IF i <= Len(front) THEN front[i]
                                  ELSE back[i - Len(front)]
    BY <2>3, <2>4, ConcatProperties
  <2>6. ASSUME NEW i \in 1 .. Len(front \o back)
        PROVE  (front \o back)[i] \in Range(s)
    <3>1. /\ Len(front \o back) = Len(front) + Len(back)
          /\ (front \o back)[i] = IF i <= Len(front) THEN front[i]
                                  ELSE back[i - Len(front)]
      BY <2>5
    <3>2. DOMAIN s = 1 .. Len(s) /\ Len(s) \in Nat /\ k \in Nat /\ i \in Nat
      BY <2>1
    <3>3. \E j \in 1 .. Len(s) : (front \o back)[i] = s[j]
      <4>1. CASE i <= k - 1
        BY <2>1, <2>3, <2>4, <3>1, <3>2, <4>1
      <4>2. CASE ~(i <= k - 1)
        <5>1. i - (k - 1) \in 1 .. Len(s) - k
          BY <2>1, <2>3, <2>4, <3>1, <3>2, <4>2
        <5>2. back[i - (k - 1)] = s[k + (i - (k - 1))]
          BY <2>4, <5>1
        <5> QED
          BY <2>1, <2>3, <3>1, <3>2, <4>2, <5>1, <5>2
      <4> QED
        BY <4>1, <4>2
    <3> QED
      BY <3>2, <3>3 DEF Range
  <2> QED
    BY <2>2, <2>5, <2>6 DEF Range
<1>2. CASE ~ \E i \in DOMAIN s : s[i] = b
  BY <1>2 DEF Without
<1> QED
  BY <1>1, <1>2

LEMMA TrimType ==
  ASSUME NEW S, NEW s \in Seq(S)
  PROVE  /\ Trim(s) \in Seq(S)
         /\ Range(Trim(s)) \subseteq Range(s)
<1>1. MaxCacheSize \in Nat \ {0}
  BY ConstantsAssumption
<1> QED
  BY <1>1 DEF Trim, Range

LEMMA SeqRange ==
  ASSUME NEW S, NEW s \in Seq(S)
  PROVE  Range(s) \subseteq S
BY DEF Range

LEMMA AppendRange ==
  ASSUME NEW S, NEW s \in Seq(S), NEW b \in S
  PROVE  /\ Append(s, b) \in Seq(S)
         /\ Range(Append(s, b)) \subseteq Range(s) \cup {b}
BY DEF Range

-------------------------------------------------------------------------------
(* Type correctness.  TypeOK is not inductive by itself: a response index  *)
(* needs a response, a weight update must not pass its bound, and permits  *)
(* stay within MaxInflight because each permit taken is accounted for.     *)

ResponsesExist ==
  /\ \A b \in Call : task[b] = "result" => responses[b] > 0
  /\ \A b \in Range(cache) : responses[b] > 0

UpdatesBounded ==
  update \in {"gather", "engine", "sync"} => weights < MaxUpdates

IdleCallHasNoTask == \A c \in Call : call[c] = "idle" => task[c] = "none"

NoTaskNoRequest ==
  \A r \in Request : task[r[1]] = "none" => request[r] = "unused"

TypeInv ==
  /\ TypeOK
  /\ PermitsConserved
  /\ ResponsesExist
  /\ UpdatesBounded
  /\ IdleCallHasNoTask
  /\ NoTaskNoRequest

LEMMA RequestFinite == IsFiniteSet(Request) /\ IsFiniteSet(Holding)
<1>1. IsFiniteSet(Slot)
  BY ConstantsAssumption, FS_Interval DEF Slot
<1>2. IsFiniteSet(Request)
  BY <1>1, ConstantsAssumption, FS_Product DEF Request
<1>3. Holding \subseteq Request
  BY DEF Holding
<1> QED
  BY <1>2, <1>3, FS_Subset

\* Handing an entry to a call keeps the types and adds to the cache at most
\* the entry in hand.
LEMMA DeliverType ==
  ASSUME TypeOK, ResponsesExist, NEW c \in Call, NEW b, Deliver(c, b),
         Cached(GroupOf[c]) # {} \/ (b \in Call /\ responses[b] > 0)
  PROVE  /\ call' \in [Call -> {"idle", "waiting", "served", "failed"}]
         /\ source' \in [Call -> Call \cup {None}]
         /\ selected' \in [Call -> Slot]
         /\ cache' \in Seq(Call)
         /\ remaining' \in [Call -> 0 .. Width]
         /\ \A e \in Range(cache') :
              e \in Range(cache) \/ (e = b /\ Cached(GroupOf[c]) = {})
         /\ call' = [call EXCEPT ![c] = "served"]
<1> DEFINE e == Entry(c, b)
           entries == Inserted(c, b)
<1>1. /\ cache \in Seq(Call)
      /\ Range(cache) \subseteq Call
      /\ remaining \in [Call -> 0 .. Width]
      /\ responses \in [Call -> 0 .. Width]
  <2>1. cache \in Seq(Call)
    BY DEF TypeOK
  <2> QED
    BY <2>1, SeqRange DEF TypeOK
<1>2. /\ e \in Call
      /\ responses[e] > 0
      /\ e \in Range(cache) \/ (e = b /\ Cached(GroupOf[c]) = {})
  BY <1>1 DEF Entry, Cached, ResponsesExist
<1>3. /\ entries \in Seq(Call)
      /\ \A x \in Range(entries) :
           x \in Range(cache) \/ (x = b /\ Cached(GroupOf[c]) = {})
  <2>1. CASE Cached(GroupOf[c]) # {}
    BY <1>1, <2>1 DEF Inserted
  <2>2. CASE Cached(GroupOf[c]) = {}
    <3>1. b \in Call
      BY <2>2
    <3>2. entries = Trim(Append(cache, b))
      BY <2>2 DEF Inserted
    <3>3. /\ Append(cache, b) \in Seq(Call)
          /\ Range(Append(cache, b)) \subseteq Range(cache) \cup {b}
      BY <1>1, <3>1, AppendRange
    <3>4. /\ entries \in Seq(Call)
          /\ Range(entries) \subseteq Range(Append(cache, b))
      BY <3>2, <3>3, TrimType
    <3> QED
      BY <2>2, <3>3, <3>4
  <2> QED
    BY <2>1, <2>2
<1>4. /\ Pick(c, e) \in Slot
  <2>1. /\ BeamOf[c] \in Nat /\ Width \in Nat \ {0}
        /\ responses[e] \in 1 .. Width
    BY <1>1, <1>2, ConstantsAssumption
  <2>2. BeamOf[c] % Width \in 0 .. Width - 1
    BY <2>1
  <2> QED
    BY <2>1, <2>2 DEF Pick, Slot
<1>5. Deliver(c, b) <=> /\ call' = [call EXCEPT ![c] = "served"]
                        /\ source' = [source EXCEPT ![c] = e]
                        /\ selected' = [selected EXCEPT ![c] = Pick(c, e)]
                        /\ Spend(entries, e)
  BY DEF Deliver
<1> HIDE DEF e, entries
<1>6. /\ Without(entries, e) \in Seq(Call)
      /\ Range(Without(entries, e)) \subseteq Range(entries)
  BY <1>3, WithoutType
<1>7. /\ cache' \in Seq(Call)
      /\ Range(cache') \subseteq Range(entries) \cup {e}
      /\ remaining' \in [Call -> 0 .. Width]
  <2>1. CASE remaining[e] <= 1
    BY <1>1, <1>2, <1>5, <1>6, <2>1 DEF Spend
  <2>2. CASE remaining[e] > 1
    <3>1. cache' = Append(Without(entries, e), e)
      BY <1>1, <1>2, <1>5, <2>2 DEF Spend
    <3>2. remaining' = [remaining EXCEPT ![e] = @ - 1]
      BY <1>1, <1>2, <1>5, <2>2 DEF Spend
    <3>3. /\ cache' \in Seq(Call)
          /\ Range(cache') \subseteq Range(Without(entries, e)) \cup {e}
      BY <1>2, <1>6, <3>1, AppendRange
    <3>4. remaining' \in [Call -> 0 .. Width]
      BY <1>1, <1>2, <2>2, <3>2, ConstantsAssumption
    <3> QED
      BY <1>6, <3>3, <3>4
  <2> QED
    BY <1>1, <1>2, <2>1, <2>2, ConstantsAssumption
<1>8. /\ call' = [call EXCEPT ![c] = "served"]
      /\ source' = [source EXCEPT ![c] = e]
      /\ selected' = [selected EXCEPT ![c] = Pick(c, e)]
  BY <1>5
<1>9. /\ call' \in [Call -> {"idle", "waiting", "served", "failed"}]
      /\ source' \in [Call -> Call \cup {None}]
      /\ selected' \in [Call -> Slot]
  BY <1>2, <1>4, <1>8 DEF TypeOK
<1>10. \A x \in Range(cache') :
         x \in Range(cache) \/ (x = b /\ Cached(GroupOf[c]) = {})
  BY <1>2, <1>3, <1>7
<1> QED
  BY <1>7, <1>8, <1>9, <1>10

-------------------------------------------------------------------------------
\* A step that leaves every request's hold on its permit alone.
LEMMA HoldingKept ==
  ASSUME PermitsConserved, permits' = permits, Holding' = Holding
  PROVE  PermitsConserved'
BY DEF PermitsConserved

\* A step that takes a permit for one request.
LEMMA HoldingTaken ==
  ASSUME PermitsConserved, permits \in Nat, NEW r \in Request, r \notin Holding,
         permits' = permits - 1, Holding' = Holding \cup {r}
  PROVE  PermitsConserved'
<1>1. IsFiniteSet(Holding) /\ Cardinality(Holding) \in Nat
  BY RequestFinite, FS_CardinalityType
<1>2. Cardinality(Holding \cup {r}) = Cardinality(Holding) + 1
  BY <1>1, FS_AddElement
<1> QED
  BY <1>1, <1>2, ConstantsAssumption DEF PermitsConserved

\* A step that gives the permit of one request back.
LEMMA HoldingReleased ==
  ASSUME PermitsConserved, permits \in Nat, NEW r \in Holding,
         permits' = permits + 1, Holding' = Holding \ {r}
  PROVE  PermitsConserved' /\ permits' \in 0 .. MaxInflight
<1>1. IsFiniteSet(Holding) /\ Cardinality(Holding) \in Nat
  BY RequestFinite, FS_CardinalityType
<1>2. /\ Cardinality(Holding \ {r}) = Cardinality(Holding) - 1
      /\ Cardinality(Holding \ {r}) \in Nat
  BY <1>1, FS_RemoveElement, FS_CardinalityType
<1> QED
  BY <1>1, <1>2, ConstantsAssumption DEF PermitsConserved

LEMMA ReleaseType ==
  ASSUME TypeOK, PermitsConserved, NEW r \in Request, CanEnd(r),
         NEW state \in {"unused", "ok", "err"}, ReleaseTo(r, state)
  PROVE  /\ PermitsConserved'
         /\ permits' \in 0 .. MaxInflight
         /\ request' \in [Request -> {"unused", "queued", "inflight", "aborted",
                                     "ok", "err"}]
<1>1. /\ request \in [Request -> {"unused", "queued", "inflight", "aborted",
                                 "ok", "err"}]
      /\ permits \in Nat
  BY ConstantsAssumption DEF TypeOK
<1>2. /\ request[r] \in {"inflight", "aborted"}
      /\ permits' = permits + 1
      /\ request' = [request EXCEPT ![r] = state]
  BY DEF CanEnd, ReleaseTo
<1>3. r \in Holding /\ Holding' = Holding \ {r}
  BY <1>1, <1>2 DEF Holding
<1>4. PermitsConserved' /\ permits' \in 0 .. MaxInflight
  BY <1>1, <1>2, <1>3, HoldingReleased
<1> QED
  BY <1>1, <1>2, <1>4

\* A step that makes no result and no task, and leaves the cache alone.
LEMMA TasksKept ==
  ASSUME ResponsesExist, IdleCallHasNoTask, NoTaskNoRequest,
         cache' = cache, responses' = responses,
         \A b \in Call : task'[b] = "result" => task[b] = "result",
         \A c \in Call : call'[c] = "idle" => call[c] = "idle",
         \A b \in Call : task[b] = "none" <=> task'[b] = "none",
         \A r \in Request : request'[r] = request[r] \/ task[r[1]] # "none"
  PROVE  ResponsesExist' /\ IdleCallHasNoTask' /\ NoTaskNoRequest'
<1>1. ResponsesExist'
  BY DEF ResponsesExist
<1>2. IdleCallHasNoTask'
  BY DEF IdleCallHasNoTask
<1>3. NoTaskNoRequest'
  <2> SUFFICES ASSUME NEW r \in Request, task'[r[1]] = "none"
               PROVE  request'[r] = "unused"
    BY DEF NoTaskNoRequest, Request
  <2>1. r[1] \in Call
    BY DEF Request
  <2> QED
    BY <2>1 DEF NoTaskNoRequest
<1> QED
  BY <1>1, <1>2, <1>3

\* A step that serves a call from the cache or from a finished task.
LEMMA OutcomeType ==
  ASSUME TypeInv, NEW c \in Call, NEW b \in Call, TakeOutcome(c, b)
  PROVE  /\ call' \in [Call -> {"idle", "waiting", "served", "failed"}]
         /\ source' \in [Call -> Call \cup {None}]
         /\ selected' \in [Call -> Slot]
         /\ cache' \in Seq(Call)
         /\ remaining' \in [Call -> 0 .. Width]
         /\ \A e \in Range(cache') : responses[e] > 0
         /\ \A x \in Call : call'[x] = "idle" => call[x] = "idle"
<1>1. CASE task[b] = "result" /\ Deliver(c, b)
  <2>1. responses[b] > 0
    BY <1>1 DEF TypeInv, ResponsesExist
  <2>2. TypeOK /\ ResponsesExist /\ Deliver(c, b)
    BY <1>1 DEF TypeInv
  <2>3. \A e \in Range(cache') :
          e \in Range(cache) \/ (e = b /\ Cached(GroupOf[c]) = {})
    BY <2>1, <2>2, DeliverType
  <2>4. \A e \in Range(cache') : responses[e] > 0
    BY <2>1, <2>2, <2>3 DEF ResponsesExist
  <2>5. call' = [call EXCEPT ![c] = "served"]
    BY <2>1, <2>2, DeliverType
  <2>6. \A x \in Call : call'[x] = "idle" => call[x] = "idle"
    BY <2>2, <2>5 DEF TypeOK
  <2> QED
    BY <2>1, <2>2, <2>4, <2>6, DeliverType
<1>2. CASE Refuse(c)
  BY <1>2 DEF Refuse, TypeInv, TypeOK, ResponsesExist, cacheVars
<1> QED
  BY <1>1, <1>2 DEF TakeOutcome

LEMMA TypeInvInit == Init => TypeInv
<1> SUFFICES ASSUME Init PROVE TypeInv
  OBVIOUS
<1> USE ConstantsAssumption
<1>1. TypeOK
  BY DEF Init, TypeOK, Slot
<1>2. PermitsConserved
  <2>1. Holding = {}
    BY DEF Init, Holding
  <2> QED
    BY <2>1, FS_EmptySet DEF Init, PermitsConserved
<1>3. ResponsesExist
  BY DEF Init, ResponsesExist, Range
<1>4. UpdatesBounded /\ IdleCallHasNoTask /\ NoTaskNoRequest
  BY DEF Init, UpdatesBounded, IdleCallHasNoTask, NoTaskNoRequest
<1> QED
  BY <1>1, <1>2, <1>3, <1>4 DEF TypeInv

LEMMA TypeInvNext == TypeInv /\ [Next]_vars => TypeInv'
<1> SUFFICES ASSUME TypeInv, [Next]_vars PROVE TypeInv'
  OBVIOUS
<1> USE ConstantsAssumption DEF TypeInv
<1> USE DEF callVars, engineVars, cacheVars, updateVars, sampleVars
<1>1. /\ cache \in Seq(Call)
      /\ Range(cache) \subseteq Call
      /\ permits \in Nat
  <2>1. cache \in Seq(Call) /\ permits \in Nat
    BY DEF TypeOK
  <2> QED
    BY <2>1, SeqRange
<1>2. ASSUME NEW c \in Call, CallJoins(c)
      PROVE  TypeInv'
  <2>1. TypeOK'
    BY <1>1, <1>2 DEF TypeOK, CallJoins, MayArrive, Live
  <2>2. permits' = permits /\ Holding' = Holding
    BY <1>2 DEF TypeOK, Holding, CallJoins, MayArrive, Live
  <2>3. PermitsConserved'
    BY <2>2, HoldingKept
  <2>4. UpdatesBounded'
    BY <1>2 DEF TypeOK, UpdatesBounded, CallJoins, MayArrive, Live
  <2>5. /\ cache' = cache
        /\ responses' = responses
        /\ \A b \in Call : task'[b] = "result" => task[b] = "result"
        /\ \A d \in Call : call'[d] = "idle" => call[d] = "idle"
    BY <1>2 DEF TypeOK, CallJoins, MayArrive, Live
  <2>6. /\ \A b \in Call : task[b] = "none" <=> task'[b] = "none"
        /\ \A r \in Request : request'[r] = request[r] \/ task[r[1]] # "none"
    BY <1>2 DEF TypeOK, Request, NoTaskNoRequest, CallJoins, MayArrive, Live
  <2>7. ResponsesExist' /\ IdleCallHasNoTask' /\ NoTaskNoRequest'
    BY <2>5, <2>6, TasksKept
  <2> QED
    BY <2>1, <2>3, <2>4, <2>7
<1>3. ASSUME NEW c \in Call, CallBuilds(c)
      PROVE  TypeInv'
  <2>1. TypeOK'
    BY <1>1, <1>3 DEF TypeOK, CallBuilds, MayArrive, Request, Slot
  <2>2. permits' = permits /\ Holding' = Holding
    <3>1. <<c, 0>> \in Request /\ request[<<c, 0>>] = "unused"
      BY <1>3 DEF CallBuilds, MayArrive, IdleCallHasNoTask,
         NoTaskNoRequest, Request, Slot
    <3>2. permits' = permits /\ request' = [request EXCEPT ![<<c, 0>>] = "queued"]
      BY <1>3 DEF CallBuilds
    <3> QED
      BY <3>1, <3>2 DEF TypeOK, Holding
  <2>3. PermitsConserved'
    BY <2>2, HoldingKept
  <2>4. ResponsesExist'
    BY <1>3 DEF CallBuilds, TypeOK, ResponsesExist
  <2>5. UpdatesBounded' /\ IdleCallHasNoTask'
    BY <1>3 DEF CallBuilds, TypeOK, UpdatesBounded, IdleCallHasNoTask
  <2>6. NoTaskNoRequest'
    BY <1>3 DEF CallBuilds, TypeOK, NoTaskNoRequest, Request
  <2> QED
    BY <2>1, <2>3, <2>4, <2>5, <2>6
<1>4. ASSUME NEW r \in Request, Acquire(r)
      PROVE  TypeInv'
  <2>1. TypeOK'
    BY <1>1, <1>4 DEF TypeOK, Acquire
  <2>2. /\ permits' = permits - 1
        /\ r \notin Holding
        /\ Holding' = Holding \cup {r}
    BY <1>4 DEF TypeOK, Holding, Acquire
  <2>3. PermitsConserved'
    BY <1>1, <2>2, HoldingTaken
  <2>4. UpdatesBounded'
    BY <1>4 DEF TypeOK, UpdatesBounded, Acquire
  <2>5. /\ cache' = cache
        /\ responses' = responses
        /\ \A b \in Call : task'[b] = "result" => task[b] = "result"
        /\ \A c \in Call : call'[c] = "idle" => call[c] = "idle"
    BY <1>4 DEF TypeOK, Acquire
  <2>6. /\ \A b \in Call : task[b] = "none" <=> task'[b] = "none"
        /\ \A q \in Request : request'[q] = request[q] \/ task[q[1]] # "none"
    BY <1>4 DEF TypeOK, Request, NoTaskNoRequest, Acquire
  <2>7. ResponsesExist' /\ IdleCallHasNoTask' /\ NoTaskNoRequest'
    BY <2>5, <2>6, TasksKept
  <2> QED
    BY <2>1, <2>3, <2>4, <2>7
<1>5. ASSUME NEW b \in Call, Stage1Returns(b)
      PROVE  TypeInv'
  <2>0. <<b, 0>> \in Request /\ CanEnd(<<b, 0>>) /\ ReleaseTo(<<b, 0>>, "unused")
    BY <1>5 DEF Stage1Returns, Request, Slot
  <2>3. /\ PermitsConserved'
        /\ permits' \in 0 .. MaxInflight
        /\ request' \in [Request -> {"unused", "queued", "inflight", "aborted",
                                    "ok", "err"}]
    BY <2>0, ReleaseType
  <2>1. TypeOK'
    BY <1>1, <1>5, <2>3 DEF TypeOK, Stage1Returns
  <2>4. UpdatesBounded'
    BY <1>5 DEF TypeOK, UpdatesBounded, Stage1Returns, ReleaseTo
  <2>5. /\ cache' = cache
        /\ responses' = responses
        /\ \A t \in Call : task'[t] = "result" => task[t] = "result"
        /\ \A c \in Call : call'[c] = "idle" => call[c] = "idle"
    BY <1>5 DEF TypeOK, Stage1Returns, ReleaseTo
  <2>6. /\ \A t \in Call : task[t] = "none" <=> task'[t] = "none"
        /\ \A r \in Request : request'[r] = request[r] \/ task[r[1]] # "none"
    BY <1>5 DEF TypeOK, Request, NoTaskNoRequest, Stage1Returns, ReleaseTo
  <2>7. ResponsesExist' /\ IdleCallHasNoTask' /\ NoTaskNoRequest'
    BY <2>5, <2>6, TasksKept
  <2> QED
    BY <2>1, <2>3, <2>4, <2>7
<1>6. ASSUME NEW b \in Call, Stage1Raises(b)
      PROVE  TypeInv'
  <2>0. <<b, 0>> \in Request /\ CanEnd(<<b, 0>>) /\ ReleaseTo(<<b, 0>>, "unused")
    BY <1>6 DEF Stage1Raises, Request, Slot
  <2>3. /\ PermitsConserved'
        /\ permits' \in 0 .. MaxInflight
        /\ request' \in [Request -> {"unused", "queued", "inflight", "aborted",
                                    "ok", "err"}]
    BY <2>0, ReleaseType
  <2>1. TypeOK'
    BY <1>1, <1>6, <2>3 DEF TypeOK, Stage1Raises
  <2>4. UpdatesBounded'
    BY <1>6 DEF TypeOK, UpdatesBounded, Stage1Raises, ReleaseTo
  <2>5. /\ cache' = cache
        /\ responses' = responses
        /\ \A t \in Call : task'[t] = "result" => task[t] = "result"
        /\ \A c \in Call : call'[c] = "idle" => call[c] = "idle"
    BY <1>6 DEF TypeOK, Stage1Raises, ReleaseTo
  <2>6. /\ \A t \in Call : task[t] = "none" <=> task'[t] = "none"
        /\ \A r \in Request : request'[r] = request[r] \/ task[r[1]] # "none"
    BY <1>6 DEF TypeOK, Request, NoTaskNoRequest, Stage1Raises, ReleaseTo
  <2>7. ResponsesExist' /\ IdleCallHasNoTask' /\ NoTaskNoRequest'
    BY <2>5, <2>6, TasksKept
  <2> QED
    BY <2>1, <2>3, <2>4, <2>7
<1>7. ASSUME NEW r \in Request, BeamEnds(r)
      PROVE  TypeInv'
  <2>0. CanEnd(r) /\ (ReleaseTo(r, "ok") \/ ReleaseTo(r, "err"))
    BY <1>7 DEF BeamEnds
  <2>3. /\ PermitsConserved'
        /\ permits' \in 0 .. MaxInflight
        /\ request' \in [Request -> {"unused", "queued", "inflight", "aborted",
                                    "ok", "err"}]
    BY <2>0, ReleaseType
  <2>1. TypeOK'
    BY <1>1, <1>7, <2>3 DEF TypeOK, BeamEnds
  <2>4. UpdatesBounded'
    BY <1>7 DEF TypeOK, UpdatesBounded, BeamEnds, ReleaseTo, CanEnd
  <2>5. /\ cache' = cache
        /\ responses' = responses
        /\ \A b \in Call : task'[b] = "result" => task[b] = "result"
        /\ \A c \in Call : call'[c] = "idle" => call[c] = "idle"
    BY <1>7 DEF TypeOK, BeamEnds, ReleaseTo, CanEnd
  <2>6. /\ \A b \in Call : task[b] = "none" <=> task'[b] = "none"
        /\ \A q \in Request : request'[q] = request[q] \/ task[q[1]] # "none"
    BY <1>7 DEF TypeOK, Request, NoTaskNoRequest, BeamEnds, ReleaseTo, CanEnd
  <2>7. ResponsesExist' /\ IdleCallHasNoTask' /\ NoTaskNoRequest'
    BY <2>5, <2>6, TasksKept
  <2> QED
    BY <2>1, <2>3, <2>4, <2>7
<1>8. ASSUME NEW b \in Call, TakeLock(b)
      PROVE  TypeInv'
  <2>1. TypeOK'
    BY <1>1, <1>8 DEF TypeOK, TakeLock
  <2>2. permits' = permits /\ Holding' = Holding
    BY <1>8 DEF TypeOK, Holding, TakeLock
  <2>3. PermitsConserved'
    BY <2>2, HoldingKept
  <2>4. UpdatesBounded'
    BY <1>8 DEF TypeOK, UpdatesBounded, TakeLock
  <2>5. /\ cache' = cache
        /\ responses' = responses
        /\ \A t \in Call : task'[t] = "result" => task[t] = "result"
        /\ \A c \in Call : call'[c] = "idle" => call[c] = "idle"
    BY <1>8 DEF TypeOK, TakeLock
  <2>6. /\ \A t \in Call : task[t] = "none" <=> task'[t] = "none"
        /\ \A r \in Request : request'[r] = request[r] \/ task[r[1]] # "none"
    BY <1>8 DEF TypeOK, Request, NoTaskNoRequest, TakeLock
  <2>7. ResponsesExist' /\ IdleCallHasNoTask' /\ NoTaskNoRequest'
    BY <2>5, <2>6, TasksKept
  <2> QED
    BY <2>1, <2>3, <2>4, <2>7
<1>9. ASSUME NEW b \in Call, SendStep(b)
      PROVE  TypeInv'
  <2>1. TypeOK'
    <3>1. request' \in [Request -> {"unused", "queued", "inflight", "aborted",
                                    "ok", "err"}]
      BY <1>9 DEF TypeOK, SendStep
    <3>2. beamStep[b] + 1 \in 0 .. MaxTokens
      <4>1. beamStep[b] \in 0 .. MaxTokens /\ beamStep[b] < MaxTokens
        BY <1>9 DEF TypeOK, SendStep
      <4> QED
        BY <4>1
    <3>3. beamStep' = [beamStep EXCEPT ![b] = beamStep[b] + 1]
      BY <1>9 DEF SendStep
    <3>4. beamStep' \in [Call -> 0 .. MaxTokens]
      BY <3>2, <3>3 DEF TypeOK
    <3> QED
      BY <1>1, <1>9, <3>1, <3>4 DEF TypeOK, SendStep
  <2>2. permits' = permits /\ Holding' = Holding
    BY <1>9 DEF TypeOK, Holding, SendStep, StepReturned, Pending, Request
  <2>3. PermitsConserved'
    BY <2>2, HoldingKept
  <2>4. UpdatesBounded'
    BY <1>9 DEF TypeOK, UpdatesBounded, SendStep, StepReturned, Pending, Request
  <2>5. /\ cache' = cache
        /\ responses' = responses
        /\ \A t \in Call : task'[t] = "result" => task[t] = "result"
        /\ \A c \in Call : call'[c] = "idle" => call[c] = "idle"
    BY <1>9 DEF TypeOK, SendStep, StepReturned, Pending, Request
  <2>6. /\ \A t \in Call : task[t] = "none" <=> task'[t] = "none"
        /\ \A r \in Request : request'[r] = request[r] \/ task[r[1]] # "none"
    BY <1>9 DEF TypeOK, Request, NoTaskNoRequest, SendStep, StepReturned, Pending, Request
  <2>7. ResponsesExist' /\ IdleCallHasNoTask' /\ NoTaskNoRequest'
    BY <2>5, <2>6, TasksKept
  <2> QED
    BY <2>1, <2>3, <2>4, <2>7
<1>10. ASSUME NEW b \in Call, FinishSearch(b)
      PROVE  TypeInv'
  <2>1. TypeOK'
    <3>1. request' \in [Request -> {"unused", "queued", "inflight", "aborted",
                                    "ok", "err"}]
      BY <1>10 DEF TypeOK, FinishSearch
    <3>2. responses' \in [Call -> 0 .. Width] /\ remaining' \in [Call -> 0 .. Width]
      BY <1>10 DEF TypeOK, FinishSearch
    <3> QED
      BY <1>1, <1>10, <3>1, <3>2 DEF TypeOK, FinishSearch
  <2>2. permits' = permits /\ Holding' = Holding
    BY <1>10 DEF TypeOK, Holding, FinishSearch, StepReturned, Pending, Request
  <2>3. PermitsConserved'
    BY <2>2, HoldingKept
  <2>4. \A e \in Call : responses[e] > 0 => responses'[e] > 0
    BY <1>10 DEF TypeOK, FinishSearch
  <2>5. responses'[b] > 0
    BY <1>10 DEF TypeOK, FinishSearch
  <2>6. cache' = cache /\ task' = [task EXCEPT ![b] = "result"]
    BY <1>10 DEF FinishSearch
  <2>7. ResponsesExist'
    BY <1>1, <2>4, <2>5, <2>6 DEF ResponsesExist, TypeOK
  <2>8. UpdatesBounded' /\ IdleCallHasNoTask'
    BY <1>10 DEF TypeOK, UpdatesBounded, IdleCallHasNoTask, FinishSearch,
       StepReturned
  <2>9. NoTaskNoRequest'
    BY <1>10 DEF TypeOK, NoTaskNoRequest, FinishSearch, Request
  <2> QED
    BY <2>1, <2>3, <2>7, <2>8, <2>9
<1>11. ASSUME NEW b \in Call, FailSearch(b)
      PROVE  TypeInv'
  <2>1. TypeOK'
    BY <1>1, <1>11 DEF TypeOK, FailSearch
  <2>2. permits' = permits /\ Holding' = Holding
    BY <1>11 DEF TypeOK, Holding, FailSearch
  <2>3. PermitsConserved'
    BY <2>2, HoldingKept
  <2>4. UpdatesBounded'
    BY <1>11 DEF TypeOK, UpdatesBounded, FailSearch
  <2>5. /\ cache' = cache
        /\ responses' = responses
        /\ \A t \in Call : task'[t] = "result" => task[t] = "result"
        /\ \A c \in Call : call'[c] = "idle" => call[c] = "idle"
    BY <1>11 DEF TypeOK, FailSearch
  <2>6. /\ \A t \in Call : task[t] = "none" <=> task'[t] = "none"
        /\ \A r \in Request : request'[r] = request[r] \/ task[r[1]] # "none"
    BY <1>11 DEF TypeOK, Request, NoTaskNoRequest, FailSearch
  <2>7. ResponsesExist' /\ IdleCallHasNoTask' /\ NoTaskNoRequest'
    BY <2>5, <2>6, TasksKept
  <2> QED
    BY <2>1, <2>3, <2>4, <2>7
<1>12. ASSUME NEW b \in Call, UnwindWaiting(b)
      PROVE  TypeInv'
  <2>1. TypeOK'
    BY <1>1, <1>12 DEF TypeOK, UnwindWaiting, Cancelled, Live
  <2>2. permits' = permits /\ Holding' = Holding
    BY <1>12 DEF TypeOK, Holding, UnwindWaiting, Cancelled, Live
  <2>3. PermitsConserved'
    BY <2>2, HoldingKept
  <2>4. UpdatesBounded'
    BY <1>12 DEF TypeOK, UpdatesBounded, UnwindWaiting, Cancelled, Live
  <2>5. /\ cache' = cache
        /\ responses' = responses
        /\ \A t \in Call : task'[t] = "result" => task[t] = "result"
        /\ \A c \in Call : call'[c] = "idle" => call[c] = "idle"
    BY <1>12 DEF TypeOK, UnwindWaiting, Cancelled, Live
  <2>6. /\ \A t \in Call : task[t] = "none" <=> task'[t] = "none"
        /\ \A r \in Request : request'[r] = request[r] \/ task[r[1]] # "none"
    BY <1>12 DEF TypeOK, Request, NoTaskNoRequest, UnwindWaiting, Cancelled, Live
  <2>7. ResponsesExist' /\ IdleCallHasNoTask' /\ NoTaskNoRequest'
    BY <2>5, <2>6, TasksKept
  <2> QED
    BY <2>1, <2>3, <2>4, <2>7
<1>13. ASSUME NEW b \in Call, StartDrain(b)
      PROVE  TypeInv'
  <2>1. TypeOK'
    BY <1>1, <1>13 DEF TypeOK, StartDrain, Finished
  <2>2. permits' = permits /\ Holding' = Holding
    BY <1>13 DEF TypeOK, Holding, StartDrain, Finished
  <2>3. PermitsConserved'
    BY <2>2, HoldingKept
  <2>4. UpdatesBounded'
    BY <1>13 DEF TypeOK, UpdatesBounded, StartDrain, Finished
  <2>5. /\ cache' = cache
        /\ responses' = responses
        /\ \A t \in Call : task'[t] = "result" => task[t] = "result"
        /\ \A c \in Call : call'[c] = "idle" => call[c] = "idle"
    BY <1>13 DEF TypeOK, StartDrain, Finished
  <2>6. /\ \A t \in Call : task[t] = "none" <=> task'[t] = "none"
        /\ \A r \in Request : request'[r] = request[r] \/ task[r[1]] # "none"
    BY <1>13 DEF TypeOK, Request, NoTaskNoRequest, StartDrain, Finished
  <2>7. ResponsesExist' /\ IdleCallHasNoTask' /\ NoTaskNoRequest'
    BY <2>5, <2>6, TasksKept
  <2> QED
    BY <2>1, <2>3, <2>4, <2>7
<1>14. ASSUME StartUpdate
      PROVE  TypeInv'
  <2>1. TypeOK'
    <3>1. /\ request' \in [Request -> {"unused", "queued", "inflight", "aborted",
                                       "ok", "err"}]
          /\ registry' \in [Group -> Call \cup {None}]
      BY <1>14 DEF TypeOK, StartUpdate, ClearServerState, CancelBuilds
    <3>2. doomed' \subseteq Call
      BY <1>14 DEF TypeOK, StartUpdate, Registered
    <3>3. cache' \in Seq(Call)
      <4>1. cache' = cache \/ cache' = <<>>
        BY <1>14 DEF StartUpdate, ClearServerState
      <4>2. <<>> \in Seq(Call)
        OBVIOUS
      <4> QED
        BY <1>1, <4>1, <4>2
    <3>4. update' \in {"idle", "gather", "engine", "sync", "resume"}
      BY <1>14 DEF StartUpdate
    <3> QED
      BY <1>14, <3>1, <3>2, <3>3, <3>4 DEF TypeOK, StartUpdate
  <2>2. permits' = permits /\ Holding' = Holding
    BY <1>14 DEF TypeOK, Holding, StartUpdate, ClearServerState, CancelBuilds
  <2>3. PermitsConserved'
    BY <2>2, HoldingKept
  <2>4. UpdatesBounded'
    BY <1>14 DEF TypeOK, UpdatesBounded, StartUpdate, ClearServerState, CancelBuilds
  <2>5. cache' = <<>> \/ cache' = cache
    BY <1>14 DEF StartUpdate, ClearServerState, CancelBuilds
  <2>6. ResponsesExist'
    <3>1. Range(cache') = {} \/ cache' = cache
      BY <2>5 DEF Range
    <3> QED
      BY <1>14, <3>1 DEF ResponsesExist, StartUpdate, ClearServerState, CancelBuilds
  <2>7. IdleCallHasNoTask' /\ NoTaskNoRequest'
    BY <1>14 DEF TypeOK, IdleCallHasNoTask, NoTaskNoRequest, Live, Request, StartUpdate, ClearServerState, CancelBuilds
  <2> QED
    BY <2>1, <2>3, <2>4, <2>6, <2>7
<1>15. ASSUME ClearAfterGather
      PROVE  TypeInv'
  <2>1. TypeOK'
    BY <1>1, <1>15 DEF TypeOK, ClearAfterGather, ClearServerState
  <2>2. permits' = permits /\ Holding' = Holding
    BY <1>15 DEF TypeOK, Holding, ClearAfterGather, ClearServerState
  <2>3. PermitsConserved'
    BY <2>2, HoldingKept
  <2>4. UpdatesBounded'
    BY <1>15 DEF TypeOK, UpdatesBounded, ClearAfterGather, ClearServerState
  <2>5. cache' = <<>> \/ cache' = cache
    BY <1>15 DEF ClearAfterGather, ClearServerState
  <2>6. ResponsesExist'
    <3>1. Range(cache') = {} \/ cache' = cache
      BY <2>5 DEF Range
    <3> QED
      BY <1>15, <3>1 DEF ResponsesExist, ClearAfterGather, ClearServerState
  <2>7. IdleCallHasNoTask' /\ NoTaskNoRequest'
    BY <1>15 DEF TypeOK, IdleCallHasNoTask, NoTaskNoRequest, Live, Request, ClearAfterGather, ClearServerState
  <2> QED
    BY <2>1, <2>3, <2>4, <2>6, <2>7
<1>16. ASSUME AbortEngine
      PROVE  TypeInv'
  <2>1. TypeOK'
    BY <1>1, <1>16 DEF TypeOK, AbortEngine
  <2>2. permits' = permits /\ Holding' = Holding
    BY <1>16 DEF TypeOK, Holding, AbortEngine
  <2>3. PermitsConserved'
    BY <2>2, HoldingKept
  <2>4. UpdatesBounded'
    BY <1>16 DEF TypeOK, UpdatesBounded, AbortEngine
  <2>5. /\ cache' = cache
        /\ responses' = responses
        /\ \A b \in Call : task'[b] = "result" => task[b] = "result"
        /\ \A c \in Call : call'[c] = "idle" => call[c] = "idle"
    BY <1>16 DEF TypeOK, AbortEngine
  <2>6. /\ \A b \in Call : task[b] = "none" <=> task'[b] = "none"
        /\ \A r \in Request : request'[r] = request[r] \/ task[r[1]] # "none"
    BY <1>16 DEF TypeOK, Request, NoTaskNoRequest, AbortEngine
  <2>7. ResponsesExist' /\ IdleCallHasNoTask' /\ NoTaskNoRequest'
    BY <2>5, <2>6, TasksKept
  <2> QED
    BY <2>1, <2>3, <2>4, <2>7
<1>17. ASSUME SyncWeights
      PROVE  TypeInv'
  <2>1. TypeOK'
    <3>1. weights' \in 0 .. MaxUpdates
      BY <1>17 DEF TypeOK, SyncWeights, UpdatesBounded
    <3> QED
      BY <1>17, <3>1 DEF TypeOK, SyncWeights
  <2>2. permits' = permits /\ Holding' = Holding
    BY <1>17 DEF TypeOK, Holding, SyncWeights
  <2>3. PermitsConserved'
    BY <2>2, HoldingKept
  <2>4. UpdatesBounded'
    BY <1>17 DEF TypeOK, UpdatesBounded, SyncWeights
  <2>5. /\ cache' = cache
        /\ responses' = responses
        /\ \A b \in Call : task'[b] = "result" => task[b] = "result"
        /\ \A c \in Call : call'[c] = "idle" => call[c] = "idle"
    BY <1>17 DEF TypeOK, SyncWeights
  <2>6. /\ \A b \in Call : task[b] = "none" <=> task'[b] = "none"
        /\ \A r \in Request : request'[r] = request[r] \/ task[r[1]] # "none"
    BY <1>17 DEF TypeOK, Request, NoTaskNoRequest, SyncWeights
  <2>7. ResponsesExist' /\ IdleCallHasNoTask' /\ NoTaskNoRequest'
    BY <2>5, <2>6, TasksKept
  <2> QED
    BY <2>1, <2>3, <2>4, <2>7
<1>18. ASSUME ResumeGeneration
      PROVE  TypeInv'
  <2>1. TypeOK'
    BY <1>1, <1>18 DEF TypeOK, ResumeGeneration
  <2>2. permits' = permits /\ Holding' = Holding
    BY <1>18 DEF TypeOK, Holding, ResumeGeneration
  <2>3. PermitsConserved'
    BY <2>2, HoldingKept
  <2>4. UpdatesBounded'
    BY <1>18 DEF TypeOK, UpdatesBounded, ResumeGeneration
  <2>5. /\ cache' = cache
        /\ responses' = responses
        /\ \A b \in Call : task'[b] = "result" => task[b] = "result"
        /\ \A c \in Call : call'[c] = "idle" => call[c] = "idle"
    BY <1>18 DEF TypeOK, ResumeGeneration
  <2>6. /\ \A b \in Call : task[b] = "none" <=> task'[b] = "none"
        /\ \A r \in Request : request'[r] = request[r] \/ task[r[1]] # "none"
    BY <1>18 DEF TypeOK, Request, NoTaskNoRequest, ResumeGeneration
  <2>7. ResponsesExist' /\ IdleCallHasNoTask' /\ NoTaskNoRequest'
    BY <2>5, <2>6, TasksKept
  <2> QED
    BY <2>1, <2>3, <2>4, <2>7
<1>19. ASSUME NEW c \in Call, CallHits(c)
      PROVE  TypeInv'
  <2>1. /\ call' \in [Call -> {"idle", "waiting", "served", "failed"}]
        /\ source' \in [Call -> Call \cup {None}]
        /\ selected' \in [Call -> Slot]
        /\ cache' \in Seq(Call)
        /\ remaining' \in [Call -> 0 .. Width]
        /\ \A e \in Range(cache') : responses[e] > 0
        /\ \A x \in Call : call'[x] = "idle" => call[x] = "idle"
    <3>1. TypeOK /\ ResponsesExist /\ Deliver(c, None) /\ Cached(GroupOf[c]) # {}
      BY <1>19 DEF CallHits
    <3>2. \A e \in Range(cache') : e \in Range(cache)
      BY <3>1, DeliverType
    <3>3. call' = [call EXCEPT ![c] = "served"]
      BY <3>1, DeliverType
    <3>4. \A x \in Call : call'[x] = "idle" => call[x] = "idle"
      BY <3>3 DEF TypeOK
    <3>5. \A e \in Range(cache') : responses[e] > 0
      BY <3>2 DEF ResponsesExist
    <3> QED
      BY <3>1, <3>4, <3>5, DeliverType
  <2>2. /\ UNCHANGED <<engineVars, lock, beamStep, updateVars, sampleVars>>
        /\ registry' = registry
        /\ draining' \in Call \cup {None}
        /\ task' = task \/ \E b \in Call : /\ task[b] # "none"
                                         /\ task' = [task EXCEPT ![b] = "retired"]
    BY <1>19 DEF CallHits, TypeOK
  <2>3. TypeOK'
    BY <2>1, <2>2 DEF TypeOK
  <2>4. PermitsConserved'
    BY <2>2, HoldingKept DEF Holding
  <2>5. ResponsesExist'
    BY <2>1, <2>2 DEF ResponsesExist, TypeOK
  <2>6. UpdatesBounded'
    BY <2>2 DEF UpdatesBounded
  <2>8. IdleCallHasNoTask'
    <3>1. \A x \in Call : task[x] = "none" => task'[x] = "none"
      BY <2>2 DEF TypeOK
    <3>2. \A x \in Call : call'[x] = "idle" => call[x] = "idle"
      BY <2>1
    <3> QED
      BY <3>1, <3>2 DEF IdleCallHasNoTask
  <2>7. NoTaskNoRequest'
    BY <2>2 DEF NoTaskNoRequest, TypeOK, Request
  <2> QED
    BY <2>3, <2>4, <2>5, <2>6, <2>7, <2>8
<1>20. ASSUME NEW c \in Call, CallFindsFinished(c)
      PROVE  TypeInv'
  <2>1. /\ call' \in [Call -> {"idle", "waiting", "served", "failed"}]
        /\ source' \in [Call -> Call \cup {None}]
        /\ selected' \in [Call -> Slot]
        /\ cache' \in Seq(Call)
        /\ remaining' \in [Call -> 0 .. Width]
        /\ \A e \in Range(cache') : responses[e] > 0
        /\ \A x \in Call : call'[x] = "idle" => call[x] = "idle"
    <3>1. /\ registry[GroupOf[c]] \in Call
          /\ TakeOutcome(c, registry[GroupOf[c]])
      BY <1>20 DEF CallFindsFinished, TypeOK
    <3> QED
      BY <3>1, OutcomeType
  <2>2. /\ UNCHANGED <<engineVars, lock, beamStep, updateVars, sampleVars>>
        /\ registry' = registry
        /\ draining' \in Call \cup {None}
        /\ task' = task \/ \E b \in Call : /\ task[b] # "none"
                                         /\ task' = [task EXCEPT ![b] = "retired"]
    BY <1>20 DEF CallFindsFinished, TypeOK
  <2>3. TypeOK'
    BY <2>1, <2>2 DEF TypeOK
  <2>4. PermitsConserved'
    BY <2>2, HoldingKept DEF Holding
  <2>5. ResponsesExist'
    BY <2>1, <2>2 DEF ResponsesExist, TypeOK
  <2>6. UpdatesBounded'
    BY <2>2 DEF UpdatesBounded
  <2>8. IdleCallHasNoTask'
    <3>1. \A x \in Call : task[x] = "none" => task'[x] = "none"
      BY <2>2 DEF TypeOK
    <3>2. \A x \in Call : call'[x] = "idle" => call[x] = "idle"
      BY <2>1
    <3> QED
      BY <3>1, <3>2 DEF IdleCallHasNoTask
  <2>7. NoTaskNoRequest'
    BY <2>2 DEF NoTaskNoRequest, TypeOK, Request
  <2> QED
    BY <2>3, <2>4, <2>5, <2>6, <2>7, <2>8
<1>21. ASSUME NEW c \in Call, ResumeWaiter(c)
      PROVE  TypeInv'
  <2>1. /\ call' \in [Call -> {"idle", "waiting", "served", "failed"}]
        /\ source' \in [Call -> Call \cup {None}]
        /\ selected' \in [Call -> Slot]
        /\ cache' \in Seq(Call)
        /\ remaining' \in [Call -> 0 .. Width]
        /\ \A e \in Range(cache') : responses[e] > 0
        /\ \A x \in Call : call'[x] = "idle" => call[x] = "idle"
    <3>1. draining \in Call /\ TakeOutcome(c, draining)
      BY <1>21 DEF ResumeWaiter, TypeOK
    <3> QED
      BY <3>1, OutcomeType
  <2>2. /\ UNCHANGED <<engineVars, lock, beamStep, updateVars, sampleVars>>
        /\ registry' = registry
        /\ draining' \in Call \cup {None}
        /\ task' = task \/ \E b \in Call : /\ task[b] # "none"
                                         /\ task' = [task EXCEPT ![b] = "retired"]
    BY <1>21 DEF ResumeWaiter, TakeOutcome, TypeOK
  <2>3. TypeOK'
    BY <2>1, <2>2 DEF TypeOK
  <2>4. PermitsConserved'
    BY <2>2, HoldingKept DEF Holding
  <2>5. ResponsesExist'
    BY <2>1, <2>2 DEF ResponsesExist, TypeOK
  <2>6. UpdatesBounded'
    BY <2>2 DEF UpdatesBounded
  <2>8. IdleCallHasNoTask'
    <3>1. \A x \in Call : task[x] = "none" => task'[x] = "none"
      BY <2>2 DEF TypeOK
    <3>2. \A x \in Call : call'[x] = "idle" => call[x] = "idle"
      BY <2>1
    <3> QED
      BY <3>1, <3>2 DEF IdleCallHasNoTask
  <2>7. NoTaskNoRequest'
    BY <2>2 DEF NoTaskNoRequest, TypeOK, Request
  <2> QED
    BY <2>3, <2>4, <2>5, <2>6, <2>7, <2>8
<1>22. CASE UNCHANGED vars
  <2>1. PermitsConserved'
    BY <1>22, HoldingKept DEF vars, Holding
  <2>2. TypeOK'
    BY <1>22 DEF vars, TypeOK
  <2> QED
    BY <1>22, <2>1, <2>2 DEF vars, ResponsesExist, UpdatesBounded,
       IdleCallHasNoTask, NoTaskNoRequest
<1> QED
  BY <1>2, <1>3, <1>4, <1>5, <1>6, <1>7, <1>8, <1>9, <1>10, <1>11, <1>12, <1>13,
     <1>14, <1>15, <1>16, <1>17, <1>18, <1>19, <1>20, <1>21, <1>22
  DEF Next, CallArrives, ServerStep, RequestStep, BuildStep, UpdateStep, Rest

\* Every variable keeps its type, for any calls, groups, widths, limits and
\* failures: no counter of two_stage_vllm_async.py leaves its range and no call
\* is given a response its entry does not have.
THEOREM TypeCorrect == Spec => []TypeOK
<1>1. Spec => []TypeInv
  BY TypeInvInit, TypeInvNext, PTL DEF Spec
<1>2. TypeInv => TypeOK
  BY DEF TypeInv
<1> QED
  BY <1>1, <1>2, PTL

\* Every permit of the semaphore is held by one request or free, whatever
\* raises or is cancelled (_run_generate_request).
THEOREM PermitsAlwaysConserved == Spec => []PermitsConserved
<1>1. Spec => []TypeInv
  BY TypeInvInit, TypeInvNext, PTL DEF Spec
<1>2. TypeInv => PermitsConserved
  BY DEF TypeInv
<1> QED
  BY <1>1, <1>2, PTL

-------------------------------------------------------------------------------
(* The registry of builds and the freshness of the cache.                  *)

\* A task whose callbacks have not all run.
Underway(b) == Live(b) \/ Finished(b)

\* The registry names every task under way but the one whose callbacks run;
\* an update cancels all of them, and goes on only when none is left.
RegistryInv ==
  /\ \A b \in Call : Underway(b) /\ draining # b => registry[GroupOf[b]] = b
  /\ draining # None => Finished(draining)
  /\ update = "gather" => \A b \in Call : Underway(b) => b \in doomed
  /\ update \in {"engine", "sync", "resume"} => \A b \in Call : ~Underway(b)

\* What a build has sampled is as fresh as what is in the cache, and the cache
\* is empty while the weights change.
FreshInv ==
  /\ \A b \in Range(cache) : sampledUnder[b] = weights /\ stamp[b] = weights
  /\ update \in {"engine", "sync", "resume"} => cache = <<>>
  /\ \A b \in Call : task[b] \in {"lock", "stage2", "result"}
                    => sampledUnder[b] = weights
  /\ \A b \in Call : task[b] = "result" => stamp[b] = weights

-------------------------------------------------------------------------------
(* The lock.                                                               *)

LEMMA LockInit == Init => LockFollowsSearch
BY ConstantsAssumption DEF Init, LockFollowsSearch

LEMMA LockNext ==
  TypeInv /\ LockFollowsSearch /\ [Next]_vars => LockFollowsSearch'
<1> SUFFICES ASSUME TypeInv, LockFollowsSearch, [Next]_vars
             PROVE  LockFollowsSearch'
  OBVIOUS
<1> USE ConstantsAssumption DEF LockFollowsSearch
<1>1. /\ task \in [Call -> {"none", "stage1", "lock", "stage2", "result",
                            "error", "retired"}]
      /\ IdleCallHasNoTask
      /\ draining \in Call \cup {None}
  BY DEF TypeInv, TypeOK
<1>2. ASSUME NEW c \in Call, CallHits(c)
      PROVE  LockFollowsSearch'
  BY <1>1, <1>2 DEF CallHits
<1>3. ASSUME NEW c \in Call, CallJoins(c)
      PROVE  LockFollowsSearch'
  BY <1>1, <1>3 DEF CallJoins
<1>4. ASSUME NEW c \in Call, CallFindsFinished(c)
      PROVE  LockFollowsSearch'
  BY <1>1, <1>4 DEF CallFindsFinished
<1>5. ASSUME NEW c \in Call, CallBuilds(c)
      PROVE  LockFollowsSearch'
  BY <1>1, <1>5 DEF CallBuilds, MayArrive, IdleCallHasNoTask
<1>6. ASSUME NEW r \in Request, Acquire(r)
      PROVE  LockFollowsSearch'
  BY <1>1, <1>6 DEF Acquire
<1>7. ASSUME NEW r \in Request, BeamEnds(r)
      PROVE  LockFollowsSearch'
  BY <1>1, <1>7 DEF BeamEnds
<1>8. ASSUME NEW b \in Call, Stage1Returns(b)
      PROVE  LockFollowsSearch'
  BY <1>1, <1>8 DEF Stage1Returns
<1>9. ASSUME NEW b \in Call, Stage1Raises(b)
      PROVE  LockFollowsSearch'
  BY <1>1, <1>9 DEF Stage1Raises
<1>10. ASSUME NEW b \in Call, TakeLock(b)
      PROVE  LockFollowsSearch'
  BY <1>1, <1>10 DEF TakeLock, LockIsFree
<1>11. ASSUME NEW b \in Call, SendStep(b)
      PROVE  LockFollowsSearch'
  BY <1>1, <1>11 DEF SendStep
<1>12. ASSUME NEW b \in Call, FinishSearch(b)
      PROVE  LockFollowsSearch'
  BY <1>1, <1>12 DEF FinishSearch, StepReturned
<1>13. ASSUME NEW b \in Call, FailSearch(b)
      PROVE  LockFollowsSearch'
  BY <1>1, <1>13 DEF FailSearch
<1>14. ASSUME NEW b \in Call, UnwindWaiting(b)
      PROVE  LockFollowsSearch'
  BY <1>1, <1>14 DEF UnwindWaiting
<1>15. ASSUME NEW b \in Call, StartDrain(b)
      PROVE  LockFollowsSearch'
  BY <1>1, <1>15 DEF StartDrain
<1>16. ASSUME NEW c \in Call, ResumeWaiter(c)
      PROVE  LockFollowsSearch'
  <2>1. task[draining] \in {"result", "error"} /\ draining \in Call
    BY <1>1, <1>16 DEF ResumeWaiter, TakeOutcome
  <2>2. /\ lock' = lock
        /\ task' = task \/ task' = [task EXCEPT ![draining] = "retired"]
    BY <1>16 DEF ResumeWaiter
  <2> QED
    BY <1>1, <2>1, <2>2
<1>17. ASSUME StartUpdate
      PROVE  LockFollowsSearch'
  BY <1>1, <1>17 DEF StartUpdate
<1>18. ASSUME ClearAfterGather
      PROVE  LockFollowsSearch'
  BY <1>1, <1>18 DEF ClearAfterGather
<1>19. ASSUME AbortEngine
      PROVE  LockFollowsSearch'
  BY <1>1, <1>19 DEF AbortEngine
<1>20. ASSUME SyncWeights
      PROVE  LockFollowsSearch'
  BY <1>1, <1>20 DEF SyncWeights
<1>21. ASSUME ResumeGeneration
      PROVE  LockFollowsSearch'
  BY <1>1, <1>21 DEF ResumeGeneration
<1>22. CASE UNCHANGED vars
  BY <1>22 DEF vars
<1> QED
  BY <1>2, <1>3, <1>4, <1>5, <1>6, <1>7, <1>8, <1>9, <1>10, <1>11, <1>12,
     <1>13, <1>14, <1>15, <1>16, <1>17, <1>18, <1>19, <1>20, <1>21, <1>22
  DEF Next, CallArrives, ServerStep, RequestStep, BuildStep, UpdateStep, Rest

\* Whatever fails or is cancelled, at most one beam search runs at a time and
\* only a search in progress holds the lock (_build_two_stage_cache_entry's
\* async with self._two_stage_stage2_lock).
THEOREM LockAlwaysFollowsSearch == Spec => []LockFollowsSearch
<1>1. Init => TypeInv /\ LockFollowsSearch
  BY TypeInvInit, LockInit
<1>2. TypeInv /\ LockFollowsSearch /\ [Next]_vars => (TypeInv /\ LockFollowsSearch)'
  BY TypeInvNext, LockNext
<1> QED
  BY <1>1, <1>2, PTL DEF Spec

-------------------------------------------------------------------------------
(* The registry, in a quiet update.                                        *)

\* A step that neither starts nor retires a task.
LEMMA RegistryKept ==
  ASSUME RegistryInv, registry' = registry, draining' = draining,
         doomed' = doomed, update' = update, draining = None,
         \A b \in Call : Underway(b)' => Underway(b)
  PROVE  RegistryInv'
BY DEF RegistryInv

LEMMA RegistryInit == Init => RegistryInv
BY ConstantsAssumption DEF Init, RegistryInv, Underway, Live, Finished

LEMMA RegistryNext ==
  ASSUME QuietUpdates = TRUE
  PROVE  TypeInv /\ RegistryInv /\ [Next]_vars => RegistryInv'
<1> SUFFICES ASSUME TypeInv, RegistryInv, [Next]_vars
             PROVE  RegistryInv'
  OBVIOUS
<1> USE ConstantsAssumption
<1>1. /\ task \in [Call -> {"none", "stage1", "lock", "stage2", "result",
                            "error", "retired"}]
      /\ draining \in Call \cup {None}
      /\ registry \in [Group -> Call \cup {None}]
      /\ update \in {"idle", "gather", "engine", "sync", "resume"}
  BY DEF TypeInv, TypeOK
<1>2. ASSUME NEW c \in Call, CallHits(c)
      PROVE  RegistryInv'
  <2>1. /\ registry' = registry /\ draining' = draining /\ draining = None
        /\ doomed' = doomed /\ update' = update
    BY <1>2 DEF CallHits, MayArrive, updateVars
  <2>2. \A x \in Call : Underway(x)' => Underway(x)
    BY <1>1, <1>2 DEF CallHits, MayArrive, Underway, Live, Finished
  <2> QED
    BY <2>1, <2>2, RegistryKept
<1>3. ASSUME NEW c \in Call, CallJoins(c)
      PROVE  RegistryInv'
  <2>1. /\ registry' = registry /\ draining' = draining /\ draining = None
        /\ doomed' = doomed /\ update' = update
    BY <1>3 DEF CallJoins, MayArrive, updateVars
  <2>2. \A x \in Call : Underway(x)' => Underway(x)
    BY <1>1, <1>3 DEF CallJoins, MayArrive, Underway, Live, Finished
  <2> QED
    BY <2>1, <2>2, RegistryKept
<1>4. ASSUME NEW c \in Call, CallFindsFinished(c)
      PROVE  RegistryInv'
  <2>1. /\ registry' = registry /\ draining' = draining /\ draining = None
        /\ doomed' = doomed /\ update' = update
    BY <1>4 DEF CallFindsFinished, MayArrive, updateVars
  <2>2. \A x \in Call : Underway(x)' => Underway(x)
    BY <1>1, <1>4 DEF CallFindsFinished, MayArrive, Underway, Live, Finished
  <2> QED
    BY <2>1, <2>2, RegistryKept
<1>5. ASSUME NEW c \in Call, CallBuilds(c)
      PROVE  RegistryInv'
  <2>1. /\ update = "idle" /\ update' = "idle" /\ draining = None /\ draining' = None
        /\ task' = [task EXCEPT ![c] = "stage1"]
        /\ registry' = [registry EXCEPT ![GroupOf[c]] = c]
        /\ registry[GroupOf[c]] = None
    BY <1>5 DEF CallBuilds, MayArrive, updateVars
  <2>2. ASSUME NEW b \in Call, Underway(b)'
        PROVE  registry'[GroupOf[b]] = b
    <3>1. CASE b = c
      BY <1>1, <2>1, <3>1
    <3>2. CASE b # c
      <4>1. Underway(b)
        BY <1>1, <2>1, <2>2, <3>2 DEF Underway, Live, Finished
      <4>2. registry[GroupOf[b]] = b
        BY <2>1, <4>1 DEF RegistryInv
      <4> QED
        BY <1>1, <2>1, <4>2
    <3> QED
      BY <3>1, <3>2
  <2> QED
    BY <2>1, <2>2 DEF RegistryInv
<1>6. ASSUME NEW r \in Request, Acquire(r)
      PROVE  RegistryInv'
  <2>1. /\ registry' = registry /\ draining' = draining /\ draining = None
        /\ doomed' = doomed /\ update' = update
    BY <1>6 DEF Acquire, updateVars
  <2>2. \A x \in Call : Underway(x)' => Underway(x)
    BY <1>1, <1>6 DEF Acquire, Underway, Live, Finished
  <2> QED
    BY <2>1, <2>2, RegistryKept
<1>7. ASSUME NEW r \in Request, BeamEnds(r)
      PROVE  RegistryInv'
  <2>1. /\ registry' = registry /\ draining' = draining /\ draining = None
        /\ doomed' = doomed /\ update' = update
    BY <1>7 DEF BeamEnds, CanEnd, updateVars
  <2>2. \A x \in Call : Underway(x)' => Underway(x)
    BY <1>1, <1>7 DEF BeamEnds, CanEnd, Underway, Live, Finished
  <2> QED
    BY <2>1, <2>2, RegistryKept
<1>8. ASSUME NEW b \in Call, Stage1Returns(b)
      PROVE  RegistryInv'
  <2>1. /\ registry' = registry /\ draining' = draining /\ draining = None
        /\ doomed' = doomed /\ update' = update
    BY <1>8 DEF Stage1Returns, CanEnd, updateVars
  <2>2. \A x \in Call : Underway(x)' => Underway(x)
    BY <1>1, <1>8 DEF Stage1Returns, CanEnd, Underway, Live, Finished
  <2> QED
    BY <2>1, <2>2, RegistryKept
<1>9. ASSUME NEW b \in Call, Stage1Raises(b)
      PROVE  RegistryInv'
  <2>1. /\ registry' = registry /\ draining' = draining /\ draining = None
        /\ doomed' = doomed /\ update' = update
    BY <1>9 DEF Stage1Raises, CanEnd, updateVars
  <2>2. \A x \in Call : Underway(x)' => Underway(x)
    BY <1>1, <1>9 DEF Stage1Raises, CanEnd, Underway, Live, Finished
  <2> QED
    BY <2>1, <2>2, RegistryKept
<1>10. ASSUME NEW b \in Call, TakeLock(b)
      PROVE  RegistryInv'
  <2>1. /\ registry' = registry /\ draining' = draining /\ draining = None
        /\ doomed' = doomed /\ update' = update
    BY <1>10 DEF TakeLock, updateVars
  <2>2. \A x \in Call : Underway(x)' => Underway(x)
    BY <1>1, <1>10 DEF TakeLock, Underway, Live, Finished
  <2> QED
    BY <2>1, <2>2, RegistryKept
<1>11. ASSUME NEW b \in Call, SendStep(b)
      PROVE  RegistryInv'
  <2>1. /\ registry' = registry /\ draining' = draining /\ draining = None
        /\ doomed' = doomed /\ update' = update
    BY <1>11 DEF SendStep, StepReturned, updateVars
  <2>2. \A x \in Call : Underway(x)' => Underway(x)
    BY <1>1, <1>11 DEF SendStep, StepReturned, Underway, Live, Finished
  <2> QED
    BY <2>1, <2>2, RegistryKept
<1>12. ASSUME NEW b \in Call, FinishSearch(b)
      PROVE  RegistryInv'
  <2>1. /\ registry' = registry /\ draining' = draining /\ draining = None
        /\ doomed' = doomed /\ update' = update
    BY <1>12 DEF FinishSearch, StepReturned, updateVars
  <2>2. \A x \in Call : Underway(x)' => Underway(x)
    BY <1>1, <1>12 DEF FinishSearch, StepReturned, Underway, Live, Finished
  <2> QED
    BY <2>1, <2>2, RegistryKept
<1>13. ASSUME NEW b \in Call, FailSearch(b)
      PROVE  RegistryInv'
  <2>1. /\ registry' = registry /\ draining' = draining /\ draining = None
        /\ doomed' = doomed /\ update' = update
    BY <1>13 DEF FailSearch, updateVars
  <2>2. \A x \in Call : Underway(x)' => Underway(x)
    BY <1>1, <1>13 DEF FailSearch, Underway, Live, Finished
  <2> QED
    BY <2>1, <2>2, RegistryKept
<1>14. ASSUME NEW b \in Call, UnwindWaiting(b)
      PROVE  RegistryInv'
  <2>1. /\ registry' = registry /\ draining' = draining /\ draining = None
        /\ doomed' = doomed /\ update' = update
    BY <1>14 DEF UnwindWaiting, updateVars
  <2>2. \A x \in Call : Underway(x)' => Underway(x)
    BY <1>1, <1>14 DEF UnwindWaiting, Underway, Live, Finished
  <2> QED
    BY <2>1, <2>2, RegistryKept
<1>15. ASSUME NEW b \in Call, StartDrain(b)
      PROVE  RegistryInv'
  <2>1. /\ draining = None /\ draining' = b /\ Finished(b) /\ task' = task
        /\ registry' = [g \in Group |-> IF registry[g] = b THEN None ELSE registry[g]]
        /\ doomed' = doomed /\ update' = update
    BY <1>15 DEF StartDrain, updateVars
  <2>2. Finished(b)' /\ \A x \in Call : Underway(x)' <=> Underway(x)
    BY <2>1 DEF Underway, Live, Finished
  <2>3. ASSUME NEW x \in Call, Underway(x)', draining' # x
        PROVE  registry'[GroupOf[x]] = x
    BY <1>1, <2>1, <2>2, <2>3 DEF RegistryInv
  <2> QED
    BY <2>1, <2>2, <2>3 DEF RegistryInv
<1>16. ASSUME NEW c \in Call, ResumeWaiter(c)
      PROVE  RegistryInv'
  <2>1. /\ draining \in Call /\ Finished(draining)
        /\ registry' = registry /\ doomed' = doomed /\ update' = update
        /\ \/ draining' = draining /\ task' = task
           \/ draining' = None /\ task' = [task EXCEPT ![draining] = "retired"]
    BY <1>1, <1>16 DEF ResumeWaiter, RegistryInv, updateVars
  <2>2. \A x \in Call : Underway(x)' => Underway(x)
    BY <1>1, <2>1 DEF Underway, Live, Finished
  <2>3. CASE draining' = draining /\ task' = task
    BY <2>1, <2>2, <2>3 DEF RegistryInv, Finished
  <2>4. CASE draining' = None /\ task' = [task EXCEPT ![draining] = "retired"]
    <3>1. \A x \in Call : Underway(x)' => x # draining
      BY <1>1, <2>1, <2>4 DEF Underway, Live, Finished
    <3> QED
      BY <2>1, <2>2, <2>4, <3>1 DEF RegistryInv
  <2> QED
    BY <2>1, <2>3, <2>4
<1>17. ASSUME StartUpdate
      PROVE  RegistryInv'
  <2>1. /\ draining = None /\ draining' = None /\ task' = task
    BY <1>17 DEF StartUpdate
  <2>2. \A b \in Call : Underway(b)' <=> Underway(b)
    BY <2>1 DEF Underway, Live, Finished
  <2>3. \A b \in Call : Underway(b) => registry[GroupOf[b]] = b /\ b \in Registered
    BY <2>1 DEF RegistryInv, Registered
  <2>4. CASE Registered = {} /\ update' = "engine"
    BY <2>1, <2>2, <2>3, <2>4 DEF RegistryInv
  <2>5. CASE update' = "gather" /\ doomed' = Registered /\ registry' = registry
    BY <2>1, <2>2, <2>3, <2>5 DEF RegistryInv
  <2> QED
    BY <1>17, <2>4, <2>5 DEF StartUpdate
<1>18. ASSUME ClearAfterGather
      PROVE  RegistryInv'
  <2>1. /\ draining = None /\ draining' = None /\ task' = task /\ update' = "engine"
        /\ update = "gather" /\ \A b \in doomed : task[b] = "retired"
    BY <1>18 DEF ClearAfterGather, GatherReturned
  <2>2. \A b \in Call : ~Underway(b)
    BY <2>1 DEF RegistryInv, Underway, Live, Finished
  <2>3. \A b \in Call : ~Underway(b)'
    BY <2>1, <2>2 DEF Underway, Live, Finished
  <2> QED
    BY <2>1, <2>3 DEF RegistryInv
<1>19. ASSUME AbortEngine
      PROVE  RegistryInv'
  <2>1. /\ draining = None /\ draining' = None /\ task' = task
        /\ update \in {"engine", "sync", "resume"}
        /\ update' # "gather"
    BY <1>19 DEF AbortEngine
  <2>2. \A b \in Call : ~Underway(b)
    BY <2>1 DEF RegistryInv
  <2>3. \A b \in Call : ~Underway(b)'
    BY <2>1, <2>2 DEF Underway, Live, Finished
  <2> QED
    BY <2>1, <2>3 DEF RegistryInv
<1>20. ASSUME SyncWeights
      PROVE  RegistryInv'
  <2>1. /\ draining = None /\ draining' = None /\ task' = task
        /\ update \in {"engine", "sync", "resume"}
        /\ update' # "gather"
    BY <1>20 DEF SyncWeights
  <2>2. \A b \in Call : ~Underway(b)
    BY <2>1 DEF RegistryInv
  <2>3. \A b \in Call : ~Underway(b)'
    BY <2>1, <2>2 DEF Underway, Live, Finished
  <2> QED
    BY <2>1, <2>3 DEF RegistryInv
<1>21. ASSUME ResumeGeneration
      PROVE  RegistryInv'
  <2>1. /\ draining = None /\ draining' = None /\ task' = task
        /\ update \in {"engine", "sync", "resume"}
        /\ update' # "gather"
    BY <1>21 DEF ResumeGeneration
  <2>2. \A b \in Call : ~Underway(b)
    BY <2>1 DEF RegistryInv
  <2>3. \A b \in Call : ~Underway(b)'
    BY <2>1, <2>2 DEF Underway, Live, Finished
  <2> QED
    BY <2>1, <2>3 DEF RegistryInv
<1>22. CASE UNCHANGED vars
  BY <1>22 DEF vars, updateVars, RegistryInv, Underway, Live, Finished
<1> QED
  BY <1>2, <1>3, <1>4, <1>5, <1>6, <1>7, <1>8, <1>9, <1>10, <1>11, <1>12,
     <1>13, <1>14, <1>15, <1>16, <1>17, <1>18, <1>19, <1>20, <1>21, <1>22
  DEF Next, CallArrives, ServerStep, RequestStep, BuildStep, UpdateStep, Rest

LEMMA RegistryAlways ==
  ASSUME QuietUpdates = TRUE
  PROVE  Spec => [](TypeInv /\ RegistryInv)
<1>1. Init => TypeInv /\ RegistryInv
  BY TypeInvInit, RegistryInit
<1>2. TypeInv /\ RegistryInv /\ [Next]_vars => (TypeInv /\ RegistryInv)'
  BY TypeInvNext, RegistryNext
<1> QED
  BY <1>1, <1>2, PTL DEF Spec

\* When the trainer sends no call during a weight update, every build under
\* way is in _two_stage_build_tasks: no call starts a second one beside it and
\* no abort misses it (abort_all_requests).
THEOREM NoBuildForgotten ==
  ASSUME QuietUpdates = TRUE
  PROVE  Spec => []NoForgottenBuild
<1>1. RegistryInv => NoForgottenBuild
  <2> SUFFICES ASSUME RegistryInv, NEW b \in Call, Live(b)
               PROVE  registry[GroupOf[b]] = b
    BY DEF NoForgottenBuild
  <2>1. draining # b
    BY ConstantsAssumption DEF RegistryInv, Live, Finished
  <2> QED
    BY <2>1 DEF RegistryInv, Underway
<1> QED
  BY <1>1, RegistryAlways, PTL

\* Under the same condition a group never has two builds under way, however
\* its calls arrive around the end of a build, a failure or an abort
\* (_get_or_build_two_stage_cache_entry).
THEOREM AlwaysOneBuildPerGroup ==
  ASSUME QuietUpdates = TRUE
  PROVE  Spec => []OneBuildPerGroup
<1>1. NoForgottenBuild => OneBuildPerGroup
  BY DEF NoForgottenBuild, OneBuildPerGroup
<1> QED
  BY <1>1, NoBuildForgotten, PTL

-------------------------------------------------------------------------------
(* The freshness of the cache, in a quiet update.                          *)

\* A step that neither samples, finishes a search, nor touches the cache.
LEMMA FreshKept ==
  ASSUME FreshInv, weights' = weights, update' = update, cache' = cache,
         sampledUnder' = sampledUnder, stamp' = stamp,
         \A b \in Call : task'[b] \in {"lock", "stage2", "result"}
                       => task[b] \in {"lock", "stage2", "result"},
         \A b \in Call : task'[b] = "result" => task[b] = "result"
  PROVE  FreshInv'
BY DEF FreshInv

\* A call that is given an outcome leaves fresh entries in the cache.
LEMMA FreshDelivered ==
  ASSUME TypeInv, FreshInv, NEW c \in Call, NEW b,
         \/ Cached(GroupOf[c]) # {} /\ Deliver(c, b)
         \/ b \in Call /\ TakeOutcome(c, b)
  PROVE  \A e \in Range(cache') : sampledUnder[e] = weights /\ stamp[e] = weights
<1>1. ASSUME Deliver(c, b),
             Cached(GroupOf[c]) # {} \/ (b \in Call /\ task[b] = "result")
      PROVE  \A e \in Range(cache') : sampledUnder[e] = weights /\ stamp[e] = weights
  <2>1. TypeOK /\ ResponsesExist
    BY DEF TypeInv
  <2>2. Cached(GroupOf[c]) # {} \/ (b \in Call /\ responses[b] > 0)
    BY <1>1, <2>1 DEF ResponsesExist
  <2>3. \A e \in Range(cache') :
          e \in Range(cache) \/ (e = b /\ Cached(GroupOf[c]) = {})
    BY <1>1, <2>1, <2>2, DeliverType
  <2> QED
    BY <1>1, <2>3 DEF FreshInv
<1>2. CASE Refuse(c)
  BY <1>2 DEF Refuse, cacheVars, FreshInv
<1> QED
  BY <1>1, <1>2 DEF TakeOutcome

LEMMA FreshInit == Init => FreshInv
BY ConstantsAssumption DEF Init, FreshInv, Range

LEMMA FreshNext ==
  ASSUME QuietUpdates = TRUE
  PROVE  TypeInv /\ RegistryInv /\ FreshInv /\ [Next]_vars => FreshInv'
<1> SUFFICES ASSUME TypeInv, RegistryInv, FreshInv, [Next]_vars
             PROVE  FreshInv'
  OBVIOUS
<1> USE ConstantsAssumption
<1>1. /\ task \in [Call -> {"none", "stage1", "lock", "stage2", "result",
                            "error", "retired"}]
      /\ draining \in Call \cup {None}
      /\ registry \in [Group -> Call \cup {None}]
      /\ sampledUnder \in [Call -> 0 .. MaxUpdates]
      /\ stamp \in [Call -> 0 .. MaxUpdates]
      /\ cache \in Seq(Call)
      /\ Range(cache) \subseteq Call
  <2>1. cache \in Seq(Call)
    BY DEF TypeInv, TypeOK
  <2> QED
    BY <2>1, SeqRange DEF TypeInv, TypeOK
<1>2. ASSUME NEW c \in Call, CallHits(c)
      PROVE  FreshInv'
  <2>1. \A e \in Range(cache') : sampledUnder[e] = weights /\ stamp[e] = weights
    BY <1>2, FreshDelivered DEF CallHits
  <2>2. /\ weights' = weights /\ sampledUnder' = sampledUnder /\ stamp' = stamp
        /\ task' = task /\ update' = update /\ update = "idle"
    BY <1>2 DEF CallHits, MayArrive, updateVars, sampleVars
  <2> QED
    BY <2>1, <2>2 DEF FreshInv
<1>3. ASSUME NEW c \in Call, CallJoins(c)
      PROVE  FreshInv'
  <2>1. /\ weights' = weights /\ update' = update /\ cache' = cache
        /\ sampledUnder' = sampledUnder /\ stamp' = stamp
    BY <1>3 DEF CallJoins, cacheVars, updateVars, sampleVars
  <2>2. /\ \A x \in Call : task'[x] \in {"lock", "stage2", "result"}
                        => task[x] \in {"lock", "stage2", "result"}
        /\ \A x \in Call : task'[x] = "result" => task[x] = "result"
    BY <1>1, <1>3 DEF CallJoins
  <2> QED
    BY <2>1, <2>2, FreshKept
<1>4. ASSUME NEW c \in Call, CallFindsFinished(c)
      PROVE  FreshInv'
  <2>1. \A e \in Range(cache') : sampledUnder[e] = weights /\ stamp[e] = weights
    <3>1. registry[GroupOf[c]] \in Call /\ TakeOutcome(c, registry[GroupOf[c]])
      BY <1>1, <1>4 DEF CallFindsFinished
    <3> QED
      BY <3>1, FreshDelivered
  <2>2. /\ weights' = weights /\ sampledUnder' = sampledUnder /\ stamp' = stamp
        /\ task' = task /\ update' = update /\ update = "idle"
    BY <1>4 DEF CallFindsFinished, MayArrive, updateVars, sampleVars
  <2> QED
    BY <2>1, <2>2 DEF FreshInv
<1>5. ASSUME NEW c \in Call, CallBuilds(c)
      PROVE  FreshInv'
  <2>1. /\ weights' = weights /\ update' = update /\ cache' = cache
        /\ sampledUnder' = sampledUnder /\ stamp' = stamp
    BY <1>5 DEF CallBuilds, cacheVars, updateVars, sampleVars
  <2>2. /\ \A x \in Call : task'[x] \in {"lock", "stage2", "result"}
                        => task[x] \in {"lock", "stage2", "result"}
        /\ \A x \in Call : task'[x] = "result" => task[x] = "result"
    BY <1>1, <1>5 DEF CallBuilds
  <2> QED
    BY <2>1, <2>2, FreshKept
<1>6. ASSUME NEW r \in Request, Acquire(r)
      PROVE  FreshInv'
  <2>1. /\ weights' = weights /\ update' = update /\ cache' = cache
        /\ sampledUnder' = sampledUnder /\ stamp' = stamp
    BY <1>6 DEF Acquire, cacheVars, updateVars, sampleVars
  <2>2. /\ \A x \in Call : task'[x] \in {"lock", "stage2", "result"}
                        => task[x] \in {"lock", "stage2", "result"}
        /\ \A x \in Call : task'[x] = "result" => task[x] = "result"
    BY <1>1, <1>6 DEF Acquire
  <2> QED
    BY <2>1, <2>2, FreshKept
<1>7. ASSUME NEW r \in Request, BeamEnds(r)
      PROVE  FreshInv'
  <2>1. /\ weights' = weights /\ update' = update /\ cache' = cache
        /\ sampledUnder' = sampledUnder /\ stamp' = stamp
    BY <1>7 DEF BeamEnds, cacheVars, updateVars, sampleVars
  <2>2. /\ \A x \in Call : task'[x] \in {"lock", "stage2", "result"}
                        => task[x] \in {"lock", "stage2", "result"}
        /\ \A x \in Call : task'[x] = "result" => task[x] = "result"
    BY <1>1, <1>7 DEF BeamEnds
  <2> QED
    BY <2>1, <2>2, FreshKept
<1>8. ASSUME NEW b \in Call, Stage1Returns(b)
      PROVE  FreshInv'
  <2>1. /\ weights' = weights /\ update' = update /\ cache' = cache /\ stamp' = stamp
        /\ sampledUnder' = [sampledUnder EXCEPT ![b] = weights]
        /\ task' = [task EXCEPT ![b] = "lock"]
    BY <1>8 DEF Stage1Returns, cacheVars, updateVars
  <2>2. \A x \in Call : /\ sampledUnder[x] = weights => sampledUnder'[x] = weights
                       /\ sampledUnder'[b] = weights
    BY <1>1, <2>1
  <2> QED
    BY <1>1, <2>1, <2>2 DEF FreshInv
<1>9. ASSUME NEW b \in Call, Stage1Raises(b)
      PROVE  FreshInv'
  <2>1. /\ weights' = weights /\ update' = update /\ cache' = cache
        /\ sampledUnder' = sampledUnder /\ stamp' = stamp
    BY <1>9 DEF Stage1Raises, cacheVars, updateVars, sampleVars
  <2>2. /\ \A x \in Call : task'[x] \in {"lock", "stage2", "result"}
                        => task[x] \in {"lock", "stage2", "result"}
        /\ \A x \in Call : task'[x] = "result" => task[x] = "result"
    BY <1>1, <1>9 DEF Stage1Raises
  <2> QED
    BY <2>1, <2>2, FreshKept
<1>10. ASSUME NEW b \in Call, TakeLock(b)
      PROVE  FreshInv'
  <2>1. /\ weights' = weights /\ update' = update /\ cache' = cache
        /\ sampledUnder' = sampledUnder /\ stamp' = stamp
    BY <1>10 DEF TakeLock, cacheVars, updateVars, sampleVars
  <2>2. /\ \A x \in Call : task'[x] \in {"lock", "stage2", "result"}
                        => task[x] \in {"lock", "stage2", "result"}
        /\ \A x \in Call : task'[x] = "result" => task[x] = "result"
    BY <1>1, <1>10 DEF TakeLock
  <2> QED
    BY <2>1, <2>2, FreshKept
<1>11. ASSUME NEW b \in Call, SendStep(b)
      PROVE  FreshInv'
  <2>1. /\ weights' = weights /\ update' = update /\ cache' = cache
        /\ sampledUnder' = sampledUnder /\ stamp' = stamp
    BY <1>11 DEF SendStep, cacheVars, updateVars, sampleVars
  <2>2. /\ \A x \in Call : task'[x] \in {"lock", "stage2", "result"}
                        => task[x] \in {"lock", "stage2", "result"}
        /\ \A x \in Call : task'[x] = "result" => task[x] = "result"
    BY <1>1, <1>11 DEF SendStep
  <2> QED
    BY <2>1, <2>2, FreshKept
<1>12. ASSUME NEW b \in Call, FinishSearch(b)
      PROVE  FreshInv'
  <2>1. /\ weights' = weights /\ update' = update /\ cache' = cache
        /\ sampledUnder' = sampledUnder
        /\ stamp' = [stamp EXCEPT ![b] = weights]
        /\ task' = [task EXCEPT ![b] = "result"] /\ task[b] = "stage2"
    BY <1>12 DEF FinishSearch, StepReturned, updateVars
  <2>2. \A x \in Call : /\ stamp[x] = weights => stamp'[x] = weights
                       /\ stamp'[b] = weights
    BY <1>1, <2>1
  <2> QED
    BY <1>1, <2>1, <2>2 DEF FreshInv
<1>13. ASSUME NEW b \in Call, FailSearch(b)
      PROVE  FreshInv'
  <2>1. /\ weights' = weights /\ update' = update /\ cache' = cache
        /\ sampledUnder' = sampledUnder /\ stamp' = stamp
    BY <1>13 DEF FailSearch, cacheVars, updateVars, sampleVars
  <2>2. /\ \A x \in Call : task'[x] \in {"lock", "stage2", "result"}
                        => task[x] \in {"lock", "stage2", "result"}
        /\ \A x \in Call : task'[x] = "result" => task[x] = "result"
    BY <1>1, <1>13 DEF FailSearch
  <2> QED
    BY <2>1, <2>2, FreshKept
<1>14. ASSUME NEW b \in Call, UnwindWaiting(b)
      PROVE  FreshInv'
  <2>1. /\ weights' = weights /\ update' = update /\ cache' = cache
        /\ sampledUnder' = sampledUnder /\ stamp' = stamp
    BY <1>14 DEF UnwindWaiting, cacheVars, updateVars, sampleVars
  <2>2. /\ \A x \in Call : task'[x] \in {"lock", "stage2", "result"}
                        => task[x] \in {"lock", "stage2", "result"}
        /\ \A x \in Call : task'[x] = "result" => task[x] = "result"
    BY <1>1, <1>14 DEF UnwindWaiting
  <2> QED
    BY <2>1, <2>2, FreshKept
<1>15. ASSUME NEW b \in Call, StartDrain(b)
      PROVE  FreshInv'
  <2>1. /\ weights' = weights /\ update' = update /\ cache' = cache
        /\ sampledUnder' = sampledUnder /\ stamp' = stamp
    BY <1>15 DEF StartDrain, cacheVars, updateVars, sampleVars
  <2>2. /\ \A x \in Call : task'[x] \in {"lock", "stage2", "result"}
                        => task[x] \in {"lock", "stage2", "result"}
        /\ \A x \in Call : task'[x] = "result" => task[x] = "result"
    BY <1>1, <1>15 DEF StartDrain
  <2> QED
    BY <2>1, <2>2, FreshKept
<1>16. ASSUME NEW c \in Call, ResumeWaiter(c)
      PROVE  FreshInv'
  <2>1. /\ draining \in Call /\ Finished(draining) /\ TakeOutcome(c, draining)
    BY <1>1, <1>16 DEF ResumeWaiter, RegistryInv
  <2>2. \A e \in Range(cache') : sampledUnder[e] = weights /\ stamp[e] = weights
    BY <2>1, FreshDelivered
  <2>3. /\ weights' = weights /\ sampledUnder' = sampledUnder /\ stamp' = stamp
        /\ update' = update
        /\ task' = task \/ task' = [task EXCEPT ![draining] = "retired"]
    BY <1>16 DEF ResumeWaiter, updateVars, sampleVars
  <2>4. update \notin {"engine", "sync", "resume"}
    BY <2>1 DEF RegistryInv, Underway
  <2>5. \A x \in Call : task'[x] = task[x] \/ task'[x] = "retired"
    BY <1>1, <2>3
  <2> QED
    BY <2>2, <2>3, <2>4, <2>5 DEF FreshInv
<1>17. ASSUME StartUpdate
      PROVE  FreshInv'
  <2>1. /\ weights' = weights /\ sampledUnder' = sampledUnder /\ stamp' = stamp
        /\ task' = task
    BY <1>17 DEF StartUpdate, sampleVars
  <2>2. cache' = <<>> \/ (cache' = cache /\ update' = "gather")
    BY <1>17 DEF StartUpdate, ClearServerState
  <2>3. CASE cache' = <<>>
    <3>1. Range(cache') = {}
      BY <2>3 DEF Range
    <3> QED
      BY <2>1, <2>3, <3>1 DEF FreshInv
  <2>4. CASE cache' = cache /\ update' = "gather"
    BY <2>1, <2>4 DEF FreshInv
  <2> QED
    BY <2>2, <2>3, <2>4
<1>18. ASSUME ClearAfterGather
      PROVE  FreshInv'
  <2>1. /\ weights' = weights /\ sampledUnder' = sampledUnder /\ stamp' = stamp
        /\ task' = task
    BY <1>18 DEF ClearAfterGather, sampleVars
  <2>2. cache' = <<>> \/ (cache' = cache /\ update' = "gather")
    BY <1>18 DEF ClearAfterGather, ClearServerState
  <2>3. CASE cache' = <<>>
    <3>1. Range(cache') = {}
      BY <2>3 DEF Range
    <3> QED
      BY <2>1, <2>3, <3>1 DEF FreshInv
  <2>4. CASE cache' = cache /\ update' = "gather"
    BY <2>1, <2>4 DEF FreshInv
  <2> QED
    BY <2>2, <2>3, <2>4
<1>19. ASSUME AbortEngine
      PROVE  FreshInv'
  <2>1. /\ weights' = weights /\ sampledUnder' = sampledUnder /\ stamp' = stamp
        /\ task' = task /\ cache' = cache /\ update = "engine"
    BY <1>19 DEF AbortEngine, sampleVars, cacheVars
  <2> QED
    BY <2>1 DEF FreshInv
<1>20. ASSUME SyncWeights
      PROVE  FreshInv'
  <2>1. /\ sampledUnder' = sampledUnder /\ stamp' = stamp /\ task' = task
        /\ cache' = cache /\ update = "sync"
    BY <1>20 DEF SyncWeights, sampleVars, cacheVars
  <2>2. cache' = <<>> /\ Range(cache') = {}
    BY <2>1 DEF FreshInv, Range
  <2>3. \A b \in Call : task'[b] \notin {"lock", "stage2", "result"}
    BY <2>1 DEF RegistryInv, Underway, Live, Finished
  <2> QED
    BY <2>2, <2>3 DEF FreshInv
<1>21. ASSUME ResumeGeneration
      PROVE  FreshInv'
  <2>1. /\ weights' = weights /\ sampledUnder' = sampledUnder /\ stamp' = stamp
        /\ task' = task /\ cache' = cache /\ update' = "idle"
    BY <1>21 DEF ResumeGeneration, sampleVars, cacheVars
  <2> QED
    BY <2>1 DEF FreshInv
<1>22. CASE UNCHANGED vars
  BY <1>22 DEF vars, updateVars, cacheVars, sampleVars, FreshInv
<1> QED
  BY <1>2, <1>3, <1>4, <1>5, <1>6, <1>7, <1>8, <1>9, <1>10, <1>11, <1>12,
     <1>13, <1>14, <1>15, <1>16, <1>17, <1>18, <1>19, <1>20, <1>21, <1>22
  DEF Next, CallArrives, ServerStep, RequestStep, BuildStep, UpdateStep, Rest

\* When the trainer sends no call during a weight update, no call is ever
\* served from a sample of older weights: what the cache holds was sampled and
\* stamped under the weights the engine has (update_weights aborts, and so
\* clears, before it syncs).
THEOREM CacheAlwaysFresh ==
  ASSUME QuietUpdates = TRUE
  PROVE  Spec => []CacheIsFresh
<1>1. Init => TypeInv /\ RegistryInv /\ FreshInv
  BY TypeInvInit, RegistryInit, FreshInit
<1>2. TypeInv /\ RegistryInv /\ FreshInv /\ [Next]_vars
      => (TypeInv /\ RegistryInv /\ FreshInv)'
  BY TypeInvNext, RegistryNext, FreshNext
<1>3. FreshInv => CacheIsFresh
  BY DEF FreshInv, CacheIsFresh
<1> QED
  BY <1>1, <1>2, <1>3, PTL DEF Spec

-------------------------------------------------------------------------------
(* The cache and its counters, and the refinement of SharedSamples.          *)

\* A list of samples with no two of one group.
OnePerGroup(s) ==
  \A i, j \in 1 .. Len(s) : GroupOf[s[i]] = GroupOf[s[j]] => i = j

\* Whom a call can be served from is of its own group.
GroupInv ==
  /\ \A c \in Call : call[c] = "waiting" =>
       source[c] \in Call /\ GroupOf[source[c]] = GroupOf[c]
  /\ \A g \in Group : registry[g] # None => GroupOf[registry[g]] = g

CacheInv == Len(cache) <= MaxCacheSize /\ OnePerGroup(cache)

\* The counter is exact while it is above one or its entry is cached.  An
\* entry whose counter stands at one and that is not cached may have been used
\* up: a late waiter that puts it back pops it again with the same use.
UsesInv ==
  /\ \A b \in Call : remaining[b] > 1 \/ b \in Range(cache) =>
       remaining[b] + Cardinality(Served(b)) = Width
  /\ \A b \in Call : responses[b] > 0 =>
       remaining[b] > 0 /\ remaining[b] + Cardinality(Served(b)) >= Width
  /\ \A b \in Call : task[b] \notin {"result", "retired"} =>
       Served(b) = {} /\ b \notin Range(cache) /\ responses[b] = 0

-------------------------------------------------------------------------------
(* The sequence operators of the cache.                                    *)

\* Without closes the gap left by the entry it takes out.
LEMMA WithoutAt ==
  ASSUME NEW s \in Seq(Call), NEW b \in Range(s)
  PROVE  \E k \in 1 .. Len(s) :
           /\ s[k] = b
           /\ Without(s, b) \in Seq(Call)
           /\ Len(Without(s, b)) = Len(s) - 1
           /\ \A i \in 1 .. Len(s) - 1 :
                Without(s, b)[i] = IF i < k THEN s[i] ELSE s[i + 1]
<1> DEFINE k == CHOOSE i \in DOMAIN s : s[i] = b
           front == SubSeq(s, 1, k - 1)
           back == SubSeq(s, k + 1, Len(s))
<1>1. \E i \in DOMAIN s : s[i] = b
  BY DEF Range
<1>2. k \in 1 .. Len(s) /\ s[k] = b
  BY <1>1
<1>3. Without(s, b) = front \o back
  BY <1>1 DEF Without, RemoveAt
<1> HIDE DEF k
<1>4. /\ front \in Seq(Call)
      /\ Len(front) = k - 1
      /\ \A i \in 1 .. k - 1 : front[i] = s[i]
  BY <1>2
<1>5. /\ back \in Seq(Call)
      /\ Len(back) = Len(s) - k
      /\ \A i \in 1 .. Len(s) - k : back[i] = s[k + i]
  BY <1>2
<1> HIDE DEF front, back
<1>6. /\ front \o back \in Seq(Call)
      /\ Len(front \o back) = Len(front) + Len(back)
      /\ \A i \in 1 .. Len(front) + Len(back) :
           (front \o back)[i] = IF i <= Len(front) THEN front[i]
                                ELSE back[i - Len(front)]
  BY <1>4, <1>5, ConcatProperties
<1>7. ASSUME NEW i \in 1 .. Len(s) - 1
      PROVE  Without(s, b)[i] = IF i < k THEN s[i] ELSE s[i + 1]
  <2>1. (front \o back)[i] = IF i <= k - 1 THEN front[i] ELSE back[i - (k - 1)]
    BY <1>2, <1>4, <1>5, <1>6
  <2>2. CASE i <= k - 1
    BY <1>2, <1>3, <1>4, <2>1, <2>2
  <2>3. CASE ~(i <= k - 1)
    <3>1. i - (k - 1) \in 1 .. Len(s) - k /\ k + (i - (k - 1)) = i + 1
      BY <1>2, <2>3
    <3>2. back[i - (k - 1)] = s[i + 1]
      BY <1>5, <3>1
    <3> QED
      BY <1>2, <1>3, <2>1, <2>3, <3>2
  <2> QED
    BY <2>2, <2>3
<1>8. Without(s, b) \in Seq(Call) /\ Len(Without(s, b)) = Len(s) - 1
  BY <1>2, <1>3, <1>4, <1>5, <1>6
<1> QED
  BY <1>2, <1>7, <1>8, Zenon

\* Taking an entry out of a list with one entry per group takes out exactly it.
LEMMA WithoutOnePerGroup ==
  ASSUME NEW s \in Seq(Call), OnePerGroup(s), NEW b \in Range(s)
  PROVE  /\ Without(s, b) \in Seq(Call)
         /\ Len(Without(s, b)) = Len(s) - 1
         /\ OnePerGroup(Without(s, b))
         /\ Range(Without(s, b)) = Range(s) \ {b}
<1> DEFINE w == Without(s, b)
<1>1. PICK k \in 1 .. Len(s) :
        /\ s[k] = b
        /\ w \in Seq(Call)
        /\ Len(w) = Len(s) - 1
        /\ \A i \in 1 .. Len(s) - 1 : w[i] = IF i < k THEN s[i] ELSE s[i + 1]
  BY WithoutAt
<1> HIDE DEF w
<1>2. \A i, j \in 1 .. Len(s) : s[i] = s[j] => i = j
  BY DEF OnePerGroup
<1>3. ASSUME NEW i \in 1 .. Len(w), NEW j \in 1 .. Len(w),
             GroupOf[w[i]] = GroupOf[w[j]]
      PROVE  i = j
  <2> DEFINE at(n) == IF n < k THEN n ELSE n + 1
  <2>1. at(i) \in 1 .. Len(s) /\ w[i] = s[at(i)]
    BY <1>1
  <2>2. at(j) \in 1 .. Len(s) /\ w[j] = s[at(j)]
    BY <1>1
  <2>3. at(i) = at(j)
    BY <1>3, <2>1, <2>2 DEF OnePerGroup
  <2> QED
    BY <1>1, <2>3
<1>4. ASSUME NEW x \in Range(w)
      PROVE  x \in Range(s) \ {b}
  <2>1. PICK i \in 1 .. Len(s) - 1 : w[i] = x
    BY <1>1 DEF Range
  <2>2. x = IF i < k THEN s[i] ELSE s[i + 1]
    BY <1>1, <2>1
  <2>3. CASE i < k
    BY <1>1, <1>2, <2>2, <2>3 DEF Range
  <2>4. CASE ~(i < k)
    <3>1. i + 1 \in 1 .. Len(s) /\ i + 1 # k
      BY <1>1, <2>4
    <3> QED
      BY <1>1, <1>2, <2>2, <2>4, <3>1 DEF Range
  <2> QED
    BY <2>3, <2>4
<1>5. ASSUME NEW x \in Range(s) \ {b}
      PROVE  x \in Range(w)
  <2>1. PICK j \in 1 .. Len(s) : s[j] = x
    BY DEF Range
  <2>2. j # k
    BY <1>1, <2>1
  <2>3. CASE j < k
    <3>1. j \in 1 .. Len(s) - 1 /\ w[j] = x
      BY <1>1, <2>1, <2>3
    <3> QED
      BY <1>1, <3>1 DEF Range
  <2>4. CASE j > k
    <3>1. j - 1 \in 1 .. Len(s) - 1 /\ ~(j - 1 < k) /\ (j - 1) + 1 = j
      BY <1>1, <2>4
    <3>2. w[j - 1] = x
      BY <1>1, <2>1, <3>1
    <3> QED
      BY <1>1, <3>1, <3>2 DEF Range
  <2> QED
    BY <2>2, <2>3, <2>4
<1>6. OnePerGroup(w)
  BY <1>3 DEF OnePerGroup
<1> QED
  BY <1>1, <1>4, <1>5, <1>6 DEF w

\* Appending a sample of a group that is not in the list.
LEMMA AppendOnePerGroup ==
  ASSUME NEW s \in Seq(Call), OnePerGroup(s), NEW b \in Call,
         \A x \in Range(s) : GroupOf[x] # GroupOf[b]
  PROVE  /\ Append(s, b) \in Seq(Call)
         /\ Len(Append(s, b)) = Len(s) + 1
         /\ OnePerGroup(Append(s, b))
         /\ Range(Append(s, b)) = Range(s) \cup {b}
<1> DEFINE a == Append(s, b)
<1>1. /\ a \in Seq(Call)
      /\ Len(a) = Len(s) + 1
      /\ \A i \in 1 .. Len(s) : a[i] = s[i]
      /\ a[Len(s) + 1] = b
  OBVIOUS
<1> HIDE DEF a
<1>2. \A i \in 1 .. Len(s) : GroupOf[s[i]] # GroupOf[b]
  BY DEF Range
<1>3. OnePerGroup(a)
  BY <1>1, <1>2 DEF OnePerGroup
<1>4. Range(a) = Range(s) \cup {b}
  BY <1>1 DEF Range
<1> QED
  BY <1>1, <1>3, <1>4 DEF a

\* Trimming keeps the limit, the last entry, and one entry per group.
LEMMA TrimOnePerGroup ==
  ASSUME NEW s \in Seq(Call), OnePerGroup(s), s # <<>>
  PROVE  /\ Trim(s) \in Seq(Call)
         /\ Len(Trim(s)) <= MaxCacheSize
         /\ OnePerGroup(Trim(s))
         /\ Range(Trim(s)) \subseteq Range(s)
         /\ s[Len(s)] \in Range(Trim(s))
         /\ Len(s) <= MaxCacheSize => Trim(s) = s
<1> DEFINE d == Len(s) - MaxCacheSize
           t == SubSeq(s, d + 1, Len(s))
<1>1. MaxCacheSize \in Nat \ {0} /\ Len(s) \in Nat \ {0}
  BY ConstantsAssumption
<1>2. CASE Len(s) > MaxCacheSize
  <2>1. Trim(s) = t
    BY <1>2 DEF Trim
  <2>2. d \in Nat /\ d \in 1 .. Len(s) - 1
    BY <1>1, <1>2
  <2>3. /\ t \in Seq(Call)
        /\ Len(t) = MaxCacheSize
        /\ \A i \in 1 .. MaxCacheSize : t[i] = s[d + i]
    BY <1>1, <2>2
  <2> HIDE DEF t
  <2>4. OnePerGroup(t)
    <3> SUFFICES ASSUME NEW i \in 1 .. Len(t), NEW j \in 1 .. Len(t),
                        GroupOf[t[i]] = GroupOf[t[j]]
                 PROVE  i = j
      BY DEF OnePerGroup
    <3>1. d + i \in 1 .. Len(s) /\ d + j \in 1 .. Len(s)
      BY <1>1, <2>2, <2>3
    <3>2. GroupOf[s[d + i]] = GroupOf[s[d + j]]
      BY <2>3
    <3>3. d + i = d + j
      BY <3>1, <3>2 DEF OnePerGroup
    <3> QED
      BY <1>1, <2>2, <3>3
  <2>5. Range(t) \subseteq Range(s)
    BY <1>1, <2>2, <2>3 DEF Range
  <2>6. t[MaxCacheSize] = s[Len(s)]
    BY <1>1, <2>2, <2>3
  <2>7. s[Len(s)] \in Range(t)
    BY <1>1, <2>3, <2>6 DEF Range
  <2> QED
    BY <1>1, <1>2, <2>1, <2>3, <2>4, <2>5, <2>7
<1>3. CASE ~(Len(s) > MaxCacheSize)
  BY <1>1, <1>3 DEF Trim, Range
<1> QED
  BY <1>2, <1>3

-------------------------------------------------------------------------------
(* Handing an entry to a call.                                             *)

\* A call may be given the entry in hand: it arrived or waits, and what it
\* awaited made a sample of its own group.
Deliverable(c, b) ==
  /\ call[c] \in {"idle", "waiting"}
  /\ Cached(GroupOf[c]) # {} \/ (b \in Call /\ task[b] = "result"
                                /\ GroupOf[b] = GroupOf[c])

\* The entry that is used is in the cache, alone of its group.
LEMMA InsertedEntries ==
  ASSUME TypeInv, CacheInv, NEW c \in Call, NEW b, Deliverable(c, b)
  PROVE  /\ Entry(c, b) \in Call
         /\ GroupOf[Entry(c, b)] = GroupOf[c]
         /\ Inserted(c, b) \in Seq(Call)
         /\ Len(Inserted(c, b)) <= MaxCacheSize
         /\ OnePerGroup(Inserted(c, b))
         /\ Entry(c, b) \in Range(Inserted(c, b))
         /\ Range(Inserted(c, b)) \subseteq Range(cache) \cup {Entry(c, b)}
         /\ Entry(c, b) \in Range(cache) \/ task[Entry(c, b)] = "result"
<1>1. cache \in Seq(Call) /\ Range(cache) \subseteq Call
  <2>1. cache \in Seq(Call)
    BY DEF TypeInv, TypeOK
  <2> QED
    BY <2>1, SeqRange
<1>2. CASE Cached(GroupOf[c]) # {}
  <2>1. Entry(c, b) \in Cached(GroupOf[c]) /\ Inserted(c, b) = cache
    BY <1>2 DEF Entry, Inserted
  <2> QED
    BY <1>1, <2>1 DEF Cached, CacheInv
<1>3. CASE Cached(GroupOf[c]) = {}
  <2>1. /\ b \in Call /\ task[b] = "result" /\ GroupOf[b] = GroupOf[c]
        /\ Entry(c, b) = b
        /\ Inserted(c, b) = Trim(Append(cache, b))
    BY <1>3 DEF Deliverable, Entry, Inserted
  <2>2. \A x \in Range(cache) : GroupOf[x] # GroupOf[b]
    BY <1>3, <2>1 DEF Cached
  <2>3. /\ Append(cache, b) \in Seq(Call)
        /\ Len(Append(cache, b)) = Len(cache) + 1
        /\ OnePerGroup(Append(cache, b))
        /\ Range(Append(cache, b)) = Range(cache) \cup {b}
    BY <1>1, <2>1, <2>2, AppendOnePerGroup DEF CacheInv
  <2> DEFINE longer == Append(cache, b)
  <2>4. longer # <<>> /\ longer[Len(longer)] = b
    BY <1>1, <2>1
  <2>5. /\ longer \in Seq(Call) /\ OnePerGroup(longer)
        /\ Range(longer) = Range(cache) \cup {b}
        /\ Inserted(c, b) = Trim(longer)
    BY <2>1, <2>3
  <2> HIDE DEF longer
  <2>6. /\ Inserted(c, b) \in Seq(Call)
        /\ Len(Inserted(c, b)) <= MaxCacheSize
        /\ OnePerGroup(Inserted(c, b))
        /\ Range(Inserted(c, b)) \subseteq Range(longer)
        /\ b \in Range(Inserted(c, b))
    BY <2>4, <2>5, TrimOnePerGroup
  <2> QED
    BY <2>1, <2>5, <2>6
<1> QED
  BY <1>2, <1>3

\* One use keeps the cache within its limit; it pops the entry exactly when
\* the counter says that this was the last one.
LEMMA SpendCache ==
  ASSUME NEW entries \in Seq(Call), OnePerGroup(entries),
         Len(entries) <= MaxCacheSize, NEW e \in Range(entries), e \in Call,
         remaining \in [Call -> 0 .. Width], Spend(entries, e)
  PROVE  /\ cache' \in Seq(Call)
         /\ CacheInv'
         /\ Range(cache') = IF remaining[e] <= 1 THEN Range(entries) \ {e}
                            ELSE Range(entries)
         /\ remaining' = IF remaining[e] <= 1 THEN remaining
                         ELSE [remaining EXCEPT ![e] = @ - 1]
<1> DEFINE w == Without(entries, e)
<1>1. /\ w \in Seq(Call)
      /\ Len(w) = Len(entries) - 1
      /\ OnePerGroup(w)
      /\ Range(w) = Range(entries) \ {e}
  BY WithoutOnePerGroup
<1>2. MaxCacheSize \in Nat \ {0} /\ Len(entries) \in Nat /\ Width \in Nat
  BY ConstantsAssumption
<1>3. remaining[e] \in 0 .. Width
  OBVIOUS
<1>4. ASSUME NEW x \in Range(w), GroupOf[x] = GroupOf[e]
      PROVE  FALSE
  <2>1. x \in Range(entries) /\ x # e
    BY <1>1
  <2>2. DOMAIN entries = 1 .. Len(entries)
    OBVIOUS
  <2>3. PICK i \in DOMAIN entries : entries[i] = x
    BY <2>1 DEF Range
  <2>4. PICK j \in DOMAIN entries : entries[j] = e
    BY DEF Range
  <2> QED
    BY <1>4, <2>1, <2>2, <2>3, <2>4 DEF OnePerGroup
<1>5. Spend(entries, e) <=>
        \/ remaining[e] <= 1 /\ cache' = w /\ UNCHANGED remaining
        \/ /\ remaining[e] > 1
           /\ cache' = Append(w, e)
           /\ remaining' = [remaining EXCEPT ![e] = @ - 1]
  BY DEF Spend
<1> HIDE DEF w
<1>6. CASE remaining[e] <= 1
  <2>1. cache' = w /\ remaining' = remaining
    BY <1>2, <1>3, <1>5, <1>6
  <2>2. Len(cache') <= MaxCacheSize
    BY <1>1, <1>2, <2>1
  <2>3. OnePerGroup(cache)'
    BY <1>1, <2>1 DEF OnePerGroup
  <2> QED
    BY <1>1, <1>6, <2>1, <2>2, <2>3 DEF CacheInv
<1>7. CASE remaining[e] > 1
  <2>1. cache' = Append(w, e) /\ remaining' = [remaining EXCEPT ![e] = @ - 1]
    BY <1>2, <1>3, <1>5, <1>7
  <2>2. /\ Append(w, e) \in Seq(Call)
        /\ Len(Append(w, e)) = Len(w) + 1
        /\ OnePerGroup(Append(w, e))
        /\ Range(Append(w, e)) = Range(w) \cup {e}
    BY <1>1, <1>4, AppendOnePerGroup
  <2>3. CacheInv'
    BY <1>1, <1>2, <2>1, <2>2 DEF CacheInv, OnePerGroup
  <2> QED
    BY <1>1, <1>2, <1>3, <1>7, <2>1, <2>2, <2>3
<1> QED
  BY <1>2, <1>3, <1>6, <1>7

\* A call that is served counts for the sample it was served from and for no
\* other.
LEMMA ServedGrows ==
  ASSUME TypeOK, NEW c \in Call, call[c] # "served", NEW e \in Call,
         call' = [call EXCEPT ![c] = "served"],
         source' = [source EXCEPT ![c] = e]
  PROVE  /\ \A x \in Call : Cardinality(Served(x)) \in Nat
         /\ \A x \in Call \ {e} : Served(x)' = Served(x)
         /\ Cardinality(Served(e)') = Cardinality(Served(e)) + 1
<1>1. \A x \in Call : IsFiniteSet(Served(x)) /\ Cardinality(Served(x)) \in Nat
  <2>1. \A x \in Call : Served(x) \subseteq Call
    BY DEF Served
  <2> QED
    BY <2>1, ConstantsAssumption, FS_Subset, FS_CardinalityType
<1>2. \A x \in Call \ {e} : Served(x)' = Served(x)
  BY DEF Served, TypeOK
<1>3. Served(e)' = Served(e) \cup {c} /\ c \notin Served(e)
  BY DEF Served, TypeOK
<1> QED
  BY <1>1, <1>2, <1>3, FS_AddElement

\* A call that is not served counts for none.
LEMMA ServedKept ==
  ASSUME TypeOK, NEW c \in Call, call[c] # "served",
         NEW state, state # "served",
         call' = [call EXCEPT ![c] = state],
         \A x \in Call \ {c} : source'[x] = source[x]
  PROVE  \A x \in Call : Served(x)' = Served(x)
BY DEF Served, TypeOK

-------------------------------------------------------------------------------
(* The counters.                                                           *)

\* What one use does to the counter, the calls served and the cache.
LEMMA OneUse ==
  ASSUME TypeInv, CacheInv, NEW c \in Call, NEW b, Deliverable(c, b), Deliver(c, b),
         NEW e, e = Entry(c, b)
  PROVE  /\ e \in Call /\ GroupOf[e] = GroupOf[c]
         /\ e \in Range(cache) \/ task[e] = "result"
         /\ responses[e] > 0
         /\ CacheInv' /\ cache' \in Seq(Call)
         /\ Range(cache') \subseteq Range(cache) \cup {e}
         /\ e \in Range(cache') <=> remaining[e] > 1
         /\ remaining' = IF remaining[e] <= 1 THEN remaining
                         ELSE [remaining EXCEPT ![e] = @ - 1]
         /\ \A x \in Call : Cardinality(Served(x)) \in Nat
         /\ \A x \in Call \ {e} : Served(x)' = Served(x)
         /\ Cardinality(Served(e)') = Cardinality(Served(e)) + 1
         /\ call' = [call EXCEPT ![c] = "served"]
         /\ source' = [source EXCEPT ![c] = e]
<1> DEFINE entries == Inserted(c, b)
<1>1. /\ e \in Call
      /\ GroupOf[e] = GroupOf[c]
      /\ entries \in Seq(Call)
      /\ Len(entries) <= MaxCacheSize
      /\ OnePerGroup(entries)
      /\ e \in Range(entries)
      /\ Range(entries) \subseteq Range(cache) \cup {e}
      /\ e \in Range(cache) \/ task[e] = "result"
  BY InsertedEntries
<1>2. /\ call' = [call EXCEPT ![c] = "served"]
      /\ source' = [source EXCEPT ![c] = e]
      /\ Spend(entries, e)
  BY DEF Deliver
<1>3. TypeOK /\ ResponsesExist /\ remaining \in [Call -> 0 .. Width]
      /\ Width \in Nat
  BY ConstantsAssumption DEF TypeInv, TypeOK
<1>4. call[c] # "served"
  BY DEF Deliverable
<1> HIDE DEF entries
<1>5. responses[e] > 0
  BY <1>1, <1>3 DEF ResponsesExist
<1>6. /\ cache' \in Seq(Call)
      /\ CacheInv'
      /\ Range(cache') = IF remaining[e] <= 1 THEN Range(entries) \ {e}
                         ELSE Range(entries)
      /\ remaining' = IF remaining[e] <= 1 THEN remaining
                      ELSE [remaining EXCEPT ![e] = @ - 1]
  BY <1>1, <1>2, <1>3, SpendCache
<1>7. /\ \A x \in Call : Cardinality(Served(x)) \in Nat
      /\ \A x \in Call \ {e} : Served(x)' = Served(x)
      /\ Cardinality(Served(e)') = Cardinality(Served(e)) + 1
  BY <1>1, <1>2, <1>3, <1>4, ServedGrows
<1>8. remaining[e] \in Nat
  BY <1>1, <1>3
<1>9. /\ Range(cache') \subseteq Range(cache) \cup {e}
      /\ e \in Range(cache') <=> remaining[e] > 1
  BY <1>1, <1>6, <1>8
<1> QED
  BY <1>1, <1>2, <1>5, <1>6, <1>7, <1>9

\* A use keeps counter and calls served in step.
LEMMA UsesDelivered ==
  ASSUME TypeInv, CacheInv, UsesInv, NEW c \in Call, NEW b,
         Deliverable(c, b), Deliver(c, b), responses' = responses,
         \A x \in Call : task[x] \in {"result", "retired"}
                       => task'[x] \in {"result", "retired"}
  PROVE  CacheInv' /\ UsesInv'
<1>0. PICK e : e = Entry(c, b)
  OBVIOUS
<1>1. /\ e \in Call
      /\ e \in Range(cache) \/ task[e] = "result"
      /\ responses[e] > 0
      /\ CacheInv' /\ cache' \in Seq(Call)
      /\ Range(cache') \subseteq Range(cache) \cup {e}
      /\ e \in Range(cache') <=> remaining[e] > 1
      /\ remaining' = IF remaining[e] <= 1 THEN remaining
                      ELSE [remaining EXCEPT ![e] = @ - 1]
      /\ \A x \in Call : Cardinality(Served(x)) \in Nat
      /\ \A x \in Call \ {e} : Served(x)' = Served(x)
      /\ Cardinality(Served(e)') = Cardinality(Served(e)) + 1
  BY <1>0, OneUse
<1>2. remaining \in [Call -> 0 .. Width] /\ Width \in Nat
  BY ConstantsAssumption DEF TypeInv, TypeOK
<1>3. \A x \in Call : remaining[x] \in Nat
  BY <1>2
<1>4. ASSUME NEW x \in Call \ {e}
      PROVE  /\ remaining'[x] > 1 \/ x \in Range(cache') =>
                  remaining'[x] + Cardinality(Served(x)') = Width
             /\ responses'[x] > 0 =>
                  remaining'[x] > 0 /\ remaining'[x] + Cardinality(Served(x)') >= Width
             /\ task'[x] \notin {"result", "retired"} =>
                  Served(x)' = {} /\ x \notin Range(cache') /\ responses'[x] = 0
  <2>1. remaining'[x] = remaining[x]
    BY <1>1, <1>2
  <2>2. Served(x)' = Served(x) /\ (x \in Range(cache') => x \in Range(cache))
    BY <1>1
  <2> QED
    BY <2>1, <2>2 DEF UsesInv
<1>5. task[e] \in {"result", "retired"}
  BY <1>1 DEF UsesInv
<1>6. remaining[e] > 0 /\ remaining[e] + Cardinality(Served(e)) >= Width
  BY <1>1 DEF UsesInv
<1>7. CASE remaining[e] <= 1
  <2>1. remaining'[e] = remaining[e]
    BY <1>1, <1>7
  <2>2. /\ e \notin Range(cache') /\ ~(remaining'[e] > 1)
        /\ remaining'[e] + Cardinality(Served(e)') >= Width
        /\ remaining'[e] > 0
    BY <1>1, <1>2, <1>3, <1>6, <1>7, <2>1
  <2> QED
    BY <1>1, <1>4, <1>5, <2>2 DEF UsesInv
<1>8. CASE ~(remaining[e] <= 1)
  <2>1. remaining[e] > 1 /\ remaining'[e] = remaining[e] - 1
    BY <1>1, <1>2, <1>3, <1>8
  <2>2. remaining[e] + Cardinality(Served(e)) = Width
    BY <1>1, <2>1 DEF UsesInv
  <2> DEFINE n == Cardinality(Served(e))
             m == Cardinality(Served(e)')
  <2>3. n \in Nat /\ m = n + 1 /\ remaining[e] + n = Width /\ remaining[e] \in Nat
    BY <1>1, <1>3, <2>2
  <2> HIDE DEF n, m
  <2>4. remaining'[e] + m = Width /\ remaining'[e] > 0 /\ remaining'[e] + m >= Width
    BY <1>2, <2>1, <2>3
  <2> QED
    BY <1>1, <1>4, <1>5, <2>4 DEF UsesInv, m
<1> QED
  BY <1>7, <1>8

\* A step that uses no entry and at most shrinks the cache.
LEMMA UsesKept ==
  ASSUME UsesInv, remaining' = remaining, responses' = responses,
         Range(cache') \subseteq Range(cache),
         \A x \in Call : Served(x)' = Served(x),
         \A x \in Call : task[x] \in {"result", "retired"}
                       => task'[x] \in {"result", "retired"}
  PROVE  UsesInv'
BY DEF UsesInv

\* A call that is given an outcome, whichever it is.
LEMMA UsesAfterOutcome ==
  ASSUME TypeInv, CacheInv, UsesInv, NEW c \in Call, NEW b \in Call,
         call[c] \in {"idle", "waiting"}, GroupOf[b] = GroupOf[c],
         TakeOutcome(c, b), responses' = responses,
         \A x \in Call : task[x] \in {"result", "retired"}
                       => task'[x] \in {"result", "retired"}
  PROVE  CacheInv' /\ UsesInv'
<1>1. CASE task[b] = "result" /\ Deliver(c, b)
  BY <1>1, UsesDelivered DEF Deliverable
<1>2. CASE Refuse(c)
  <2>1. /\ call' = [call EXCEPT ![c] = "failed"] /\ source' = source
        /\ cache' = cache /\ remaining' = remaining
    BY <1>2 DEF Refuse, cacheVars
  <2>2. \A x \in Call : Served(x)' = Served(x)
    BY <2>1, ServedKept DEF TypeInv
  <2> QED
    BY <2>1, <2>2, UsesKept DEF CacheInv, OnePerGroup
<1> QED
  BY <1>1, <1>2 DEF TakeOutcome

-------------------------------------------------------------------------------
(* The inductive invariant.                                                *)

CountInv == GroupInv /\ CacheInv /\ UsesInv

\* A step that serves no call, uses no entry and at most empties the cache.
LEMMA CountKept ==
  ASSUME TypeInv, CountInv,
         cache' = cache \/ cache' = <<>>, remaining' = remaining,
         responses' = responses, call' = call, source' = source,
         \A g \in Group : registry'[g] \in {registry[g], None},
         \A x \in Call : task[x] \in {"result", "retired"}
                       => task'[x] \in {"result", "retired"}
  PROVE  CountInv'
<1>1. GroupInv'
  BY ConstantsAssumption DEF CountInv, GroupInv
<1>2. MaxCacheSize \in Nat
  BY ConstantsAssumption
<1>3. CacheInv' /\ Range(cache') \subseteq Range(cache)
  BY <1>2 DEF CountInv, CacheInv, OnePerGroup, Range
<1>4. \A x \in Call : Served(x)' = Served(x)
  BY DEF Served
<1>5. UsesInv'
  BY <1>3, <1>4, UsesKept DEF CountInv
<1> QED
  BY <1>1, <1>3, <1>5 DEF CountInv

\* A call that is given an outcome keeps every waiter with its own group.
LEMMA GroupAfterOutcome ==
  ASSUME TypeInv, GroupInv, NEW c \in Call, NEW b, registry' = registry,
         Deliver(c, b) \/ Refuse(c)
  PROVE  GroupInv'
<1>1. \A x \in Call : call'[x] = "waiting" => call[x] = "waiting" /\ source'[x] = source[x]
  BY DEF Deliver, Refuse, TypeInv, TypeOK
<1> QED
  BY <1>1 DEF GroupInv

LEMMA CountInit == Init => CountInv
<1> SUFFICES ASSUME Init
             PROVE  CountInv
  OBVIOUS
<1>1. Width \in Nat /\ MaxCacheSize \in Nat /\ Range(cache) = {} /\ Len(cache) = 0
  BY ConstantsAssumption DEF Init, Range
<1>2. \A b \in Call : Served(b) = {} /\ remaining[b] = 0 /\ responses[b] = 0
  BY DEF Init, Served
<1>3. UsesInv
  BY <1>1, <1>2 DEF UsesInv
<1>4. CacheInv
  BY <1>1 DEF CacheInv, OnePerGroup
<1>5. GroupInv
  BY DEF Init, GroupInv
<1> QED
  BY <1>3, <1>4, <1>5 DEF CountInv

LEMMA CountNext == TypeInv /\ CountInv /\ [Next]_vars => CountInv'
<1> SUFFICES ASSUME TypeInv, CountInv, [Next]_vars
             PROVE  CountInv'
  OBVIOUS
<1>1. /\ task \in [Call -> {"none", "stage1", "lock", "stage2", "result",
                            "error", "retired"}]
      /\ call \in [Call -> {"idle", "waiting", "served", "failed"}]
      /\ source \in [Call -> Call \cup {None}]
      /\ registry \in [Group -> Call \cup {None}]
      /\ remaining \in [Call -> 0 .. Width]
      /\ responses \in [Call -> 0 .. Width]
      /\ IdleCallHasNoTask
      /\ GroupOf \in [Call -> Group]
      /\ Width \in Nat \ {0}
      /\ None \notin Call
  BY ConstantsAssumption DEF TypeInv, TypeOK
<1>2. ASSUME NEW c \in Call, CallHits(c)
      PROVE  CountInv'
  <2>1. /\ call[c] = "idle" /\ Cached(GroupOf[c]) # {} /\ Deliver(c, None)
        /\ task' = task /\ responses' = responses /\ registry' = registry
    BY <1>2 DEF CallHits, MayArrive, sampleVars
  <2>2. CacheInv' /\ UsesInv'
    BY <2>1, UsesDelivered DEF CountInv, Deliverable
  <2> QED
    BY <2>1, <2>2, GroupAfterOutcome DEF CountInv
<1>3. ASSUME NEW c \in Call, CallJoins(c)
      PROVE  CountInv'
  <2>1. /\ call[c] = "idle" /\ registry[GroupOf[c]] # None
        /\ call' = [call EXCEPT ![c] = "waiting"]
        /\ source' = [source EXCEPT ![c] = registry[GroupOf[c]]]
        /\ task' = task /\ responses' = responses /\ registry' = registry
        /\ cache' = cache /\ remaining' = remaining
    BY <1>3 DEF CallJoins, MayArrive, cacheVars, sampleVars
  <2>2. GroupInv'
    BY <1>1, <2>1 DEF CountInv, GroupInv
  <2>3. \A x \in Call : Served(x)' = Served(x)
    BY <1>1, <2>1, ServedKept DEF TypeInv
  <2>4. UsesInv'
    BY <2>1, <2>3, UsesKept DEF CountInv
  <2> QED
    BY <2>1, <2>2, <2>4 DEF CountInv, CacheInv, OnePerGroup
<1>4. ASSUME NEW c \in Call, CallFindsFinished(c)
      PROVE  CountInv'
  <2> DEFINE b == registry[GroupOf[c]]
  <2>1. /\ call[c] = "idle" /\ b # None /\ b \in Call /\ TakeOutcome(c, b)
        /\ task' = task /\ responses' = responses /\ registry' = registry
    BY <1>1, <1>4 DEF CallFindsFinished, MayArrive, sampleVars
  <2>2. GroupOf[b] = GroupOf[c]
    BY <1>1, <2>1 DEF CountInv, GroupInv
  <2> HIDE DEF b
  <2>3. CacheInv' /\ UsesInv'
    BY <2>1, <2>2, UsesAfterOutcome DEF CountInv
  <2> QED
    BY <2>1, <2>3, GroupAfterOutcome DEF CountInv, TakeOutcome
<1>5. ASSUME NEW c \in Call, CallBuilds(c)
      PROVE  CountInv'
  <2>1. /\ call[c] = "idle"
        /\ call' = [call EXCEPT ![c] = "waiting"]
        /\ source' = [source EXCEPT ![c] = c]
        /\ task' = [task EXCEPT ![c] = "stage1"]
        /\ registry' = [registry EXCEPT ![GroupOf[c]] = c]
        /\ responses' = responses /\ cache' = cache /\ remaining' = remaining
    BY <1>5 DEF CallBuilds, MayArrive, cacheVars, sampleVars
  <2>2. GroupInv'
    BY <1>1, <2>1 DEF CountInv, GroupInv
  <2>3. \A x \in Call : Served(x)' = Served(x)
    BY <1>1, <2>1, ServedKept DEF TypeInv
  <2>4. \A x \in Call : task[x] \in {"result", "retired"}
                      => task'[x] \in {"result", "retired"}
    BY <1>1, <2>1 DEF IdleCallHasNoTask
  <2>5. UsesInv'
    BY <2>1, <2>3, <2>4, UsesKept DEF CountInv
  <2> QED
    BY <2>1, <2>2, <2>5 DEF CountInv, CacheInv, OnePerGroup
<1>6. ASSUME NEW r \in Request, RequestStep(r)
      PROVE  CountInv'
  <2>1. UNCHANGED <<callVars, task, registry, cacheVars, sampleVars>>
    BY <1>6 DEF RequestStep, Acquire, BeamEnds
  <2> QED
    BY <2>1, CountKept DEF callVars, cacheVars, sampleVars
<1>7. ASSUME NEW b \in Call, Stage1Returns(b) \/ Stage1Raises(b) \/ UnwindWaiting(b)
      PROVE  CountInv'
  <2>1. /\ UNCHANGED <<callVars, registry, cacheVars, responses>>
        /\ task[b] \in {"stage1", "lock"}
        /\ \E s \in {"lock", "error"} : task' = [task EXCEPT ![b] = s]
    BY <1>7 DEF Stage1Returns, Stage1Raises, UnwindWaiting, sampleVars
  <2>2. \A x \in Call : task[x] \in {"result", "retired"}
                      => task'[x] \in {"result", "retired"}
    BY <1>1, <2>1
  <2> QED
    BY <2>1, <2>2, CountKept DEF callVars, cacheVars
<1>8. ASSUME NEW b \in Call, TakeLock(b) \/ SendStep(b) \/ FailSearch(b)
      PROVE  CountInv'
  <2>1. /\ UNCHANGED <<callVars, registry, cacheVars, responses>>
        /\ task[b] \in {"lock", "stage2"}
        /\ task' = task \/ \E s \in {"stage2", "error"} : task' = [task EXCEPT ![b] = s]
    BY <1>8 DEF TakeLock, SendStep, StepReturned, FailSearch, sampleVars
  <2>2. \A x \in Call : task[x] \in {"result", "retired"}
                      => task'[x] \in {"result", "retired"}
    BY <1>1, <2>1
  <2> QED
    BY <2>1, <2>2, CountKept DEF callVars, cacheVars
<1>9. ASSUME NEW b \in Call, FinishSearch(b)
      PROVE  CountInv'
  <2>1. /\ task[b] = "stage2" /\ task' = [task EXCEPT ![b] = "result"]
        /\ remaining' = [remaining EXCEPT ![b] = Width]
        /\ call' = call /\ source' = source /\ registry' = registry /\ cache' = cache
        /\ \E n \in 1 .. Width : responses' = [responses EXCEPT ![b] = n]
    BY <1>9 DEF FinishSearch, StepReturned, callVars
  <2>2. GroupInv' /\ CacheInv'
    BY <2>1 DEF CountInv, GroupInv, CacheInv, OnePerGroup
  <2>3. \A x \in Call : Served(x)' = Served(x)
    BY <2>1 DEF Served
  <2>4. Served(b) = {} /\ Cardinality(Served(b)) = 0
    BY <2>1, FS_EmptySet DEF CountInv, UsesInv
  <2>5. /\ remaining'[b] = Width /\ task'[b] = "result"
        /\ \A x \in Call \ {b} : /\ remaining'[x] = remaining[x]
                                 /\ responses'[x] = responses[x]
                                 /\ task'[x] = task[x]
    BY <1>1, <2>1
  <2>6. remaining'[b] > 0 /\ remaining'[b] + Cardinality(Served(b)') = Width
        /\ remaining'[b] + Cardinality(Served(b)') >= Width
    BY <1>1, <2>3, <2>4, <2>5
  <2>7. UsesInv'
    BY <2>1, <2>3, <2>5, <2>6 DEF CountInv, UsesInv
  <2> QED
    BY <2>2, <2>7 DEF CountInv
<1>10. ASSUME NEW b \in Call, StartDrain(b)
       PROVE  CountInv'
  <2>1. /\ UNCHANGED <<callVars, task, cacheVars, sampleVars>>
        /\ registry' = [g \in Group |-> IF registry[g] = b THEN None ELSE registry[g]]
    BY <1>10 DEF StartDrain
  <2> QED
    BY <2>1, CountKept DEF callVars, cacheVars, sampleVars
<1>11. ASSUME NEW c \in Call, ResumeWaiter(c)
       PROVE  CountInv'
  <2> DEFINE b == draining
  <2>1. /\ call[c] = "waiting" /\ source[c] = b /\ TakeOutcome(c, b)
        /\ task' = task \/ task' = [task EXCEPT ![b] = "retired"]
        /\ responses' = responses /\ registry' = registry
    BY <1>11 DEF ResumeWaiter, Waiters, sampleVars
  <2>2. b \in Call /\ GroupOf[b] = GroupOf[c]
    BY <2>1 DEF CountInv, GroupInv
  <2> HIDE DEF b
  <2>3. \A x \in Call : task[x] \in {"result", "retired"}
                      => task'[x] \in {"result", "retired"}
    BY <1>1, <2>1
  <2>4. CacheInv' /\ UsesInv'
    BY <2>1, <2>2, <2>3, UsesAfterOutcome DEF CountInv
  <2> QED
    BY <2>1, <2>4, GroupAfterOutcome DEF CountInv, TakeOutcome
<1>12. ASSUME StartUpdate \/ UpdateStep
       PROVE  CountInv'
  <2>1. /\ UNCHANGED <<callVars, task, remaining, responses>>
        /\ cache' = cache \/ cache' = <<>>
        /\ registry' = registry \/ registry' = [g \in Group |-> None]
    BY <1>12 DEF StartUpdate, UpdateStep, ClearAfterGather, AbortEngine, SyncWeights,
       ResumeGeneration, ClearServerState, sampleVars, cacheVars
  <2> QED
    BY <2>1, CountKept DEF callVars
<1>13. CASE UNCHANGED vars
  BY <1>13, CountKept DEF vars, callVars, cacheVars, sampleVars
<1> QED
  BY <1>2, <1>3, <1>4, <1>5, <1>6, <1>7, <1>8, <1>9, <1>10, <1>11, <1>12, <1>13
  DEF Next, CallArrives, ServerStep, BuildStep, Rest

LEMMA CountAlways == Spec => [](TypeInv /\ CountInv)
<1>1. Init => TypeInv /\ CountInv
  BY TypeInvInit, CountInit
<1>2. TypeInv /\ CountInv /\ [Next]_vars => (TypeInv /\ CountInv)'
  BY TypeInvNext, CountNext
<1> QED
  BY <1>1, <1>2, PTL DEF Spec

\* The counter of a cached entry is what is left of its Width uses, however
\* hits, waiters, evictions, late returns of an evicted entry and aborts
\* follow each other (cache_entry["remaining"]).
THEOREM RemainingAlwaysMatchesUses == Spec => []RemainingMatchesUses
<1>1. TypeInv /\ CountInv => RemainingMatchesUses
  <2>1. TypeInv => Range(cache) \subseteq Call
    BY SeqRange DEF TypeInv, TypeOK
  <2> QED
    BY <2>1 DEF CountInv, UsesInv, RemainingMatchesUses
<1> QED
  BY <1>1, CountAlways, PTL

\* The cache keeps within its limit with one entry per group, also when a late
\* waiter puts an entry back (_trim_two_stage_cache).
THEOREM CacheAlwaysBounded == Spec => []CacheBounded
<1>1. TypeInv /\ CountInv => CacheBounded
  <2>1. TypeInv => cache \in Seq(Call) /\ DOMAIN cache = 1 .. Len(cache)
    BY DEF TypeInv, TypeOK
  <2> QED
    BY <2>1, Zenon DEF CountInv, CacheInv, OnePerGroup, CacheBounded
<1> QED
  BY <1>1, CountAlways, PTL

-------------------------------------------------------------------------------
(* The server implements SharedSamples.                                    *)

\* The mapping, by name.
openBar == [g \in Group |->
              IF Cached(g) = {} THEN None ELSE CHOOSE b \in Cached(g) : TRUE]
usesBar == [b \in Call |-> Cardinality(Served(b))]
sourceBar == [c \in Call |-> IF call[c] = "served" THEN source[c] ELSE None]

\* The one entry of a group is the group's open sample.
OpenFollowsCache ==
  /\ openBar \in [Group -> Call \cup {None}]
  /\ \A g \in Group : openBar[g] = None <=> Cached(g) = {}
  /\ \A g \in Group : \A b \in Cached(g) : openBar[g] = b

LEMMA OpenIsCached == TypeInv /\ CacheInv => OpenFollowsCache
<1> SUFFICES ASSUME TypeInv, CacheInv
             PROVE  OpenFollowsCache
  OBVIOUS
<1>1. cache \in Seq(Call) /\ Range(cache) \subseteq Call /\ DOMAIN cache = 1 .. Len(cache)
  <2>1. cache \in Seq(Call)
    BY DEF TypeInv, TypeOK
  <2> QED
    BY <2>1, SeqRange
<1>2. None \notin Call
  BY ConstantsAssumption
<1>3. \A g \in Group : \A a, b \in Cached(g) : a = b
  BY <1>1 DEF Cached, CacheInv, OnePerGroup, Range
<1>4. ASSUME NEW g \in Group
      PROVE  /\ openBar[g] \in Call \cup {None}
             /\ openBar[g] = None <=> Cached(g) = {}
             /\ \A b \in Cached(g) : openBar[g] = b
  <2>1. openBar[g] = IF Cached(g) = {} THEN None ELSE CHOOSE b \in Cached(g) : TRUE
    BY DEF openBar
  <2>2. Cached(g) \subseteq Call
    BY <1>1 DEF Cached
  <2> QED
    BY <1>2, <1>3, <2>1, <2>2
<1> QED
  BY <1>4 DEF openBar, OpenFollowsCache

\* Using an entry answers a call from its group's open sample, or opens one.
LEMMA DeliverAnswers ==
  ASSUME TypeInv, CountInv, NEW c \in Call, NEW b,
         Deliverable(c, b), Deliver(c, b), TypeInv'
  PROVE  \E s \in Call : Promise!Answer(c, s)
<1>0. PICK e : e = Entry(c, b)
  OBVIOUS
<1>1. /\ e \in Call /\ GroupOf[e] = GroupOf[c]
      /\ e \in Range(cache) \/ task[e] = "result"
      /\ responses[e] > 0
      /\ CacheInv' /\ cache' \in Seq(Call)
      /\ Range(cache') \subseteq Range(cache) \cup {e}
      /\ e \in Range(cache') <=> remaining[e] > 1
      /\ \A x \in Call : Cardinality(Served(x)) \in Nat
      /\ \A x \in Call \ {e} : Served(x)' = Served(x)
      /\ Cardinality(Served(e)') = Cardinality(Served(e)) + 1
      /\ call' = [call EXCEPT ![c] = "served"]
      /\ source' = [source EXCEPT ![c] = e]
  BY <1>0, OneUse DEF CountInv
<1>2. /\ remaining \in [Call -> 0 .. Width] /\ Width \in Nat
      /\ call \in [Call -> {"idle", "waiting", "served", "failed"}]
      /\ source \in [Call -> Call \cup {None}]
      /\ None \notin Call /\ GroupOf \in [Call -> Group]
  BY ConstantsAssumption DEF TypeInv, TypeOK
<1> DEFINE g == GroupOf[c]
<1>3. /\ openBar \in [Group -> Call \cup {None}]
      /\ \A h \in Group : openBar[h] = None <=> Cached(h) = {}
      /\ \A h \in Group : \A x \in Cached(h) : openBar[h] = x
  BY OpenIsCached DEF CountInv, OpenFollowsCache
<1>4. /\ openBar' \in [Group -> Call \cup {None}]
      /\ \A h \in Group : openBar'[h] = None <=> Cached(h)' = {}
      /\ \A h \in Group : \A x \in Cached(h)' : openBar'[h] = x
  <2>1. (TypeInv /\ CacheInv => OpenFollowsCache)'
    BY OpenIsCached, PTL
  <2> QED
    BY <1>1, <2>1 DEF OpenFollowsCache
<1>5. call[c] \in {"idle", "waiting"}
  BY DEF Deliverable
<1>6. openBar[g] \in {None, e}
  <2>1. CASE Cached(g) = {}
    BY <1>2, <1>3, <2>1
  <2>2. CASE Cached(g) # {}
    BY <1>0, <1>2, <1>3, <2>2 DEF Entry
  <2> QED
    BY <2>1, <2>2
<1>7. sourceBar' = [sourceBar EXCEPT ![c] = e]
  BY <1>1, <1>2 DEF sourceBar
<1>8. usesBar' = [usesBar EXCEPT ![e] = @ + 1]
  BY <1>1 DEF usesBar
<1>9. openBar'[g] = IF usesBar[e] + 1 < Width THEN e ELSE None
  <2> DEFINE n == Cardinality(Served(e))
  <2>1. usesBar[e] = n /\ n \in Nat
    BY <1>1 DEF usesBar
  <2>2. remaining[e] \in Nat /\ remaining[e] > 0 /\ remaining[e] + n >= Width
    BY <1>1, <1>2 DEF CountInv, UsesInv
  <2>3. remaining[e] > 1 => remaining[e] + n = Width
    BY <1>1 DEF CountInv, UsesInv
  <2> HIDE DEF n
  <2>4. CASE remaining[e] > 1
    <3>1. n + 1 < Width
      BY <1>2, <2>1, <2>2, <2>3, <2>4
    <3>2. e \in Cached(g)'
      BY <1>1, <2>4 DEF Cached
    <3> QED
      BY <1>2, <1>4, <2>1, <3>1, <3>2
  <2>5. CASE ~(remaining[e] > 1)
    <3>1. ~(n + 1 < Width)
      BY <1>2, <2>1, <2>2, <2>5
    <3>2. \A x \in Cached(g) : x = e
      BY <1>2, <1>3, <1>6
    <3>3. Cached(g)' = {}
      BY <1>1, <2>5, <3>2 DEF Cached
    <3> QED
      BY <1>2, <1>4, <2>1, <3>1, <3>3
  <2> QED
    BY <2>4, <2>5
<1>10. ASSUME NEW h \in Group \ {g}
       PROVE  openBar'[h] \in {openBar[h], None}
  <2>1. Cached(h)' \subseteq Cached(h)
    BY <1>1 DEF Cached
  <2> QED
    BY <1>3, <1>4, <2>1
<1>11. Promise!Answer(c, e)
  BY <1>1, <1>4, <1>5, <1>6, <1>7, <1>8, <1>9, <1>10
  DEF Promise!Answer, Promise!OthersMayDrop, openBar, usesBar, sourceBar
<1> QED
  BY <1>1, <1>11

\* A call that is given an outcome is answered or refused.
LEMMA OutcomeAnswers ==
  ASSUME TypeInv, CountInv, NEW c \in Call, NEW b \in Call,
         call[c] \in {"idle", "waiting"}, GroupOf[b] = GroupOf[c],
         TakeOutcome(c, b), TypeInv'
  PROVE  Promise!Next
<1>1. CASE task[b] = "result" /\ Deliver(c, b)
  <2>1. Deliverable(c, b)
    BY <1>1 DEF Deliverable
  <2>2. \E s \in Call : Promise!Answer(c, s)
    BY <1>1, <2>1, DeliverAnswers
  <2> QED
    BY <2>2 DEF Promise!Next
<1>2. CASE Refuse(c)
  <2>1. /\ call' = [call EXCEPT ![c] = "failed"]
        /\ source' = source /\ cache' = cache
    BY <1>2 DEF Refuse, cacheVars
  <2>2. call \in [Call -> {"idle", "waiting", "served", "failed"}]
    BY DEF TypeInv, TypeOK
  <2>3. sourceBar' = sourceBar
    BY <2>1, <2>2 DEF sourceBar
  <2>4. \A x \in Call : Served(x)' = Served(x)
    BY <2>1, ServedKept DEF TypeInv
  <2>5. usesBar' = usesBar /\ openBar' = openBar
    BY <2>1, <2>4 DEF usesBar, openBar, Cached
  <2>6. Promise!Refuse(c)
    BY <2>1, <2>3, <2>5 DEF Promise!Refuse, sourceBar, usesBar, openBar
  <2> QED
    BY <2>6 DEF Promise!Next
<1> QED
  BY <1>1, <1>2 DEF TakeOutcome

\* A call that starts to wait.
LEMMA WaitingAwaits ==
  ASSUME TypeInv, NEW c \in Call, call[c] = "idle",
         call' = [call EXCEPT ![c] = "waiting"],
         NEW b, source' = [source EXCEPT ![c] = b], cache' = cache
  PROVE  Promise!Next
<1>1. /\ call \in [Call -> {"idle", "waiting", "served", "failed"}]
      /\ source \in [Call -> Call \cup {None}]
  BY DEF TypeInv, TypeOK
<1>2. sourceBar' = sourceBar
  BY <1>1 DEF sourceBar
<1>3. \A x \in Call : Served(x)' = Served(x)
  BY <1>1, ServedKept DEF TypeInv
<1>4. usesBar' = usesBar /\ openBar' = openBar
  BY <1>3 DEF usesBar, openBar, Cached
<1>5. Promise!Await(c)
  BY <1>2, <1>4 DEF Promise!Await, sourceBar, usesBar, openBar
<1> QED
  BY <1>5 DEF Promise!Next

\* A step that leaves the calls and the cache alone is none of the promise's.
LEMMA RestStutters ==
  ASSUME call' = call, source' = source, cache' = cache
  PROVE  UNCHANGED Promise!vars
BY DEF Promise!vars, Served, Cached

\* An abort that clears the cache drops the open samples.
LEMMA ClearingDrops ==
  ASSUME TypeInv, CacheInv, TypeInv', CacheInv',
         call' = call, source' = source, cache' = <<>>
  PROVE  Promise!Next
<1>1. Range(cache') = {}
  BY DEF Range
<1>2. \A g \in Group : openBar'[g] = None
  BY <1>1 DEF openBar, Cached
<1>3. openBar' \in [Group -> Call \cup {None}]
  <2>1. (TypeInv /\ CacheInv => OpenFollowsCache)'
    BY OpenIsCached, PTL
  <2> QED
    BY <2>1 DEF OpenFollowsCache
<1>4. sourceBar' = sourceBar /\ usesBar' = usesBar
  BY DEF sourceBar, usesBar, Served
<1>5. Promise!Drop
  BY <1>2, <1>3, <1>4 DEF Promise!Drop, sourceBar, usesBar, openBar
<1> QED
  BY <1>5 DEF Promise!Next

LEMMA PromiseInit == Init => Promise!Init
<1> SUFFICES ASSUME Init
             PROVE  Promise!Init
  OBVIOUS
<1>1. \A g \in Group : Cached(g) = {}
  BY DEF Init, Cached, Range
<1>2. \A b \in Call : Cardinality(Served(b)) = 0
  <2>1. \A b \in Call : Served(b) = {}
    BY DEF Init, Served
  <2> QED
    BY <2>1, FS_EmptySet
<1>3. \A c \in Call : call[c] = "idle"
  BY DEF Init
<1> QED
  BY <1>1, <1>2, <1>3 DEF Init, Promise!Init

LEMMA PromiseStep ==
  TypeInv /\ CountInv /\ [Next]_vars /\ TypeInv' /\ CountInv'
    => [Promise!Next]_(Promise!vars)
<1> SUFFICES ASSUME TypeInv, CountInv, [Next]_vars, TypeInv', CountInv'
             PROVE  Promise!Next \/ UNCHANGED Promise!vars
  OBVIOUS
<1>1. ASSUME NEW c \in Call, CallHits(c)
      PROVE  Promise!Next
  <2>1. call[c] = "idle" /\ Cached(GroupOf[c]) # {} /\ Deliver(c, None)
    BY <1>1 DEF CallHits, MayArrive
  <2>2. Deliverable(c, None)
    BY <2>1 DEF Deliverable
  <2>3. \E s \in Call : Promise!Answer(c, s)
    BY <2>1, <2>2, DeliverAnswers
  <2> QED
    BY <2>3 DEF Promise!Next
<1>2. ASSUME NEW c \in Call, CallJoins(c) \/ CallBuilds(c)
      PROVE  Promise!Next
  <2>1. /\ call[c] = "idle" /\ call' = [call EXCEPT ![c] = "waiting"]
        /\ \/ source' = [source EXCEPT ![c] = registry[GroupOf[c]]]
           \/ source' = [source EXCEPT ![c] = c]
        /\ cache' = cache
    BY <1>2 DEF CallJoins, CallBuilds, MayArrive, cacheVars
  <2> QED
    BY <2>1, WaitingAwaits
<1>3. ASSUME NEW c \in Call, CallFindsFinished(c)
      PROVE  Promise!Next
  <2> DEFINE b == registry[GroupOf[c]]
  <2>1. call[c] = "idle" /\ b # None /\ TakeOutcome(c, b)
    BY <1>3 DEF CallFindsFinished, MayArrive
  <2>2. GroupOf[c] \in Group /\ registry \in [Group -> Call \cup {None}]
    BY ConstantsAssumption DEF TypeInv, TypeOK
  <2>3. b \in Call /\ GroupOf[b] = GroupOf[c]
    BY <2>1, <2>2 DEF CountInv, GroupInv
  <2> HIDE DEF b
  <2> QED
    BY <2>1, <2>3, OutcomeAnswers
<1>4. ASSUME NEW c \in Call, ResumeWaiter(c)
      PROVE  Promise!Next
  <2> DEFINE b == draining
  <2>1. call[c] = "waiting" /\ source[c] = b /\ TakeOutcome(c, b)
    BY <1>4 DEF ResumeWaiter, Waiters
  <2>2. b \in Call /\ GroupOf[b] = GroupOf[c]
    BY <2>1 DEF CountInv, GroupInv
  <2> HIDE DEF b
  <2> QED
    BY <2>1, <2>2, OutcomeAnswers
<1>5. ASSUME \/ \E r \in Request : RequestStep(r)
             \/ \E b \in Call : BuildStep(b)
             \/ AbortEngine \/ SyncWeights \/ ResumeGeneration
             \/ UNCHANGED vars
      PROVE  UNCHANGED Promise!vars
  <2>1. call' = call /\ source' = source /\ cache' = cache
    BY <1>5 DEF RequestStep, Acquire, BeamEnds, BuildStep, Stage1Returns,
       Stage1Raises, TakeLock, SendStep, FinishSearch, FailSearch, UnwindWaiting,
       StartDrain, AbortEngine, SyncWeights, ResumeGeneration, vars, callVars, cacheVars
  <2> QED
    BY <2>1, RestStutters
<1>6. ASSUME StartUpdate \/ ClearAfterGather
      PROVE  Promise!Next \/ UNCHANGED Promise!vars
  <2>1. call' = call /\ source' = source /\ (cache' = cache \/ cache' = <<>>)
    BY <1>6 DEF StartUpdate, ClearAfterGather, ClearServerState, callVars
  <2> QED
    BY <2>1, RestStutters, ClearingDrops DEF CountInv
<1> QED
  BY <1>1, <1>2, <1>3, <1>4, <1>5, <1>6
  DEF Next, CallArrives, ServerStep, UpdateStep, Rest

\* The server keeps the promise of SharedSamples for every value of the
\* constants: tasks, lock, permits, counters, eviction and weight updates are
\* invisible to the calls of a group but for the samples that are dropped
\* (the class comment of TwoStagevLLMHttpServer).
THEOREM PromiseAlwaysKept == Spec => KeepsPromise
<1>1. TypeInv /\ CountInv /\ [Next]_vars /\ TypeInv' /\ CountInv'
      => [Promise!Next]_(Promise!vars)
  BY PromiseStep
<1> QED
  BY <1>1, PromiseInit, CountAlways, PTL DEF Spec, KeepsPromise, Promise!Spec

-------------------------------------------------------------------------------
(* One open sample per group, when nothing is evicted and nothing aborted. *)

\* The cache has room for every group, and no weight update starts.
Roomy ==
  /\ IsFiniteSet(Group)
  /\ Cardinality(Group) <= MaxCacheSize
  /\ MaxUpdates = 0

\* A sample that has served some calls but not all is in the cache.
OpenInv == \A b \in Call : Opened(b) => b \in Range(cache)

\* A list with one entry per group is no longer than there are groups.
LEMMA NoMoreThanGroups ==
  ASSUME NEW s \in Seq(Call), OnePerGroup(s), IsFiniteSet(Group)
  PROVE  Len(s) <= Cardinality(Group)
<1>1. Len(s) \in Nat /\ Cardinality(Group) \in Nat
  BY FS_CardinalityType
<1>2. IsFiniteSet(1 .. Len(s)) /\ Cardinality(1 .. Len(s)) = Len(s)
  <2>0. 1 \in Int /\ Len(s) \in Int
    BY <1>1
  <2>1. /\ IsFiniteSet(1 .. Len(s))
        /\ Cardinality(1 .. Len(s)) = IF 1 > Len(s) THEN 0 ELSE Len(s) - 1 + 1
    BY <2>0, FS_Interval
  <2> QED
    BY <1>1, <2>1
<1>3. SUFFICES ASSUME Cardinality(Group) < Len(s)
               PROVE  FALSE
  BY <1>1
<1> DEFINE f == [i \in 1 .. Len(s) |-> GroupOf[s[i]]]
<1>4. f \in [1 .. Len(s) -> Group]
  BY ConstantsAssumption
<1> HIDE DEF f
<1>5. PICK i, j \in 1 .. Len(s) : i # j /\ f[i] = f[j]
  BY <1>2, <1>3, <1>4, FS_PigeonHole
<1> QED
  BY <1>5 DEF OnePerGroup, f

\* With room for every group a use takes out no entry but the one it uses up.
LEMMA NothingEvicted ==
  ASSUME Roomy, TypeInv, CacheInv, NEW c \in Call, NEW b,
         Deliverable(c, b), Deliver(c, b), NEW e, e = Entry(c, b)
  PROVE  Range(cache) \ {e} \subseteq Range(cache')
<1>1. /\ e \in Call
      /\ Inserted(c, b) \in Seq(Call)
      /\ Len(Inserted(c, b)) <= MaxCacheSize
      /\ OnePerGroup(Inserted(c, b))
      /\ e \in Range(Inserted(c, b))
  BY InsertedEntries
<1>2. cache \in Seq(Call) /\ remaining \in [Call -> 0 .. Width]
  BY DEF TypeInv, TypeOK
<1>3. Range(cache) \subseteq Range(Inserted(c, b))
  <2>1. CASE Cached(GroupOf[c]) # {}
    BY <2>1 DEF Inserted
  <2>2. CASE Cached(GroupOf[c]) = {}
    <3> DEFINE longer == Append(cache, b)
    <3>1. /\ b \in Call /\ GroupOf[b] = GroupOf[c]
          /\ Inserted(c, b) = Trim(longer)
      BY <2>2 DEF Deliverable, Inserted
    <3>2. \A x \in Range(cache) : GroupOf[x] # GroupOf[b]
      BY <2>2, <3>1 DEF Cached
    <3>3. /\ longer \in Seq(Call) /\ OnePerGroup(longer)
          /\ Range(longer) = Range(cache) \cup {b}
          /\ longer # <<>>
      BY <1>2, <3>1, <3>2, AppendOnePerGroup DEF CacheInv
    <3> HIDE DEF longer
    <3>4. Len(longer) <= MaxCacheSize
      <4>1. Len(longer) <= Cardinality(Group)
        BY <3>3, NoMoreThanGroups DEF Roomy
      <4>2. Len(longer) \in Nat /\ Cardinality(Group) \in Nat /\ MaxCacheSize \in Nat
        BY <3>3, ConstantsAssumption, FS_CardinalityType DEF Roomy
      <4> QED
        BY <4>1, <4>2 DEF Roomy
    <3>5. Trim(longer) = longer
      BY <3>3, <3>4, TrimOnePerGroup
    <3> QED
      BY <3>1, <3>3, <3>5
  <2> QED
    BY <2>1, <2>2
<1>4. Spend(Inserted(c, b), e)
  BY DEF Deliver
<1>5. Range(cache') = IF remaining[e] <= 1 THEN Range(Inserted(c, b)) \ {e}
                      ELSE Range(Inserted(c, b))
  BY <1>1, <1>2, <1>4, SpendCache
<1> QED
  BY <1>3, <1>5

LEMMA OpenDelivered ==
  ASSUME Roomy, TypeInv, CountInv, OpenInv, NEW c \in Call, NEW b,
         Deliverable(c, b), Deliver(c, b)
  PROVE  OpenInv'
<1>0. PICK e : e = Entry(c, b)
  OBVIOUS
<1>1. /\ e \in Call /\ responses[e] > 0
      /\ e \in Range(cache') <=> remaining[e] > 1
      /\ \A x \in Call : Cardinality(Served(x)) \in Nat
      /\ \A x \in Call \ {e} : Served(x)' = Served(x)
      /\ Cardinality(Served(e)') = Cardinality(Served(e)) + 1
  BY <1>0, OneUse DEF CountInv
<1>2. Range(cache) \ {e} \subseteq Range(cache')
  BY <1>0, NothingEvicted DEF CountInv
<1>3. ASSUME NEW x \in Call \ {e}, Opened(x)'
      PROVE  x \in Range(cache')
  BY <1>1, <1>2, <1>3 DEF Opened, OpenInv
<1>4. ASSUME Opened(e)'
      PROVE  e \in Range(cache')
  <2> DEFINE n == Cardinality(Served(e))
  <2>1. remaining[e] > 0 /\ remaining[e] + n >= Width /\ n \in Nat
    BY <1>1 DEF CountInv, UsesInv
  <2>2. n + 1 \in 1 .. Width - 1
    BY <1>1, <1>4 DEF Opened
  <2>3. remaining[e] \in Nat /\ Width \in Nat
    BY <1>1, ConstantsAssumption DEF TypeInv, TypeOK
  <2> HIDE DEF n
  <2>4. remaining[e] > 1
    BY <2>1, <2>2, <2>3
  <2> QED
    BY <1>1, <2>4
<1> QED
  BY <1>3, <1>4 DEF OpenInv

LEMMA OpenAfterOutcome ==
  ASSUME Roomy, TypeInv, CountInv, OpenInv, NEW c \in Call, NEW b \in Call,
         call[c] \in {"idle", "waiting"}, GroupOf[b] = GroupOf[c],
         TakeOutcome(c, b)
  PROVE  OpenInv'
<1>1. CASE task[b] = "result" /\ Deliver(c, b)
  BY <1>1, OpenDelivered DEF Deliverable
<1>2. CASE Refuse(c)
  <2>1. /\ call' = [call EXCEPT ![c] = "failed"] /\ source' = source
        /\ cache' = cache
    BY <1>2 DEF Refuse, cacheVars
  <2>2. \A x \in Call : Served(x)' = Served(x)
    BY <2>1, ServedKept DEF TypeInv
  <2> QED
    BY <2>1, <2>2 DEF OpenInv, Opened
<1> QED
  BY <1>1, <1>2 DEF TakeOutcome

LEMMA OpenNext ==
  ASSUME Roomy
  PROVE  TypeInv /\ CountInv /\ OpenInv /\ [Next]_vars => OpenInv'
<1> SUFFICES ASSUME TypeInv, CountInv, OpenInv, [Next]_vars
             PROVE  OpenInv'
  OBVIOUS
<1>1. ASSUME NEW c \in Call, CallHits(c)
      PROVE  OpenInv'
  BY <1>1, OpenDelivered DEF CallHits, MayArrive, Deliverable
<1>2. ASSUME NEW c \in Call, CallJoins(c) \/ CallBuilds(c)
      PROVE  OpenInv'
  <2>1. /\ call[c] = "idle" /\ call' = [call EXCEPT ![c] = "waiting"]
        /\ \/ source' = [source EXCEPT ![c] = registry[GroupOf[c]]]
           \/ source' = [source EXCEPT ![c] = c]
        /\ cache' = cache
    BY <1>2 DEF CallJoins, CallBuilds, MayArrive, cacheVars
  <2>2. source \in [Call -> Call \cup {None}]
    BY DEF TypeInv, TypeOK
  <2>3. \A x \in Call : Served(x)' = Served(x)
    BY <2>1, <2>2, ServedKept DEF TypeInv
  <2> QED
    BY <2>1, <2>3 DEF OpenInv, Opened
<1>3. ASSUME NEW c \in Call, CallFindsFinished(c)
      PROVE  OpenInv'
  <2> DEFINE b == registry[GroupOf[c]]
  <2>1. call[c] = "idle" /\ b # None /\ TakeOutcome(c, b)
    BY <1>3 DEF CallFindsFinished, MayArrive
  <2>2. GroupOf[c] \in Group /\ registry \in [Group -> Call \cup {None}]
    BY ConstantsAssumption DEF TypeInv, TypeOK
  <2>3. b \in Call /\ GroupOf[b] = GroupOf[c]
    BY <2>1, <2>2 DEF CountInv, GroupInv
  <2> HIDE DEF b
  <2> QED
    BY <2>1, <2>3, OpenAfterOutcome
<1>4. ASSUME NEW c \in Call, ResumeWaiter(c)
      PROVE  OpenInv'
  <2> DEFINE b == draining
  <2>1. call[c] = "waiting" /\ source[c] = b /\ TakeOutcome(c, b)
    BY <1>4 DEF ResumeWaiter, Waiters
  <2>2. b \in Call /\ GroupOf[b] = GroupOf[c]
    BY <2>1 DEF CountInv, GroupInv
  <2> HIDE DEF b
  <2> QED
    BY <2>1, <2>2, OpenAfterOutcome
<1>5. ASSUME \/ \E r \in Request : RequestStep(r)
             \/ \E b \in Call : BuildStep(b)
             \/ AbortEngine \/ SyncWeights \/ ResumeGeneration
             \/ UNCHANGED vars
      PROVE  OpenInv'
  <2>1. call' = call /\ source' = source /\ cache' = cache
    BY <1>5 DEF RequestStep, Acquire, BeamEnds, BuildStep, Stage1Returns,
       Stage1Raises, TakeLock, SendStep, FinishSearch, FailSearch, UnwindWaiting,
       StartDrain, AbortEngine, SyncWeights, ResumeGeneration, vars, callVars, cacheVars
  <2> QED
    BY <2>1 DEF OpenInv, Opened, Served
<1>6. ASSUME StartUpdate \/ ClearAfterGather
      PROVE  FALSE
  <2>1. weights < MaxUpdates
    BY <1>6 DEF StartUpdate, ClearAfterGather, TypeInv, UpdatesBounded
  <2> QED
    BY <2>1 DEF TypeInv, TypeOK, Roomy
<1> QED
  BY <1>1, <1>2, <1>3, <1>4, <1>5, <1>6
  DEF Next, CallArrives, ServerStep, UpdateStep, Rest

\* The calls of a group share samples: while the cache has room for every
\* group and no weights are updated, a second sample of a group is not used
\* before the first one has served Width calls.
THEOREM AlwaysOneOpenSample ==
  ASSUME Roomy
  PROVE  Spec => []OneOpenSample
<1>1. Init => TypeInv /\ CountInv /\ OpenInv
  <2>1. Init => \A b \in Call : Served(b) = {} /\ Cardinality(Served(b)) = 0
    BY FS_EmptySet DEF Init, Served
  <2> QED
    BY <2>1, TypeInvInit, CountInit DEF OpenInv, Opened
<1>2. TypeInv /\ CountInv /\ OpenInv /\ [Next]_vars => (TypeInv /\ CountInv /\ OpenInv)'
  BY TypeInvNext, CountNext, OpenNext
<1>3. TypeInv /\ CountInv /\ OpenInv => OneOpenSample
  <2> SUFFICES ASSUME TypeInv, CountInv, OpenInv,
                      NEW a \in Call, NEW b \in Call, Opened(a), Opened(b),
                      GroupOf[a] = GroupOf[b]
               PROVE  a = b
    BY DEF OneOpenSample
  <2>1. DOMAIN cache = 1 .. Len(cache)
    BY DEF TypeInv, TypeOK
  <2>2. a \in Range(cache) /\ b \in Range(cache)
    BY DEF OpenInv
  <2> QED
    BY <2>1, <2>2 DEF Range, CountInv, CacheInv, OnePerGroup
<1> QED
  BY <1>1, <1>2, <1>3, PTL DEF Spec
===============================================================================
