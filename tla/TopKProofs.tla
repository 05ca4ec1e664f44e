------------------------------ MODULE TopKProofs ------------------------------
(***************************************************************************)
(* What TopKCheckpoints keeps for every value of its constants: types, the *)
(* safety of a truncated list, and, as long as no crash cuts a pruning     *)
(* short, the agreement of the list, the directories and the tracker.      *)
(***************************************************************************)
EXTENDS TopKCheckpoints, SetLemmas

\* What Newest names exists, and is in the set.
LEMMA NewestIsIn ==
  ASSUME NEW S \in SUBSET Step, S # {}
  PROVE  Newest(S) \in S /\ \A s \in S : s <= Newest(S)
<1>1. MaxStep \in Nat /\ Step \subseteq Nat
  BY ConstantsAssumption DEF Step
<1>2. S \subseteq Nat /\ IsFiniteSet(S)
  <2>1. IsFiniteSet(Step)
    BY <1>1, FS_Interval DEF Step
  <2> QED
    BY <1>1, <2>1, FS_Subset
<1>3. \E e \in S : \A d \in S : e >= d
  BY <1>2, FiniteMaximum
<1> QED
  BY <1>2, <1>3 DEF Newest

\* The entries of a list, in the order they are ranked in.
Order(S) == {p \in S \X S : Precedes(p[1], p[2])}

LEMMA OrderOfList ==
  ASSUME NEW S, \A e \in S : e.value \in Nat /\ e.time \in Nat
  PROVE  /\ \A d \in S : <<d, d>> \notin Order(S)
         /\ \A c, d, e \in S :
              <<c, d>> \in Order(S) /\ <<d, e>> \in Order(S) => <<c, e>> \in Order(S)
         /\ FirstOf(S) = BestOf(S, Order(S), Keep)
<1>1. \A d, e \in S : <<d, e>> \in Order(S) <=> Precedes(d, e)
  BY DEF Order
<1>2. FirstOf(S) = BestOf(S, Order(S), Keep)
  <2>1. \A e \in S : {d \in S : Precedes(d, e)} = {d \in S : <<d, e>> \in Order(S)}
    BY <1>1
  <2> QED
    BY <2>1 DEF FirstOf, BestOf
<1> QED
  BY <1>1, <1>2 DEF Precedes

\* The best of a list with an entry are entries of it, and there is one.
LEMMA FirstOfSome ==
  ASSUME NEW S, IsFiniteSet(S), S # {},
         \A e \in S : e.value \in Nat /\ e.time \in Nat
  PROVE  FirstOf(S) # {} /\ FirstOf(S) \subseteq S /\ IsFiniteSet(FirstOf(S))
BY OrderOfList, BestAreEnough, ConstantsAssumption

\* When one of the entries, ranked at different times, is left out, Keep are
\* left, and none of those has a smaller value.
LEMMA FirstOfMany ==
  ASSUME NEW S, IsFiniteSet(S),
         \A e \in S : e.value \in Nat /\ e.time \in Nat,
         \A d, e \in S : d.time = e.time => d = e
  PROVE  /\ Cardinality(FirstOf(S)) <= Keep
         /\ S # FirstOf(S) => Cardinality(FirstOf(S)) = Keep
         /\ \A e \in S \ FirstOf(S), k \in FirstOf(S) : k.value >= e.value
<1> DEFINE B == FirstOf(S)
<1>0. Keep \in Nat \ {0}
  BY ConstantsAssumption
<1>1. \A d, e \in S : d = e \/ <<d, e>> \in Order(S) \/ <<e, d>> \in Order(S)
  BY DEF Order, Precedes
<1>2. B \subseteq S /\ IsFiniteSet(B) /\ (S # B => Cardinality(B) >= Keep)
  BY <1>0, OrderOfList, BestAreEnough
<1>3. Cardinality(B) <= Keep
  BY <1>0, <1>1, OrderOfList, BestAreNotMore
<1>4. Cardinality(B) \in Nat
  BY <1>2, FS_CardinalityType
<1>5. ASSUME NEW e \in S \ B, NEW k \in B, ~ (k.value >= e.value)
      PROVE  FALSE
  <2> DEFINE before(x) == {d \in S : Precedes(d, x)}
  <2>1. before(e) \subseteq before(k)
    <3> SUFFICES ASSUME NEW d \in S, Precedes(d, e)
                 PROVE  Precedes(d, k)
      OBVIOUS
    <3>1. k \in S /\ e \in S
      BY <1>2
    <3> QED
      BY <1>5, <3>1 DEF Precedes
  <2>2. IsFiniteSet(before(k)) /\ IsFiniteSet(before(e))
    BY FS_Subset
  <2>3. Cardinality(before(e)) <= Cardinality(before(k))
    BY <2>1, <2>2, FS_Subset
  <2>4. Cardinality(before(e)) \in Nat /\ Cardinality(before(k)) \in Nat
    BY <2>2, FS_CardinalityType
  <2>5. Cardinality(before(k)) < Keep
    BY <1>5 DEF FirstOf
  <2>6. ~ (Cardinality(before(e)) < Keep)
    BY <1>5 DEF FirstOf
  <2> QED
    BY <1>0, <2>3, <2>4, <2>5, <2>6
<1> QED
  BY <1>0, <1>2, <1>3, <1>4, <1>5

-------------------------------------------------------------------------------
(* Type correctness.  A value in "ranked" names weights that were trained, *)
(* and the tracker a step, because a pruning is of a saved step and its    *)
(* list is never empty.                                                    *)

TypeInv ==
  /\ TypeOK
  /\ step > 0 => weights > 0
  /\ op # "none" => at \in {"start", "validate"} /\ keeping # {}
  /\ IsFiniteSet(file) /\ IsFiniteSet(keeping)
  /\ \A m \in memory : IsFiniteSet(m)

\* The list in memory holds at most one list.
LEMMA OneList ==
  ASSUME NEW S, NEW m
  PROVE  /\ {m} \in SUBSET S <=> m \in S
         /\ Cardinality({m}) <= 1 /\ Cardinality({}) <= 1
<1>1. Cardinality({m}) = 1 /\ Cardinality({}) = 0
  BY FS_Singleton, FS_EmptySet
<1> QED
  BY <1>1

\* What a ranking makes of the list it starts from.
LEMMA RankType ==
  ASSUME TypeInv, step \in Saved, NEW state \in State, NEW v \in Value
  PROVE  /\ state \subseteq Entry /\ IsFiniteSet(state)
         /\ Rank(state, v) \subseteq {e \in state : e.step # step} \cup {ThisStep(v)}
         /\ Rank(state, v) \subseteq Entry
         /\ Rank(state, v) # {}
         /\ IsFiniteSet(Rank(state, v))
<1> USE ConstantsAssumption
<1> DEFINE S == {e \in state : e.step # step} \cup {ThisStep(v)}
<1>1. state \subseteq Entry /\ IsFiniteSet(state)
  BY DEF TypeInv, TypeOK, State, ReadList
<1>2. ThisStep(v) \in Entry
  BY DEF TypeInv, TypeOK, ProcessTypeOK, ThisStep, Entry, Saved
<1>3. S \subseteq Entry /\ S # {}
  BY <1>1, <1>2
<1>4. IsFiniteSet(S)
  <2>1. IsFiniteSet({e \in state : e.step # step})
    BY <1>1, FS_Subset
  <2> QED
    BY <2>1, FS_AddElement
<1>5. \A e \in S : e.value \in Nat /\ e.time \in Nat
  <2>1. 0 .. trained \subseteq Nat /\ Value \subseteq Nat
    BY DEF TypeInv, TypeOK, ProcessTypeOK
  <2>2. \A e \in Entry : e.value \in Value /\ e.time \in 0 .. trained
    BY DEF Entry
  <2>3. ASSUME NEW e \in S
        PROVE  e.value \in Nat /\ e.time \in Nat
    <3>1. e.value \in Value /\ e.time \in 0 .. trained
      BY <1>3, <2>2
    <3> QED
      BY <2>1, <3>1, Zenon
  <2> QED
    BY <2>3
<1>6. FirstOf(S) # {} /\ FirstOf(S) \subseteq S /\ IsFiniteSet(FirstOf(S))
  <2> HIDE DEF S
  <2> QED  BY <1>3, <1>4, <1>5, FirstOfSome
<1> QED
  BY <1>1, <1>3, <1>6 DEF Rank

LEMMA TypeInvInit == Init => TypeInv
<1> SUFFICES ASSUME Init PROVE TypeInv
  OBVIOUS
<1>1. IsFiniteSet({}) /\ Cardinality({}) = 0
  BY FS_EmptySet
<1>2. MaxStep \in Nat /\ MaxCrashes \in Nat
  BY ConstantsAssumption
<1>3. ProcessTypeOK
  <2>1. dirs \in [Step -> {0}]
    BY DEF Init, ProcessInit
  <2>2. {0} \subseteq 0 .. trained
    BY DEF Init, ProcessInit
  <2>3. dirs \in [Step -> 0 .. trained]
    BY <2>1, <2>2
  <2>4. /\ at = "start" /\ step \in 0 .. MaxStep /\ trained \in Nat
        /\ weights \in 0 .. trained /\ tracker \in 0 .. MaxStep
        /\ crashes \in 0 .. MaxCrashes
    BY <1>2 DEF Init, ProcessInit
  <2>5. cut \in BOOLEAN
    BY Zenon DEF Init, ProcessInit
  <2> QED
    BY <2>3, <2>4, <2>5 DEF ProcessTypeOK
<1>4. memory \in SUBSET (SUBSET Entry) /\ Cardinality(memory) <= 1
  BY <1>1 DEF Init
<1>5. TypeOK
  BY <1>3, <1>4 DEF Init, ProcessInit, TypeOK
<1> QED
  BY <1>1, <1>5 DEF Init, ProcessInit, TypeInv

\* A step that leaves the lists alone and never lowers "trained".
LEMMA ListsKept ==
  ASSUME TypeInv, listVars' = listVars, trained' \in Nat, trained' >= trained
  PROVE  /\ file' \subseteq Entry' /\ keeping' \subseteq Entry'
         /\ memory' \in SUBSET (SUBSET Entry') /\ Cardinality(memory') <= 1
         /\ ranked' \subseteq (1 .. trained') \X Value
         /\ torn' \in BOOLEAN
         /\ IsFiniteSet(file') /\ IsFiniteSet(keeping')
         /\ \A m \in memory' : IsFiniteSet(m)
<1>1. trained \in Nat
  BY DEF TypeInv, TypeOK, ProcessTypeOK
<1>2. Entry \subseteq Entry'
  BY <1>1 DEF Entry
<1>3. (1 .. trained) \X Value \subseteq (1 .. trained') \X Value
  BY <1>1
<1> QED
  BY <1>2, <1>3 DEF TypeInv, TypeOK, listVars

LEMMA TypeInvNext == TypeInv /\ [Next]_vars => TypeInv'
<1> SUFFICES ASSUME TypeInv, [Next]_vars PROVE TypeInv'
  OBVIOUS
<1> USE ConstantsAssumption DEF TypeInv, loopVars, diskVars, crashVars
<1>0. /\ MaxStep \in Nat /\ MaxCrashes \in Nat /\ trained \in Nat
      /\ Step \subseteq 0 .. MaxStep
      /\ ProcessTypeOK
  BY DEF TypeOK, ProcessTypeOK, Step
<1>1. CASE TrainStep /\ UNCHANGED listVars
  <2>1. ProcessTypeOK'
    BY <1>0, <1>1 DEF ProcessTypeOK, TrainStep, NextPlace
  <2>2. trained' \in Nat /\ trained' >= trained
    BY <1>0, <1>1 DEF TrainStep
  <2>3. weights' > 0 /\ op' = "none"
    BY <1>0, <1>1 DEF TrainStep
  <2> QED
    BY <1>1, <2>1, <2>2, <2>3, ListsKept DEF TypeOK
<1>2. CASE (SkipSave \/ SkipValidation \/ ValidateWithoutRanking)
           /\ UNCHANGED listVars
  <2>1. ProcessTypeOK' /\ op' = op /\ op = "none" /\ trained' = trained
        /\ weights' = weights /\ step' = step
    BY <1>0, <1>2 DEF ProcessTypeOK, SkipSave, SkipValidation, GoOn, NextPlace,
       ValidateWithoutRanking, Validating
  <2> QED
    BY <1>0, <1>2, <2>1, ListsKept DEF TypeOK
<1>3. CASE Restart /\ UNCHANGED listVars
  <2>1. ProcessTypeOK'
    BY <1>0, <1>3 DEF ProcessTypeOK, Restart, Saved
  <2>2. step' > 0 => weights' > 0
    BY <1>0, <1>3 DEF ProcessTypeOK, Restart, Saved
  <2>3. op' = op /\ op = "none" /\ trained' = trained
    BY <1>3 DEF TypeOK, Restart
  <2> QED
    BY <1>0, <1>3, <2>1, <2>2, <2>3, ListsKept DEF TypeOK
<1>4. CASE Save
  <2>1. ProcessTypeOK'
    BY <1>0, <1>4 DEF ProcessTypeOK, Save, WriteCheckpoint, GoOn, NextPlace
  <2>2. op' = op /\ op = "none" /\ trained' = trained /\ listVars' = listVars
        /\ weights' = weights /\ step' = step
    BY <1>4 DEF Save, WriteCheckpoint, GoOn
  <2> QED
    BY <1>0, <2>1, <2>2, ListsKept DEF TypeOK
<1>5. CASE ValidateAndRank
  <2>1. PICK state \in State, v \in Value :
          /\ memory' = {state}
          /\ keeping' = Rank(state, v)
          /\ ranked' = ranked \cup {<<weights, v>>}
    BY <1>5 DEF ValidateAndRank
  <2>2. /\ state \subseteq Entry /\ IsFiniteSet(state)
        /\ keeping' \subseteq Entry /\ keeping' # {} /\ IsFiniteSet(keeping')
    BY <1>5, <2>1, RankType DEF ValidateAndRank
  <2>3. Entry' = Entry /\ op' = "prune" /\ at' \in {"start", "validate"}
    BY <1>5 DEF ValidateAndRank, Entry, Validating
  <2>4. <<weights, v>> \in (1 .. trained) \X Value
    BY <1>0, <1>5 DEF ProcessTypeOK, ValidateAndRank, Saved, Step
  <2>5. memory' \in SUBSET (SUBSET Entry') /\ Cardinality(memory') <= 1
    BY <2>1, <2>2, <2>3, OneList
  <2>6. ProcessTypeOK'
    BY <1>0, <1>5 DEF ProcessTypeOK, ValidateAndRank
  <2>7. TypeOK'
    BY <1>5, <2>1, <2>2, <2>3, <2>4, <2>5, <2>6 DEF TypeOK, ValidateAndRank
  <2> QED
    BY <1>5, <2>1, <2>2, <2>3, <2>7 DEF ValidateAndRank
<1>6. CASE ValidateRaises
  <2>1. ProcessTypeOK' /\ op' = op /\ op = "none" /\ trained' = trained
        /\ listVars' = listVars /\ weights' = weights /\ step' = step
    BY <1>0, <1>6 DEF ProcessTypeOK, ValidateRaises, Validating
  <2> QED
    BY <1>0, <2>1, ListsKept DEF TypeOK
<1>7. CASE PruneDirectory \/ PruneIsOver
  <2>1. /\ ProcessTypeOK' /\ trained' = trained /\ listVars' = listVars
        /\ weights' = weights /\ step' = step /\ at' = at
        /\ op # "none" /\ op' \in {"prune", "list"}
    BY <1>0, <1>7 DEF ProcessTypeOK, PruneDirectory, PruneIsOver
  <2>2. keeping' = keeping
    BY <2>1 DEF listVars
  <2> QED
    BY <1>0, <2>1, <2>2, ListsKept DEF TypeOK
<1>8. CASE TruncateList \/ WriteList
  <2>1. /\ ProcessTypeOK' /\ Entry' = Entry
        /\ weights' = weights /\ step' = step /\ at' = at
        /\ op # "none" /\ op' \in {"write", "tracker"}
    BY <1>0, <1>8 DEF ProcessTypeOK, TruncateList, WriteList, Entry
  <2>2. /\ file' \in {file, keeping} /\ torn' \in BOOLEAN
        /\ memory' = memory /\ keeping' = keeping /\ ranked' = ranked
        /\ trained' = trained
    BY <1>8 DEF TypeOK, TruncateList, WriteList
  <2> QED
    BY <2>1, <2>2 DEF TypeOK
<1>9. CASE WriteTracker
  <2>1. keeping # {} /\ keeping \subseteq Entry /\ at \in {"start", "validate"}
    BY <1>9 DEF TypeOK, WriteTracker
  <2>2. Steps(keeping) \in SUBSET Step /\ Steps(keeping) # {}
    BY <2>1 DEF Steps, Entry
  <2>3. tracker' \in Step
    BY <1>9, <2>2, NewestIsIn DEF WriteTracker, TrackerOfList
  <2>4. ProcessTypeOK' /\ op' = "none"
    BY <1>0, <1>9, <2>1, <2>3 DEF ProcessTypeOK, WriteTracker, GoOn, NextPlace
  <2>5. Entry' = Entry /\ weights' = weights /\ step' = step /\ trained' = trained
        /\ memory' = {keeping} /\ keeping' = {}
        /\ file' = file /\ torn' = torn /\ ranked' = ranked
    BY <1>9 DEF WriteTracker, GoOn, Entry
  <2>6. memory' \in SUBSET (SUBSET Entry') /\ Cardinality(memory') <= 1
    BY <2>1, <2>5, OneList
  <2>7. TypeOK' /\ IsFiniteSet(keeping')
    BY <2>4, <2>5, <2>6, FS_EmptySet DEF TypeOK
  <2> QED
    BY <2>4, <2>5, <2>7
<1>10. CASE Die
  <2>1. /\ ProcessTypeOK' /\ op' = "none"
        /\ Entry' = Entry /\ weights' = weights /\ step' = step
        /\ trained' = trained
    BY <1>0, <1>10 DEF ProcessTypeOK, Die, Crash, Entry
  <2>2. /\ memory' = {} /\ keeping' = {}
        /\ file' = file /\ torn' = torn /\ ranked' = ranked
    BY <1>10 DEF Die
  <2>3. IsFiniteSet(keeping') /\ Cardinality(memory') <= 1
    BY <2>2, FS_EmptySet, OneList
  <2> QED
    BY <2>1, <2>2, <2>3 DEF TypeOK
<1>11. CASE UNCHANGED vars
  <2>1. listVars' = listVars /\ trained' = trained /\ ProcessTypeOK'
    BY <1>0, <1>11 DEF vars, processVars, ProcessTypeOK
  <2> QED
    BY <1>0, <1>11, <2>1, ListsKept DEF TypeOK, vars, processVars, listVars
<1> QED
  BY <1>1, <1>2, <1>3, <1>4, <1>5, <1>6, <1>7, <1>8, <1>9, <1>10, <1>11
     DEF Next, Loop, Ranking, Rest, ValidateWithoutRanking

\* Every variable keeps its type: the lists hold entries of steps that can be
\* trained, and the tracker names a step (_update_topk_checkpoints).
THEOREM TopKTypeCorrect == Spec => []TypeOK
<1>1. Spec => []TypeInv
  BY TypeInvInit, TypeInvNext, PTL DEF Spec
<1>2. TypeInv => TypeOK
  BY DEF TypeInv
<1> QED
  BY <1>1, <1>2, PTL

-------------------------------------------------------------------------------
(* A truncated list.  It is found by a process that has no list in memory, *)
(* and no process with a truncated list ever gets to a pruning.            *)

TornInv == torn => op = "write" \/ (op = "none" /\ memory = {})

LEMMA TornInvInit == Init => TornInv
BY DEF Init, TornInv

LEMMA TornInvNext == TornInv /\ [Next]_vars => TornInv'
<1> SUFFICES ASSUME TornInv, [Next]_vars PROVE TornInv'
  OBVIOUS
<1> USE DEF TornInv, listVars
<1>1. CASE Loop
  BY <1>1 DEF Loop, TrainStep, SkipSave, SkipValidation, Restart
<1>2. CASE Save
  BY <1>2 DEF Save
<1>3. CASE ValidateWithoutRanking \/ ValidateRaises
  BY <1>3 DEF ValidateWithoutRanking, ValidateRaises
<1>4. CASE ValidateAndRank
  <2>1. op = "none" /\ State # {} /\ torn' = torn
    BY <1>4 DEF ValidateAndRank, Validating
  <2>2. ~torn
    BY <2>1 DEF State, ReadList
  <2> QED
    BY <2>1, <2>2
<1>5. CASE PruneDirectory \/ PruneIsOver
  BY <1>5 DEF PruneDirectory, PruneIsOver
<1>6. CASE TruncateList \/ WriteList
  BY <1>6 DEF TruncateList, WriteList
<1>7. CASE WriteTracker
  BY <1>7 DEF WriteTracker
<1>8. CASE Die
  BY <1>8 DEF Die, Crash
<1>9. CASE UNCHANGED vars
  BY <1>9 DEF vars, processVars
<1> QED
  BY <1>1, <1>2, <1>3, <1>4, <1>5, <1>6, <1>7, <1>8, <1>9 DEF Next, Ranking, Rest

\* A truncated list is never taken for an empty one, so that no checkpoint is
\* removed because of it (_load_topk_checkpoint_state raises).
THEOREM TornListAlwaysKeepsAll == Spec => TornListKeepsAll
<1>1. TornInv /\ [Next]_vars => [torn => Save \/ UNCHANGED dirs]_vars
  <2> SUFFICES ASSUME TornInv, [Next]_vars, torn PROVE Save \/ UNCHANGED dirs
    OBVIOUS
  <2>1. ~PruneDirectory
    BY DEF TornInv, PruneDirectory
  <2> QED
    BY <2>1 DEF Next, Loop, Ranking, Rest, TrainStep, SkipSave, SkipValidation, GoOn,
       Restart, ValidateWithoutRanking, ValidateAndRank, ValidateRaises,
       PruneIsOver, TruncateList, WriteList, WriteTracker, Die, Crash,
       vars, processVars, loopVars, diskVars
<1> QED
  BY <1>1, TornInvInit, TornInvNext, PTL DEF Spec, TornListKeepsAll

-------------------------------------------------------------------------------
(* The list, the directories and the tracker, as long as no crash cuts a   *)
(* pruning short.  Between prunings the tracker names the newest directory *)
(* and the list names directories that are there; a pruning goes from      *)
(* there to the same facts about its own list.                             *)

DiskInv ==
  /\ op = "none" => (IF Saved = {} THEN tracker = 0 ELSE tracker \in Saved)
  /\ op = "none" => \A s \in Saved : s <= tracker
  /\ at = "start" => step = tracker
  /\ at # "down" => tracker <= step
  /\ at = "save" => tracker < step
  /\ ~SaveFirst /\ at = "validate" => tracker < step
  /\ op # "none" => SaveFirst \/ at = "start"
  /\ op = "none" /\ at = "validate" /\ step \in Saved => dirs[step] = weights

ListInv ==
  /\ op = "none" => Steps(file) \subseteq Saved /\ memory \subseteq {file}
  /\ op # "none" => Steps(keeping) \subseteq Saved
                    /\ \A s \in Steps(keeping) : s <= step
  /\ op \in {"list", "write", "tracker"} => Saved \subseteq Steps(keeping)
  /\ op = "tracker" => file = keeping

KeptInv == ~cut => DiskInv /\ ListInv

LEMMA KeptInvInit == Init => KeptInv
<1> SUFFICES ASSUME Init PROVE DiskInv /\ ListInv
  BY DEF KeptInv
<1>1. Saved = {} /\ Steps(file) = {}
  BY DEF Init, ProcessInit, Saved, Steps
<1> QED
  BY <1>1 DEF Init, ProcessInit, DiskInv, ListInv

LEMMA KeptInvNext == TypeInv /\ KeptInv /\ [Next]_vars => KeptInv'
<1> SUFFICES ASSUME TypeInv, KeptInv, [Next]_vars, ~cut' PROVE DiskInv' /\ ListInv'
  BY DEF KeptInv
<1> USE DEF loopVars, diskVars, crashVars, listVars
<1>0. ~cut
  BY DEF Next, Loop, TrainStep, SkipSave, SkipValidation, Restart, Save, GoOn,
     WriteCheckpoint, Ranking, ValidateWithoutRanking, ValidateAndRank,
     ValidateRaises, PruneDirectory, PruneIsOver, TruncateList, WriteList,
     WriteTracker, Die, Crash, Rest, vars, processVars
<1>1. DiskInv /\ ListInv
  BY <1>0 DEF KeptInv
<1>2. /\ MaxStep \in Nat /\ SaveAt \subseteq Step /\ SaveFirst \in BOOLEAN
      /\ step \in 0 .. MaxStep /\ tracker \in 0 .. MaxStep
      /\ Saved \subseteq Step /\ Step \subseteq Nat \ {0}
      /\ dirs \in [Step -> 0 .. trained] /\ trained \in Nat
      /\ at \in {"start", "train", "save", "validate", "down"}
      /\ step > 0 => weights > 0
      /\ weights \in Nat
      /\ op # "none" => at \in {"start", "validate"} /\ keeping # {}
      /\ keeping \subseteq Entry
  BY ConstantsAssumption DEF TypeInv, TypeOK, ProcessTypeOK, Saved, Step
<1>3. CASE TrainStep /\ UNCHANGED listVars
  <2>1. /\ Saved' = Saved /\ Steps(file)' = Steps(file) /\ memory' = memory
        /\ file' = file
        /\ op = "none" /\ op' = "none" /\ tracker' = tracker
        /\ at = "train" /\ at' \in {"save", "validate"} /\ step' = step + 1
    BY <1>3 DEF TrainStep, Saved, Steps, NextPlace
  <2>2. tracker < step' /\ step' \notin Saved'
    BY <1>1, <1>2, <2>1 DEF DiskInv
  <2>3. DiskInv'
    BY <1>1, <1>2, <2>1, <2>2 DEF DiskInv
  <2>4. ListInv'
    BY <1>1, <2>1 DEF ListInv
  <2> QED
    BY <2>3, <2>4
<1>4. CASE (SkipSave \/ SkipValidation \/ ValidateWithoutRanking)
           /\ UNCHANGED listVars
  <2>1. /\ Saved' = Saved /\ Steps(file)' = Steps(file) /\ memory' = memory
        /\ file' = file
        /\ op = "none" /\ op' = "none" /\ tracker' = tracker /\ step' = step
        /\ at # "down" /\ at' # "start" /\ dirs' = dirs /\ weights' = weights
        /\ (SaveFirst => at' # "save") /\ (~SaveFirst => at' # "validate")
        /\ (at' = "save" => at = "validate") /\ (at' = "validate" => at = "save")
    BY <1>2, <1>4 DEF SkipSave, SkipValidation, ValidateWithoutRanking, Validating,
       GoOn, NextPlace, Saved, Steps
  <2>2. DiskInv'
    BY <1>1, <1>2, <2>1 DEF DiskInv
  <2>3. ListInv'
    BY <1>1, <2>1 DEF ListInv
  <2> QED
    BY <2>2, <2>3
<1>5. CASE Restart /\ UNCHANGED listVars
  <2>1. /\ Saved' = Saved /\ Steps(file)' = Steps(file) /\ memory' = memory
        /\ file' = file
        /\ op = "none" /\ op' = "none" /\ tracker' = tracker
        /\ at' = "start" /\ step' = (IF tracker \in Saved THEN tracker ELSE 0)
    BY <1>2, <1>5 DEF Restart, Saved, Steps
  <2>2. step' = tracker
    BY <1>1, <2>1 DEF DiskInv
  <2> QED
    BY <1>1, <1>2, <2>1, <2>2 DEF DiskInv, ListInv
<1>6. CASE Save
  <2>1. /\ Steps(file)' = Steps(file) /\ memory' = memory /\ file' = file
        /\ op = "none" /\ op' = "none" /\ tracker' = step /\ step' = step
        /\ at = "save" /\ at' \in {"validate", "train"} /\ step \in Step
        /\ (~SaveFirst => at' # "validate") /\ weights' = weights /\ dirs'[step] = weights
    BY <1>2, <1>6 DEF Save, WriteCheckpoint, GoOn, NextPlace, Steps
  <2>2. Saved' = Saved \cup {step}
    BY <1>2, <1>6, <2>1 DEF Save, WriteCheckpoint, Saved
  <2>3. \A s \in Saved : s <= step
    BY <1>1, <1>2, <2>1 DEF DiskInv
  <2> QED
    BY <1>1, <1>2, <2>1, <2>2, <2>3 DEF DiskInv, ListInv
<1>7. CASE ValidateAndRank
  <2>1. PICK state \in State, v \in Value : keeping' = Rank(state, v)
    BY <1>7 DEF ValidateAndRank
  <2>2. step \in Saved /\ op = "none" /\ at \in {"start", "validate"}
    BY <1>7 DEF ValidateAndRank, Validating
  <2>3. Steps(state) \subseteq Saved
    BY <1>1, <2>1, <2>2 DEF ListInv, State, ReadList
  <2>4. Steps(keeping') \subseteq Steps(state) \cup {step}
    BY <2>1, <2>2, RankType DEF Steps, ThisStep
  <2>5. \A s \in Steps(keeping') : s \in Saved /\ s <= step
    <3>1. \A s \in Saved : s <= step
      BY <1>1, <1>2, <2>2 DEF DiskInv
    <3> QED
      BY <2>2, <2>3, <2>4, <3>1
  <2>6. /\ Saved' = Saved /\ op' = "prune" /\ at' = at /\ step' = step
        /\ tracker' = tracker
    BY <1>7 DEF ValidateAndRank, Saved
  <2>7. SaveFirst \/ at = "start"
    BY <1>1, <1>2, <2>2 DEF DiskInv
  <2> QED
    BY <1>1, <1>2, <2>2, <2>5, <2>6, <2>7 DEF DiskInv, ListInv, Steps
<1>8. CASE ValidateRaises
  <2>1. /\ Saved' = Saved /\ Steps(file)' = Steps(file) /\ memory' = memory
        /\ file' = file
        /\ op = "none" /\ op' = "none" /\ tracker' = tracker /\ step' = step
        /\ at' = "down"
    BY <1>8 DEF ValidateRaises, Validating, Saved, Steps
  <2> QED
    BY <1>1, <1>2, <2>1 DEF DiskInv, ListInv
<1>9. CASE PruneDirectory
  <2>1. PICK s \in Unkept : dirs' = [dirs EXCEPT ![s] = 0]
    BY <1>9 DEF PruneDirectory
  <2>2. Saved' = Saved \ {s} /\ s \notin Steps(keeping)
    BY <1>2, <2>1 DEF Saved, Unkept
  <2>3. /\ op = "prune" /\ op' = "prune" /\ at' = at /\ step' = step
        /\ tracker' = tracker /\ keeping' = keeping
    BY <1>9 DEF PruneDirectory
  <2> QED
    BY <1>1, <1>2, <2>2, <2>3 DEF DiskInv, ListInv, Steps
<1>10. CASE PruneIsOver
  <2>1. /\ op = "prune" /\ op' = "list" /\ at' = at /\ step' = step
        /\ tracker' = tracker /\ keeping' = keeping
        /\ Saved' = Saved /\ Saved \subseteq Steps(keeping)
    BY <1>10 DEF PruneIsOver, Unkept, Saved
  <2> QED
    BY <1>1, <1>2, <2>1 DEF DiskInv, ListInv, Steps
<1>11. CASE TruncateList \/ WriteList
  <2>1. /\ op \in {"list", "write"} /\ op' \in {"write", "tracker"}
        /\ at' = at /\ step' = step /\ tracker' = tracker /\ keeping' = keeping
        /\ Saved' = Saved /\ (op' = "tracker" => file' = keeping')
    BY <1>11 DEF TruncateList, WriteList, Saved
  <2> QED
    BY <1>1, <1>2, <2>1 DEF DiskInv, ListInv, Steps
<1>12. CASE WriteTracker
  <2>1. /\ op = "tracker" /\ op' = "none" /\ step' = step /\ Saved' = Saved
        /\ file' = file /\ memory' = {keeping}
        /\ tracker' = Newest(Steps(keeping))
    BY <1>12 DEF WriteTracker, GoOn, TrackerOfList, Saved
  <2>2. at' = "train"
    BY <1>1, <1>2, <1>12 DEF DiskInv, WriteTracker, GoOn, NextPlace
  <2>3. Steps(keeping) = Saved /\ file = keeping /\ \A s \in Saved : s <= step
    BY <1>1, <2>1 DEF ListInv
  <2>4. Steps(keeping) # {}
    BY <1>2, <2>1 DEF Steps
  <2>5. tracker' \in Saved /\ \A s \in Saved : s <= tracker'
    BY <1>2, <2>1, <2>3, <2>4, NewestIsIn
  <2>6. DiskInv'
    BY <2>1, <2>2, <2>3, <2>5 DEF DiskInv
  <2>7. ListInv'
    BY <2>1, <2>3 DEF ListInv, Steps
  <2> QED
    BY <2>6, <2>7
<1>13. CASE Die
  <2>1. op = "none" /\ op' = "none" /\ at' = "down" /\ at # "down"
    BY <1>13 DEF Die, Crash
  <2>2. /\ Saved' = Saved /\ step' = step /\ tracker' = tracker /\ file' = file
        /\ memory' = {}
    BY <1>13 DEF Die, Crash, Saved
  <2> QED
    BY <1>1, <1>2, <2>1, <2>2 DEF DiskInv, ListInv, Steps
<1>14. CASE UNCHANGED vars
  BY <1>1, <1>14 DEF vars, processVars, DiskInv, ListInv, Saved, Steps
<1> QED
  BY <1>3, <1>4, <1>5, <1>6, <1>7, <1>8, <1>9, <1>10, <1>11, <1>12, <1>13, <1>14
     DEF Next, Loop, Ranking, Rest, ValidateWithoutRanking

LEMMA AlwaysKept == Spec => [](TypeInv /\ KeptInv)
<1>1. Init => TypeInv /\ KeptInv
  BY TypeInvInit, KeptInvInit
<1>2. TypeInv /\ KeptInv /\ [Next]_vars => (TypeInv /\ KeptInv)'
  BY TypeInvNext, KeptInvNext
<1> QED
  BY <1>1, <1>2, PTL DEF Spec

\* A process that starts with checkpoints on disk resumes from one of them, as
\* long as no crash cut a pruning short: the tracker never names a directory
\* that was pruned (_save_topk_checkpoint_state).
THEOREM AlwaysResumesFromCheckpoint == Spec => []ResumesFromCheckpoint
<1>1. TypeInv /\ KeptInv => ResumesFromCheckpoint
  BY DEF KeptInv, DiskInv, ResumesFromCheckpoint
<1> QED
  BY <1>1, AlwaysKept, PTL

\* Every entry of the list has its directory, under the same condition.
THEOREM ListAlwaysOnDisk == Spec => []KeptOnDiskUncut
<1>1. TypeInv /\ KeptInv => KeptOnDiskUncut
  BY DEF KeptInv, ListInv, KeptOnDiskUncut, KeptOnDisk
<1> QED
  BY <1>1, AlwaysKept, PTL

\* A save never replaces a checkpoint of the list, under the same condition.
THEOREM ListNeverOverwritten == Spec => KeptNeverOverwritten
<1>1. TypeInv /\ KeptInv => (Save /\ ~cut => step \notin Steps(file))
  <2> SUFFICES ASSUME TypeInv, KeptInv, Save, ~cut PROVE step \notin Steps(file)
    OBVIOUS
  <2>1. at = "save" /\ op = "none"
    BY DEF Save, WriteCheckpoint
  <2>2. tracker < step /\ \A s \in Steps(file) : s <= tracker
    BY <2>1 DEF KeptInv, DiskInv, ListInv
  <2>3. step \in Nat /\ tracker \in Nat
    BY ConstantsAssumption DEF TypeInv, TypeOK, ProcessTypeOK
  <2> QED
    BY <2>2, <2>3
<1>2. TypeInv /\ KeptInv => [Save /\ ~cut => step \notin Steps(file)]_vars
  BY <1>1
<1> QED
  BY <1>2, AlwaysKept, PTL DEF KeptNeverOverwritten

-------------------------------------------------------------------------------
(* The list holds the best of everything that was ever ranked, when no     *)
(* step is validated at the start: a checkpoint that is resumed from and   *)
(* then validated again is ranked again, in place of its first value,      *)
(* which may have been better than all the others.                         *)

Contents(L) == {<<dirs[e.step], e.value>> : e \in L}

Best(L) ==
  /\ Contents(L) \subseteq ranked
  /\ \A d, e \in L : d.time = e.time => d = e
  /\ \A r \in ranked \ Contents(L) :
       Cardinality(L) = Keep /\ \A e \in L : e.value >= r[2]

\* Nothing on the list has the step, or the time, of what is validated next.
BestInv ==
  /\ op = "none" => Best(file)
  /\ op # "none" => Best(keeping)
  /\ op = "none" /\ at \in {"save", "validate"} =>
       \A e \in file : e.time < trained /\ e.step # step

BestUncut == ~cut => BestInv

\* Adding a new entry and keeping the first keeps a best list best.
LEMMA BestOfMore ==
  ASSUME NEW L, IsFiniteSet(L), Best(L), NEW new,
         \A e \in L \cup {new} : e.value \in Nat /\ e.time \in Nat,
         \A e \in L : e.time # new.time,
         \A r \in ranked : r[2] \in Nat
  PROVE  LET kept == FirstOf(L \cup {new})
             this == <<dirs[new.step], new.value>>
         IN  /\ Contents(kept) \subseteq ranked \cup {this}
             /\ \A d, e \in kept : d.time = e.time => d = e
             /\ \A r \in (ranked \cup {this}) \ Contents(kept) :
                  Cardinality(kept) = Keep /\ \A e \in kept : e.value >= r[2]
<1> DEFINE S == L \cup {new}
           kept == FirstOf(S)
           this == <<dirs[new.step], new.value>>
<1>1. IsFiniteSet(S)
  BY FS_AddElement
<1>2. \A d, e \in S : d.time = e.time => d = e
  BY DEF Best
<1>3. \A e \in S : e.value \in Nat /\ e.time \in Nat
  OBVIOUS
<1>4. /\ kept \subseteq S /\ IsFiniteSet(kept)
      /\ Cardinality(kept) <= Keep
      /\ S # kept => Cardinality(kept) = Keep
      /\ \A e \in S \ kept, k \in kept : k.value >= e.value
  <2>1. S # {}
    OBVIOUS
  <2> HIDE DEF S
  <2> QED
    BY <1>1, <1>2, <1>3, <2>1, FirstOfSome, FirstOfMany
<1>5. Contents(kept) \subseteq ranked \cup {this}
  BY <1>4 DEF Contents, Best
<1>6. \A d, e \in kept : d.time = e.time => d = e
  BY <1>2, <1>4
<1>7. ASSUME NEW e \in S \ kept, NEW r, r = <<dirs[e.step], e.value>>
      PROVE  Cardinality(kept) = Keep /\ \A k \in kept : k.value >= r[2]
  <2>1. S # kept
    BY <1>7
  <2> HIDE DEF S, kept
  <2> QED
    BY <1>4, <1>7, <2>1
<1>8. ASSUME NEW r \in ranked, r \notin Contents(L)
      PROVE  Cardinality(kept) = Keep /\ \A k \in kept : k.value >= r[2]
  <2>1. Cardinality(L) = Keep /\ \A e \in L : e.value >= r[2]
    BY <1>8 DEF Best
  <2>2. new \notin L
    OBVIOUS
  <2>3. Cardinality(S) = Keep + 1
    BY <2>1, <2>2, FS_AddElement
  <2>4. S # kept
    BY <1>4, <2>3, ConstantsAssumption
  <2>5. PICK e \in S \ kept : TRUE
    BY <1>4, <2>4
  <2>6. \A k \in kept : k \in L \/ k = new
    BY <1>4
  <2>7. ASSUME new \in kept
        PROVE  new.value >= r[2]
    <3>1. e \in L
      BY <2>5, <2>7
    <3>2. new.value >= e.value /\ e.value >= r[2]
      BY <1>4, <2>1, <2>5, <2>7, <3>1
    <3> QED
      BY <1>3, <3>1, <3>2
  <2>8. \A k \in kept : k.value >= r[2]
    BY <2>1, <2>6, <2>7
  <2> QED
    BY <1>4, <2>4, <2>8
<1>9. ASSUME NEW r \in (ranked \cup {this}) \ Contents(kept)
      PROVE  Cardinality(kept) = Keep /\ \A k \in kept : k.value >= r[2]
  <2>1. CASE r \in ranked /\ r \notin Contents(L)
    BY <1>8, <2>1
  <2>2. CASE r \in Contents(L) \/ r = this
    <3>1. PICK e \in S : r = <<dirs[e.step], e.value>>
      BY <2>2 DEF Contents
    <3>2. e \notin kept
      BY <1>9, <3>1 DEF Contents
    <3> QED
      BY <1>7, <3>1, <3>2
  <2> QED
    BY <1>9, <2>1, <2>2
<1> QED
  BY <1>5, <1>6, <1>9

\* A step that changes no directory of the list changes nothing of it.
LEMMA BestStays ==
  ASSUME NEW L, Best(L), ranked' = ranked, \A e \in L : dirs'[e.step] = dirs[e.step],
         NEW M, M = L
  PROVE  /\ {<<dirs'[e.step], e.value>> : e \in M} \subseteq ranked'
         /\ \A d, e \in M : d.time = e.time => d = e
         /\ \A r \in ranked' \ {<<dirs'[e.step], e.value>> : e \in M} :
              Cardinality(M) = Keep /\ \A e \in M : e.value >= r[2]
<1>1. {<<dirs'[e.step], e.value>> : e \in M} = Contents(L)
  BY DEF Contents
<1> QED
  BY <1>1 DEF Best

LEMMA BestInit == Init => BestUncut
BY DEF Init, ProcessInit, BestUncut, BestInv, Best, Contents

LEMMA BestNext ==
  ASSUME ~ValidateAtStart, TypeInv, TypeInv', TornInv, KeptInv, BestUncut, [Next]_vars
  PROVE  BestUncut'
<1> SUFFICES ASSUME ~cut' PROVE BestInv'
  BY DEF BestUncut
<1> USE DEF loopVars, diskVars, crashVars, listVars
<1>0. ~cut
  BY DEF Next, Loop, TrainStep, SkipSave, SkipValidation, Restart, Save, GoOn,
     WriteCheckpoint, Ranking, ValidateWithoutRanking, ValidateAndRank,
     ValidateRaises, PruneDirectory, PruneIsOver, TruncateList, WriteList,
     WriteTracker, Die, Crash, Rest, vars, processVars
<1>1. DiskInv /\ ListInv /\ BestInv
  BY <1>0 DEF KeptInv, BestUncut
<1>2. /\ MaxStep \in Nat /\ SaveAt \subseteq Step
      /\ step \in 0 .. MaxStep /\ tracker \in 0 .. MaxStep
      /\ Saved \subseteq Step /\ Step \subseteq Nat \ {0}
      /\ dirs \in [Step -> 0 .. trained] /\ trained \in Nat
      /\ at \in {"start", "train", "save", "validate", "down"}
      /\ op # "none" => at \in {"start", "validate"}
      /\ op \in {"none", "prune", "list", "write", "tracker"}
      /\ file \subseteq Entry /\ IsFiniteSet(file)
      /\ keeping \subseteq Entry
  <2>1. MaxStep \in Nat /\ SaveAt \subseteq Step
    BY ConstantsAssumption
  <2>2. Saved \subseteq Step /\ Step \subseteq Nat \ {0}
    BY <2>1 DEF Saved, Step
  <2>3. TypeOK /\ ProcessTypeOK /\ IsFiniteSet(file)
        /\ (op # "none" => at \in {"start", "validate"})
    BY DEF TypeInv, TypeOK
  <2>4. /\ op \in {"none", "prune", "list", "write", "tracker"}
        /\ file \subseteq Entry /\ keeping \subseteq Entry
    BY <2>3 DEF TypeOK
  <2> QED
    BY <2>1, <2>2, <2>3, <2>4 DEF ProcessTypeOK
<1>3. \A e \in file \cup keeping : e.time \in 0 .. trained /\ e.step \in Step
  BY <1>2 DEF Entry
<1>4. CASE TrainStep /\ UNCHANGED listVars
  <2>1. /\ op = "none" /\ op' = "none" /\ file' = file /\ ranked' = ranked /\ dirs' = dirs
        /\ trained' = trained + 1 /\ step' = step + 1 /\ at = "train"
    BY <1>4 DEF TrainStep
  <2>2. \A e \in file : e.time < trained' /\ e.step # step'
    <3>1. \A e \in file : e.step \in Saved
      BY <1>1, <2>1 DEF ListInv, Steps
    <3>2. \A s \in Saved : s <= tracker /\ tracker <= step
      BY <1>1, <2>1 DEF DiskInv
    <3> QED
      BY <1>2, <1>3, <2>1, <3>1, <3>2
  <2>3. Best(file)'
    BY <1>1, <2>1 DEF BestInv, Best, Contents
  <2> QED
    BY <2>1, <2>2, <2>3 DEF BestInv
<1>5. CASE (SkipSave \/ SkipValidation \/ ValidateWithoutRanking) /\ UNCHANGED listVars
  <2>1. /\ op = "none" /\ op' = "none" /\ file' = file /\ ranked' = ranked /\ dirs' = dirs
        /\ trained' = trained /\ step' = step
        /\ (at' \in {"save", "validate"} => at \in {"save", "validate"})
    BY <1>2, <1>5 DEF SkipSave, SkipValidation, ValidateWithoutRanking, Validating,
       GoOn, NextPlace
  <2>2. Best(file)'
    BY <1>1, <2>1 DEF BestInv, Best, Contents
  <2> QED
    BY <1>1, <2>1, <2>2 DEF BestInv
<1>6. CASE (Restart /\ UNCHANGED listVars) \/ ValidateRaises \/ Die
  <2>1. /\ op = "none" /\ op' = "none" /\ file' = file /\ ranked' = ranked /\ dirs' = dirs
        /\ at' \in {"start", "down"}
    <3>1. CASE Restart /\ UNCHANGED listVars
      <4>1. op = "none"
        BY <1>2, <3>1 DEF Restart
      <4> QED
        BY <3>1, <4>1 DEF Restart
    <3>2. CASE ValidateRaises
      BY <3>2 DEF ValidateRaises, Validating
    <3>3. CASE Die
      BY <3>3 DEF Die, Crash
    <3> QED
      BY <1>6, <3>1, <3>2, <3>3
  <2>2. Best(file)'
    BY <1>1, <2>1 DEF BestInv, Best, Contents
  <2> QED
    BY <2>1, <2>2 DEF BestInv
<1>7. CASE Save
  <2>1. /\ op = "none" /\ op' = "none" /\ file' = file /\ ranked' = ranked
        /\ dirs' = [dirs EXCEPT ![step] = weights]
        /\ trained' = trained /\ step' = step /\ at = "save"
    BY <1>7 DEF Save, WriteCheckpoint, GoOn
  <2>2. \A e \in file : e.time < trained /\ e.step # step
    BY <1>1, <2>1 DEF BestInv
  <2>3. \A e \in file : dirs'[e.step] = dirs[e.step]
    BY <1>2, <1>3, <2>1, <2>2
  <2>4. Best(file)'
    BY <1>1, <2>1, <2>3, BestStays DEF BestInv, Best, Contents
  <2> QED
    BY <2>1, <2>2, <2>4 DEF BestInv
<1>8. CASE ValidateAndRank
  <2>1. PICK state \in State, v \in Value :
          /\ keeping' = Rank(state, v)
          /\ ranked' = ranked \cup {<<weights, v>>}
    BY <1>8 DEF ValidateAndRank
  <2>2. /\ op = "none" /\ op' = "prune" /\ at = "validate" /\ step \in Saved
        /\ dirs' = dirs
    BY <1>8 DEF ValidateAndRank, Validating
  <2>3. state = file
    BY <1>1, <2>1, <2>2 DEF ListInv, State, ReadList
  <2>4. /\ Best(file) /\ dirs[step] = weights
        /\ \A e \in file : e.time < trained /\ e.step # step
    BY <1>1, <2>2 DEF BestInv, DiskInv
  <2>5. keeping' = FirstOf(file \cup {ThisStep(v)})
    <3>1. {e \in file : e.step # step} = file
      BY <2>4
    <3> QED
      BY <2>1, <2>3, <3>1 DEF Rank
  <2>6. ThisStep(v).step = step /\ ThisStep(v).value = v /\ ThisStep(v).time = trained
    BY DEF ThisStep
  <2>7. \A e \in file \cup {ThisStep(v)} : e.value \in Nat /\ e.time \in Nat
    <3>1. \A e \in file : e.value \in Value /\ e.time \in 0 .. trained
      BY <1>2 DEF Entry
    <3>2. Value \subseteq Nat /\ 0 .. trained \subseteq Nat
      BY <1>2, ConstantsAssumption
    <3>3. \A e \in file : e.value \in Nat /\ e.time \in Nat
      BY <3>1, <3>2, Zenon
    <3>4. v \in Nat
      BY <3>2
    <3> QED
      BY <1>2, <2>6, <3>3, <3>4
  <2>8. \A e \in file : e.time # trained
    BY <1>2, <1>3, <2>4
  <2>9. \A r \in ranked : r[2] \in Nat
    BY ConstantsAssumption DEF TypeInv, TypeOK
  <2>10. /\ Contents(keeping') \subseteq ranked'
         /\ \A d, e \in keeping' : d.time = e.time => d = e
         /\ \A r \in ranked' \ Contents(keeping') :
              Cardinality(keeping') = Keep /\ \A e \in keeping' : e.value >= r[2]
    BY <1>2, <2>1, <2>4, <2>5, <2>6, <2>7, <2>8, <2>9, BestOfMore
  <2>11. Contents(keeping') = Contents(keeping)'
    BY <2>2 DEF Contents
  <2> QED
    BY <2>2, <2>10, <2>11 DEF BestInv, Best
<1>9. CASE PruneDirectory
  <2>1. PICK s \in Unkept : dirs' = [dirs EXCEPT ![s] = 0]
    BY <1>9 DEF PruneDirectory
  <2>2. op = "prune" /\ op' = "prune" /\ keeping' = keeping /\ ranked' = ranked
    BY <1>9 DEF PruneDirectory
  <2>3. \A e \in keeping : e.step # s
    BY <2>1 DEF Unkept, Steps
  <2>4. \A e \in keeping : dirs'[e.step] = dirs[e.step]
    BY <1>2, <1>3, <2>1, <2>3
  <2>5. Best(keeping)'
    BY <1>1, <2>2, <2>4, BestStays DEF BestInv, Best, Contents
  <2> QED
    BY <2>2, <2>5 DEF BestInv
<1>10. CASE PruneIsOver \/ TruncateList \/ WriteList
  <2>1. /\ op # "none" /\ op' # "none" /\ keeping' = keeping /\ ranked' = ranked
        /\ dirs' = dirs
    BY <1>10 DEF PruneIsOver, TruncateList, WriteList
  <2>2. Best(keeping)'
    BY <1>1, <2>1 DEF BestInv, Best, Contents
  <2> QED
    BY <2>1, <2>2 DEF BestInv
<1>11. CASE WriteTracker
  <2>1. /\ op = "tracker" /\ op' = "none" /\ file' = keeping /\ ranked' = ranked
        /\ dirs' = dirs
    BY <1>1, <1>11 DEF WriteTracker, ListInv
  <2>2. at' \notin {"save", "validate"}
    BY <1>1, <1>2, <1>11 DEF DiskInv, WriteTracker, GoOn, NextPlace
  <2>3. Best(file)'
    BY <1>1, <2>1 DEF BestInv, Best, Contents
  <2> QED
    BY <2>1, <2>2, <2>3 DEF BestInv
<1>12. CASE UNCHANGED vars
  BY <1>1, <1>12 DEF vars, processVars, BestInv, Best, Contents
<1> QED
  BY <1>4, <1>5, <1>6, <1>7, <1>8, <1>9, <1>10, <1>11, <1>12
     DEF Next, Loop, Ranking, Rest, ValidateWithoutRanking

\* The list holds the best Keep of all the checkpoints ever ranked, with the
\* values measured on what their directories hold, over any number of resumes,
\* as long as no crash cut a pruning short (_update_topk_checkpoints).
THEOREM ListIsAlwaysBest ==
  ASSUME ~ValidateAtStart
  PROVE  Spec => []KeptAreBest
<1> DEFINE All == TypeInv /\ TornInv /\ KeptInv /\ BestUncut
<1>1. Init => All
  BY TypeInvInit, TornInvInit, KeptInvInit, BestInit
<1>2. All /\ [Next]_vars => All'
  BY TypeInvNext, TornInvNext, KeptInvNext, BestNext
<1>3. All => KeptAreBest
  <2> SUFFICES ASSUME All, op = "none", ~cut
               PROVE  /\ Contents(file) \subseteq ranked
                      /\ \A r \in ranked \ Contents(file) :
                           /\ Cardinality(file) = Keep
                           /\ \A k \in Contents(file) : k[2] >= r[2]
    BY DEF KeptAreBest, Contents
  <2>1. Best(file)
    BY DEF BestUncut, BestInv
  <2>2. \A k \in Contents(file) : \E e \in file : k[2] = e.value
    BY DEF Contents
  <2> QED
    BY <2>1, <2>2 DEF Best
<1> QED
  BY <1>1, <1>2, <1>3, PTL DEF Spec
===============================================================================
