------------------------------ MODULE PartsProofs ------------------------------
(***************************************************************************)
(* What RunParts says of three of its parts, for all values of the         *)
(* constants that PartsAssumption allows:                                  *)
(*   "fit"   the training loop, for every number of steps and processes,   *)
(*           every save and sync frequency, every set of gates and every   *)
(*           thing a step may log;                                         *)
(*   "eval"  the offline evaluation beside a training, for every set of    *)
(*           steps, samples and commands;                                  *)
(*   "setup" from the configuration to the first decodings, for every set  *)
(*           of configurations.                                            *)
(*                                                                         *)
(* Of the training loop, one inductive invariant is about the process and  *)
(* its checkpoints (the actions of TrainingWorker), a second about its     *)
(* watchdogs (those of GatedFit); the second reads of the first only where *)
(* the process is.  The evaluation has one of its own.  Of the setup one   *)
(* says who holds the configuration and what is left of it, and another    *)
(* what the two batches were asked for.                                    *)
(***************************************************************************)
EXTENDS RunParts, Sequences, FiniteSets, FiniteSetTheorems, TLAPS

Update == Nat \X Nat
Weights == Seq(Update)

Phases == {"down", "train", "model", "optimizer", "schedule", "saved", "log", "leave", "ended"}

\* The phases in which a step is being saved and logged.
Saves == {"model", "optimizer", "schedule", "saved"}
Working == Saves \cup {"log"}

\* A part is missing, or there is a process that wrote it.
PartOf(V) == {Fit!Missing} \cup [run : Nat \ {0}, value : V]
OptimizerStates == [kind : {"plain", "fp32"}, masters : Weights, adam : Weights]

FilesType ==
  /\ DOMAIN files = Fit!Step
  /\ \A s \in Fit!Step :
       /\ DOMAIN files[s] = Fit!Parts
       /\ files[s]["model"] \in PartOf(Weights)
       /\ files[s]["optimizer"] \in PartOf(OptimizerStates)
       /\ files[s]["schedule"] \in PartOf(Nat)

WorkerTypes ==
  /\ phase \in Phases
  /\ run \in Nat /\ step \in 0 .. MaxStep
  /\ kind \in {"plain", "fp32"}
  /\ actor \in Weights /\ masters \in Weights /\ adam \in Weights /\ ref \in Weights
  /\ schedule \in Nat
  /\ tracker \in 0 .. MaxStep
  /\ byHand \in BOOLEAN /\ excused \in BOOLEAN
  /\ FilesType

\* What a process holds belongs together in every phase.
Together == ~ excused => (actor = adam /\ (kind = "fp32" => masters = actor) /\ schedule = step)

\* A process has written no part of a step it has not reached.
NoFuture ==
  \A s \in Fit!Step, p \in Fit!Parts :
    files[s][p].run <= run /\ (files[s][p].run = run /\ run > 0 => s <= step)

\* The directory that is being saved: the parts before the next one are this
\* process's, the others are not.
Writing ==
  /\ phase # "down" => run > 0
  /\ phase \in Working => step \in Fit!Step
  /\ phase = "model" => files[step]["model"].run # run
  /\ phase \in {"model", "optimizer"} => files[step]["optimizer"].run # run
  /\ phase \in Saves \ {"model"} => files[step]["model"] = [run |-> run, value |-> actor]
  /\ phase \in {"schedule", "saved"} => files[step]["optimizer"].run = run
  /\ phase = "saved" => files[step]["schedule"].run = run

\* Unless a process started elsewhere, the tracker names a whole directory,
\* which is behind the step that is being saved.
Tracked ==
  ~ byHand =>
    /\ tracker # 0 => Fit!Whole(tracker)
    /\ tracker <= step
    /\ phase \in Saves => tracker < step

\* What the parts of a directory say of each other.
Consistent(s) ==
  LET m == files[s]["model"]
      o == files[s]["optimizer"]
      c == files[s]["schedule"]
  IN  /\ o.run # 0 /\ o.value.kind = "fp32" => o.value.masters = o.value.adam
      /\ m.run # 0 /\ m.run = o.run => m.value = o.value.adam
      /\ c.run # 0 => c.value = s
Directories == ~ excused => \A s \in Fit!Step : Consistent(s)

Ancestor == ~ excused => Fit!IsPrefix(ref, actor)

WorkerInv ==
  WorkerTypes /\ Together /\ NoFuture /\ Writing /\ Tracked /\ Directories /\ Ancestor

--------------------------------------------------------------------------------
(* Prefixes                                                                     *)

LEMMA EmptyIsPrefix == ASSUME NEW t \in Weights PROVE Fit!IsPrefix(<<>>, t)
BY DEF Fit!IsPrefix, Weights

LEMMA SelfIsPrefix == ASSUME NEW t \in Weights PROVE Fit!IsPrefix(t, t)
BY DEF Fit!IsPrefix, Weights

LEMMA PrefixOfLonger ==
  ASSUME NEW s \in Weights, NEW t \in Weights, NEW u \in Update, Fit!IsPrefix(s, t)
  PROVE  Fit!IsPrefix(s, Append(t, u))
<1>1. Len(s) <= Len(t) /\ SubSeq(s, 1, Len(s)) = SubSeq(t, 1, Len(s))
  BY DEF Fit!IsPrefix
<1>2. SubSeq(Append(t, u), 1, Len(s)) = SubSeq(t, 1, Len(s))
  BY <1>1 DEF Weights
<1> QED
  BY <1>1, <1>2 DEF Fit!IsPrefix, Weights

--------------------------------------------------------------------------------
(* The process and its checkpoints                                              *)

LEMMA MaxStepIsANumber == MaxStep \in Nat \ {0}
BY PartsAssumption DEF PartsAssumption, Fit!WorkerAssumption

LEMMA WorkerStarts == Fit!WorkerInit => WorkerInv
<1> SUFFICES ASSUME Fit!WorkerInit PROVE WorkerInv
  OBVIOUS
<1> USE DEF Fit!WorkerInit, Fit!Step, Fit!Parts, Fit!Missing
<1>1. FilesType
  BY DEF FilesType, PartOf
<1>2. WorkerTypes
  <2>1. <<>> \in Weights
    BY DEF Weights
  <2>2. step \in 0 .. MaxStep /\ tracker \in 0 .. MaxStep
    BY MaxStepIsANumber
  <2>3. phase \in Phases /\ run \in Nat /\ kind \in {"plain", "fp32"} /\ schedule \in Nat
    BY DEF Phases
  <2>4. byHand \in BOOLEAN /\ excused \in BOOLEAN
    OBVIOUS
  <2> QED
    BY <2>1, <2>2, <2>3, <2>4, <1>1, Zenon DEF WorkerTypes
<1>3. Together /\ NoFuture /\ Writing /\ Tracked
  BY DEF Together, NoFuture, Writing, Tracked, Working, Saves
<1>4. Directories
  BY DEF Directories, Consistent
<1>5. Ancestor
  BY EmptyIsPrefix, <1>2 DEF Ancestor, WorkerTypes
<1> QED
  BY <1>2, <1>3, <1>4, <1>5 DEF WorkerInv

\* A part with a process that wrote it is not missing.
LEMMA PresentParts ==
  ASSUME FilesType, NEW s \in Fit!Step, NEW p \in Fit!Parts
  PROVE  files[s][p] # Fit!Missing <=> files[s][p].run # 0
BY DEF FilesType, PartOf, Fit!Parts, Fit!Missing

\* A directory that may be loaded without excuse has all its parts.
LEMMA LoadedIsComplete ==
  ASSUME WorkerInv, NEW s \in Fit!Step, NEW k \in {"plain", "fp32"},
         s \in {0, tracker} \cup {t \in Fit!Step : "model" \in Fit!Written(t)},
         byHand' = (byHand \/ s # tracker), ~ Fit!Patchwork(s, k)
  PROVE  /\ Fit!Written(s) = Fit!Parts
         /\ k = "plain" => Fit!Whole(s)
<1>1. CASE byHand'
  BY <1>1 DEF Fit!Patchwork
<1>2. CASE ~ byHand'
  <2>1. ~ byHand /\ s = tracker
    BY <1>2, Zenon
  <2>2. s # 0
    BY MaxStepIsANumber DEF Fit!Step
  <2> QED
    BY <2>1, <2>2 DEF WorkerInv, Tracked, Fit!Whole
<1> QED
  BY <1>1, <1>2
\* The files are not touched: neither is what is said of them.
LEMMA FilesStay == FilesType /\ UNCHANGED files => FilesType'
BY DEF FilesType

\* What a start without excuse loads belongs together.
LEMMA LoadsTogether ==
  ASSUME WorkerInv, NEW s \in Fit!Step, kind' \in {"plain", "fp32"},
         s \in {0, tracker} \cup {t \in Fit!Step : "model" \in Fit!Written(t)},
         byHand' = (byHand \/ s # tracker), Fit!Load(s, kind'),
         ~ excused, ~ Fit!Patchwork(s, kind')
  PROVE  actor' = adam' /\ (kind' = "fp32" => masters' = actor') /\ schedule' = s
<1> DEFINE m == files[s]["model"]
           o == files[s]["optimizer"]
           c == files[s]["schedule"]
<1>1. Fit!Written(s) = Fit!Parts /\ (kind' = "plain" => Fit!Whole(s))
  BY LoadedIsComplete
<1>2. m # Fit!Missing /\ o # Fit!Missing /\ c # Fit!Missing
  BY <1>1 DEF Fit!Written, Fit!Parts
<1>3. m.run # 0 /\ o.run # 0 /\ c.run # 0
  BY <1>2, PresentParts DEF WorkerInv, WorkerTypes, Fit!Parts
<1>4. Consistent(s)
  BY DEF WorkerInv, Directories
<1>5. adam' = o.value.adam /\ schedule' = s
  BY <1>2, <1>3, <1>4 DEF Fit!Load, Consistent
<1>6. CASE kind' = "fp32"
  <2>1. Fit!HasMasters(o)
    BY <1>2, <1>6 DEF Fit!Patchwork
  <2>2. o.value.kind = "fp32"
    BY <2>1 DEF Fit!HasMasters
  <2>3. o.value.masters = o.value.adam
    BY <1>3, <1>4, <2>2 DEF Consistent
  <2> QED
    BY <1>5, <1>6, <2>1, <2>3 DEF Fit!Load, Fit!LoadWeights, Fit!MastersOf
<1>7. CASE kind' = "plain"
  <2>1. m.run = o.run
    BY <1>1, <1>7 DEF Fit!Whole, Fit!Parts
  <2>2. m.value = o.value.adam
    BY <1>3, <1>4, <2>1 DEF Consistent
  <2> QED
    BY <1>5, <1>7, <2>2 DEF Fit!Load, Fit!LoadWeights
<1> QED
  BY <1>6, <1>7

\* What a start loads has its type.
LEMMA LoadsTyped ==
  ASSUME FilesType, NEW s \in Fit!Step, NEW k \in {"plain", "fp32"},
         Fit!Load(s, k)
  PROVE  actor' \in Weights /\ masters' \in Weights /\ adam' \in Weights /\ schedule' \in Nat
<1> DEFINE m == files[s]["model"]
           o == files[s]["optimizer"]
           c == files[s]["schedule"]
<1>0. <<>> \in Weights
  BY DEF Weights
<1>2. m.value \in Weights
  BY <1>0 DEF FilesType, PartOf, Fit!Missing
<1>3. o # Fit!Missing => o.value \in OptimizerStates
  BY DEF FilesType, PartOf
<1>4. o # Fit!Missing => o.value.masters \in Weights /\ o.value.adam \in Weights
  BY <1>3 DEF OptimizerStates
<1>5. c # Fit!Missing => c.value \in Nat
  BY DEF FilesType, PartOf
<1>6. actor' \in Weights /\ masters' \in Weights
  BY <1>0, <1>2, <1>4 DEF Fit!Load, Fit!LoadWeights, Fit!HasMasters, Fit!MastersOf
<1>7. adam' \in Weights /\ schedule' \in Nat
  BY <1>0, <1>4, <1>5 DEF Fit!Load
<1> QED
  BY <1>6, <1>7

LEMMA StartKeepsWorker == WorkerInv /\ Fit!StartProcess => WorkerInv'
<1> SUFFICES ASSUME WorkerInv, Fit!StartProcess PROVE WorkerInv'
  OBVIOUS
<1> USE DEF WorkerInv
<1>1. PICK s \in {0, tracker} \cup {t \in Fit!Step : "model" \in Fit!Written(t)} :
        /\ step' = s
        /\ byHand' = (byHand \/ s # tracker)
        /\ IF s = 0 THEN Fit!FromScratch /\ UNCHANGED excused
           ELSE Fit!Load(s, kind') /\ excused' = (excused \/ Fit!Patchwork(s, kind'))
  BY DEF Fit!StartProcess
<1>2. /\ run' = run + 1 /\ phase' = "train" /\ ref' = <<>> /\ kind' \in {"plain", "fp32"}
      /\ UNCHANGED <<files, tracker>>
  BY DEF Fit!StartProcess, Fit!FreshRef
<1>3. s \in 0 .. MaxStep
  BY MaxStepIsANumber DEF WorkerTypes, Fit!Step
<1>4. s # 0 => s \in Fit!Step
  BY <1>3, MaxStepIsANumber DEF Fit!Step
<1>5. WorkerTypes'
  <2>1. FilesType'
    BY <1>2, FilesStay DEF WorkerTypes
  <2>2. byHand' \in BOOLEAN /\ excused' \in BOOLEAN
    BY <1>1 DEF WorkerTypes, Fit!Patchwork
  <2>3. actor' \in Weights /\ masters' \in Weights /\ adam' \in Weights /\ schedule' \in Nat
    <3>1. CASE s = 0
      BY <1>1, <3>1 DEF Fit!FromScratch, Weights
    <3>2. CASE s # 0
      BY <1>1, <1>2, <1>4, <3>2, LoadsTyped DEF WorkerTypes
    <3> QED
      BY <3>1, <3>2
  <2>4. phase' \in Phases /\ run' \in Nat /\ step' \in 0 .. MaxStep /\ ref' \in Weights
        /\ tracker' \in 0 .. MaxStep
    BY <1>1, <1>2, <1>3 DEF WorkerTypes, Phases, Weights
  <2> QED
    BY <2>1, <2>2, <2>3, <2>4, <1>2, Zenon DEF WorkerTypes
<1>6. Together'
  <2> SUFFICES ASSUME ~ excused' PROVE actor' = adam' /\ (kind' = "fp32" => masters' = actor') /\ schedule' = step'
    BY DEF Together
  <2>1. CASE s = 0
    BY <1>1, <2>1 DEF Fit!FromScratch
  <2>2. CASE s # 0
    <3>1. ~ excused /\ ~ Fit!Patchwork(s, kind')
      BY <1>1, <2>2, Zenon
    <3> QED
      BY <1>1, <1>2, <1>4, <2>2, <3>1, LoadsTogether
  <2> QED
    BY <2>1, <2>2
<1>7. NoFuture'
  BY <1>2 DEF NoFuture, WorkerTypes, FilesType, PartOf, Fit!Missing, Fit!Parts
<1>8. Writing' /\ Tracked'
  <2>1. Writing'
    BY <1>2 DEF Writing, Working, Saves, WorkerTypes
  <2>2. ~ byHand' => ~ byHand /\ s = tracker
    BY <1>1, Zenon
  <2>3. Fit!Whole(tracker) => Fit!Whole(tracker)'
    BY <1>2 DEF Fit!Whole, Fit!Written
  <2> QED
    BY <1>1, <1>2, <1>3, <2>1, <2>2, <2>3 DEF Tracked, Saves
<1>9. Directories'
  <2>1. ~ excused' => ~ excused
    BY <1>1, Zenon
  <2> QED
    BY <1>2, <2>1 DEF Directories, Consistent
<1>10. Ancestor'
  BY <1>2, <1>5, EmptyIsPrefix DEF Ancestor, WorkerTypes
<1> QED
  BY <1>5, <1>6, <1>7, <1>8, <1>9, <1>10

LEMMA TrainKeepsWorker == WorkerInv /\ Fit!Train => WorkerInv'
<1> SUFFICES ASSUME WorkerInv, Fit!Train PROVE WorkerInv'
  OBVIOUS
<1> USE DEF WorkerInv
<1>1. /\ phase = "train" /\ step < MaxStep /\ step' = step + 1 /\ schedule' = schedule + 1
      /\ phase' \in {"model", "log"}
      /\ UNCHANGED <<run, kind, files, tracker, byHand, excused>>
  BY DEF Fit!Train, Fit!historyVars
<1>2. PICK finite \in BOOLEAN : Fit!OptimizerStep(finite)
  BY DEF Fit!Train
<1>3. step' \in Fit!Step
  BY <1>1, MaxStepIsANumber DEF WorkerTypes, Fit!Step
<1> DEFINE update == <<run, step'>>
           after == Append(Fit!Base, update)
<1>4. update \in Update
  BY <1>3, MaxStepIsANumber DEF WorkerTypes, Update, Fit!Step
<1>5. Fit!Base \in Weights /\ after \in Weights /\ Append(adam, update) \in Weights
  BY <1>4 DEF Fit!Base, WorkerTypes, Weights
<1>6. \/ actor' = after /\ masters' = (IF kind = "fp32" THEN actor' ELSE masters) /\ adam' = Append(adam, update)
      \/ UNCHANGED <<actor, masters, adam>>
  BY <1>2 DEF Fit!OptimizerStep
<1>7. ref' \in {actor', ref}
  BY DEF Fit!Train, Fit!SyncRef
<1>8. ~ excused => Fit!Base = actor /\ Fit!IsPrefix(actor, actor')
  <2>1. ~ excused => Fit!Base = actor
    BY DEF Fit!Base, Together
  <2>2. Fit!IsPrefix(actor, Append(actor, update)) /\ Fit!IsPrefix(actor, actor)
    <3> HIDE DEF update
    <3> QED
      BY <1>4, SelfIsPrefix, PrefixOfLonger DEF WorkerTypes
  <2> QED
    BY <1>6, <2>1, <2>2
<1> HIDE DEF update, after
<1>9. WorkerTypes'
  <2>1. FilesType'
    BY <1>1, FilesStay DEF WorkerTypes
  <2>2. actor' \in Weights /\ masters' \in Weights /\ adam' \in Weights
    BY <1>5, <1>6 DEF WorkerTypes
  <2>3. ref' \in Weights
    BY <1>7, <2>2 DEF WorkerTypes
  <2>4. phase' \in Phases /\ step' \in 0 .. MaxStep /\ schedule' \in Nat
    BY <1>1, <1>3, MaxStepIsANumber DEF WorkerTypes, Phases, Fit!Step
  <2> QED
    BY <1>1, <2>1, <2>2, <2>3, <2>4 DEF WorkerTypes
<1>10. Together'
  <2> SUFFICES ASSUME ~ excused PROVE actor' = adam' /\ (kind = "fp32" => masters' = actor') /\ schedule' = step'
    BY <1>1 DEF Together
  <2>1. actor = adam /\ (kind = "fp32" => masters = actor) /\ schedule = step
    BY DEF Together
  <2> QED
    BY <1>1, <1>6, <1>8, <2>1 DEF after
<1>11. NoFuture'
  BY <1>1, <1>3 DEF NoFuture, WorkerTypes, Fit!Step
<1>12. Writing'
  <2>1. run > 0
    BY <1>1 DEF Writing
  <2>2. \A p \in Fit!Parts : files[step'][p].run # run
    BY <1>1, <1>3, <2>1 DEF NoFuture, WorkerTypes
  <2> QED
    BY <1>1, <1>3, <2>1, <2>2 DEF Writing, Saves, Working, Fit!Parts
<1>13. Tracked'
  <2>1. Fit!Whole(tracker) => Fit!Whole(tracker)'
    BY <1>1 DEF Fit!Whole, Fit!Written
  <2> QED
    BY <1>1, <2>1 DEF Tracked, WorkerTypes, Saves
<1>14. Directories'
  BY <1>1 DEF Directories, Consistent
<1>15. Ancestor'
  <2> SUFFICES ASSUME ~ excused PROVE Fit!IsPrefix(ref', actor')
    BY <1>1 DEF Ancestor
  <2>1. CASE ref' = actor'
    BY <2>1, <1>9, SelfIsPrefix DEF WorkerTypes
  <2>2. CASE ref' = ref
    <3>1. Fit!IsPrefix(ref, actor)
      BY DEF Ancestor
    <3>2. Fit!IsPrefix(ref, Append(actor, update))
      BY <3>1, <1>4, PrefixOfLonger DEF WorkerTypes
    <3> QED
      BY <1>6, <1>8, <2>2, <3>1, <3>2 DEF after
  <2> QED
    BY <1>7, <2>1, <2>2
<1> QED
  BY <1>9, <1>10, <1>11, <1>12, <1>13, <1>14, <1>15

\* One part of one directory is written.
LEMMA WritesOnePart ==
  ASSUME FilesType, step \in Fit!Step, NEW p \in Fit!Parts, NEW value, NEW next,
         Fit!WritePart(p, value, next)
  PROVE  /\ DOMAIN files' = Fit!Step
         /\ \A s \in Fit!Step : DOMAIN files'[s] = Fit!Parts
         /\ \A s \in Fit!Step, q \in Fit!Parts :
              files'[s][q] = IF s = step /\ q = p THEN [run |-> run, value |-> value] ELSE files[s][q]
BY DEF Fit!WritePart, FilesType

\* Whatever part it is, the memory, the tracker and its directory stay as they are.
LEMMA WriteKeeps ==
  ASSUME WorkerInv, step \in Fit!Step, NEW p \in Fit!Parts, NEW value, NEW next \in Phases,
         Fit!WritePart(p, value, next),
         p = "model" => value \in Weights,
         p = "optimizer" => value \in OptimizerStates,
         p = "schedule" => value \in Nat
  PROVE  WorkerTypes' /\ Together' /\ NoFuture' /\ Ancestor' /\ Tracked'
<1> USE DEF WorkerInv
<1>1. /\ phase' = next
      /\ UNCHANGED <<run, step, kind, actor, masters, adam, schedule, ref, tracker, byHand, excused>>
  BY DEF Fit!WritePart, Fit!memoryVars, Fit!historyVars
<1>2. /\ DOMAIN files' = Fit!Step
      /\ \A s \in Fit!Step : DOMAIN files'[s] = Fit!Parts
      /\ \A s \in Fit!Step, q \in Fit!Parts :
           files'[s][q] = IF s = step /\ q = p THEN [run |-> run, value |-> value] ELSE files[s][q]
  BY WritesOnePart DEF WorkerTypes
<1>3. run \in Nat \ {0}
  BY DEF Writing, WorkerTypes, Fit!WritePart, Fit!Parts
<1>4. FilesType'
  <2> SUFFICES ASSUME NEW s \in Fit!Step
               PROVE  /\ files'[s]["model"] \in PartOf(Weights)
                      /\ files'[s]["optimizer"] \in PartOf(OptimizerStates)
                      /\ files'[s]["schedule"] \in PartOf(Nat)
    BY <1>2 DEF FilesType
  <2>1. /\ p = "model" => [run |-> run, value |-> value] \in PartOf(Weights)
        /\ p = "optimizer" => [run |-> run, value |-> value] \in PartOf(OptimizerStates)
        /\ p = "schedule" => [run |-> run, value |-> value] \in PartOf(Nat)
    BY <1>3 DEF PartOf
  <2>2. /\ files[s]["model"] \in PartOf(Weights)
        /\ files[s]["optimizer"] \in PartOf(OptimizerStates)
        /\ files[s]["schedule"] \in PartOf(Nat)
    BY DEF WorkerTypes, FilesType
  <2>3. {"model", "optimizer", "schedule"} \subseteq Fit!Parts
    BY DEF Fit!Parts
  <2> QED
    BY <1>2, <2>1, <2>2, <2>3
<1>5. WorkerTypes'
  BY <1>1, <1>4 DEF WorkerTypes
<1>6. Together' /\ Ancestor'
  BY <1>1 DEF Together, Ancestor
<1>7. NoFuture'
  <2> SUFFICES ASSUME NEW s \in Fit!Step, NEW q \in Fit!Parts
               PROVE  files'[s][q].run <= run /\ (files'[s][q].run = run => s <= step)
    BY <1>1, <1>3 DEF NoFuture
  <2>1. CASE s = step /\ q = p
    BY <1>2, <1>3, <2>1 DEF WorkerTypes
  <2>2. CASE ~ (s = step /\ q = p)
    BY <1>2, <1>3, <2>2 DEF NoFuture
  <2> QED
    BY <2>1, <2>2
<1>8. Tracked'
  <2> SUFFICES ASSUME ~ byHand
               PROVE  (tracker # 0 => Fit!Whole(tracker)') /\ tracker < step
    BY <1>1, MaxStepIsANumber DEF Tracked, WorkerTypes, Saves, Fit!Step
  <2>1. (tracker # 0 => Fit!Whole(tracker)) /\ tracker < step
    BY DEF Tracked, Saves, Fit!WritePart, Fit!Parts
  <2>2. tracker # 0 => \A q \in Fit!Parts : files'[tracker][q] = files[tracker][q]
    BY <1>2, <2>1, MaxStepIsANumber DEF WorkerTypes, Fit!Step
  <2> QED
    BY <1>1, <2>1, <2>2 DEF Fit!Whole, Fit!Written
<1> QED
  BY <1>5, <1>6, <1>7, <1>8

LEMMA SaveModelKeepsWorker == WorkerInv /\ Fit!SaveModel => WorkerInv'
<1> SUFFICES ASSUME WorkerInv, Fit!SaveModel PROVE WorkerInv'
  OBVIOUS
<1> USE DEF WorkerInv
<1>1. Fit!WritePart("model", actor, "optimizer")
  BY DEF Fit!SaveModel
<1>2. /\ phase = "model" /\ phase' = "optimizer"
      /\ UNCHANGED <<run, step, kind, actor, masters, adam, schedule, ref, tracker, byHand, excused>>
  BY <1>1 DEF Fit!WritePart, Fit!memoryVars, Fit!historyVars
<1>3. step \in Fit!Step /\ run > 0 /\ run \in Nat
  BY <1>2 DEF Writing, Working, Saves, WorkerTypes
<1>4. \A s \in Fit!Step, q \in Fit!Parts :
        files'[s][q] = IF s = step /\ q = "model" THEN [run |-> run, value |-> actor] ELSE files[s][q]
  BY <1>1, <1>3, WritesOnePart DEF WorkerTypes, Fit!Parts
<1>5. WorkerTypes' /\ Together' /\ NoFuture' /\ Ancestor' /\ Tracked'
  BY <1>1, <1>3, WriteKeeps DEF WorkerTypes, Fit!Parts, Phases
<1>6. Writing'
  BY <1>2, <1>3, <1>4 DEF Writing, Saves, Working, Fit!Parts
<1>7. Directories'
  <2> SUFFICES ASSUME ~ excused, NEW s \in Fit!Step PROVE Consistent(s)'
    BY <1>2 DEF Directories
  <2>1. Consistent(s)
    BY DEF Directories
  <2>2. files[step]["optimizer"].run # run
    BY <1>2 DEF Writing
  <2> QED
    BY <1>4, <2>1, <2>2 DEF Consistent, Fit!Parts
<1> QED
  BY <1>5, <1>6, <1>7

LEMMA SaveOptimizerKeepsWorker == WorkerInv /\ Fit!SaveOptimizer => WorkerInv'
<1> SUFFICES ASSUME WorkerInv, Fit!SaveOptimizer PROVE WorkerInv'
  OBVIOUS
<1> USE DEF WorkerInv
<1>1. Fit!WritePart("optimizer", Fit!OptimizerState, "schedule")
  BY DEF Fit!SaveOptimizer
<1>2. /\ phase = "optimizer" /\ phase' = "schedule"
      /\ UNCHANGED <<run, step, kind, actor, masters, adam, schedule, ref, tracker, byHand, excused>>
  BY <1>1 DEF Fit!WritePart, Fit!memoryVars, Fit!historyVars
<1>3. step \in Fit!Step /\ run > 0 /\ run \in Nat
  BY <1>2 DEF Writing, Working, Saves, WorkerTypes
<1>4. \A s \in Fit!Step, q \in Fit!Parts :
        files'[s][q] = IF s = step /\ q = "optimizer" THEN [run |-> run, value |-> Fit!OptimizerState] ELSE files[s][q]
  BY <1>1, <1>3, WritesOnePart DEF WorkerTypes, Fit!Parts
<1>5. WorkerTypes' /\ Together' /\ NoFuture' /\ Ancestor' /\ Tracked'
  <2>1. Fit!OptimizerState \in OptimizerStates
    BY DEF Fit!OptimizerState, OptimizerStates, WorkerTypes
  <2> QED
    BY <1>1, <1>3, <2>1, WriteKeeps DEF Fit!Parts, Phases
<1>6. Writing'
  BY <1>2, <1>3, <1>4 DEF Writing, Saves, Working, Fit!Parts
<1>7. Directories'
  <2> SUFFICES ASSUME ~ excused, NEW s \in Fit!Step PROVE Consistent(s)'
    BY <1>2 DEF Directories
  <2>1. Consistent(s)
    BY DEF Directories
  <2>2. files[step]["model"] = [run |-> run, value |-> actor]
    BY <1>2 DEF Writing, Saves
  <2>3. actor = adam /\ (kind = "fp32" => masters = adam)
    BY DEF Together
  <2> QED
    BY <1>4, <2>1, <2>2, <2>3 DEF Consistent, Fit!Parts, Fit!OptimizerState
<1> QED
  BY <1>5, <1>6, <1>7

LEMMA SaveScheduleKeepsWorker == WorkerInv /\ Fit!SaveSchedule => WorkerInv'
<1> SUFFICES ASSUME WorkerInv, Fit!SaveSchedule PROVE WorkerInv'
  OBVIOUS
<1> USE DEF WorkerInv
<1>1. Fit!WritePart("schedule", schedule, "saved")
  BY DEF Fit!SaveSchedule
<1>2. /\ phase = "schedule" /\ phase' = "saved"
      /\ UNCHANGED <<run, step, kind, actor, masters, adam, schedule, ref, tracker, byHand, excused>>
  BY <1>1 DEF Fit!WritePart, Fit!memoryVars, Fit!historyVars
<1>3. step \in Fit!Step /\ run > 0 /\ run \in Nat
  BY <1>2 DEF Writing, Working, Saves, WorkerTypes
<1>4. \A s \in Fit!Step, q \in Fit!Parts :
        files'[s][q] = IF s = step /\ q = "schedule" THEN [run |-> run, value |-> schedule] ELSE files[s][q]
  BY <1>1, <1>3, WritesOnePart DEF WorkerTypes, Fit!Parts
<1>5. WorkerTypes' /\ Together' /\ NoFuture' /\ Ancestor' /\ Tracked'
  BY <1>1, <1>3, WriteKeeps DEF WorkerTypes, Fit!Parts, Phases
<1>6. Writing'
  BY <1>2, <1>3, <1>4 DEF Writing, Saves, Working, Fit!Parts
<1>7. Directories'
  <2> SUFFICES ASSUME ~ excused, NEW s \in Fit!Step PROVE Consistent(s)'
    BY <1>2 DEF Directories
  <2>1. Consistent(s)
    BY DEF Directories
  <2>2. schedule = step
    BY DEF Together
  <2> QED
    BY <1>4, <2>1, <2>2 DEF Consistent, Fit!Parts
<1> QED
  BY <1>5, <1>6, <1>7

LEMMA SaveTrackerKeepsWorker == WorkerInv /\ Fit!SaveTracker => WorkerInv'
<1> SUFFICES ASSUME WorkerInv, Fit!SaveTracker PROVE WorkerInv'
  OBVIOUS
<1> USE DEF WorkerInv
<1>1. /\ phase = "saved" /\ phase' = "log" /\ tracker' = step
      /\ UNCHANGED <<run, step, kind, actor, masters, adam, schedule, ref, files, byHand, excused>>
  BY DEF Fit!SaveTracker, Fit!memoryVars, Fit!historyVars
<1>2. step \in Fit!Step /\ run > 0 /\ run \in Nat
  BY <1>1 DEF Writing, Working, Saves, WorkerTypes
<1>3. WorkerTypes'
  BY <1>1, FilesStay DEF WorkerTypes, Phases
<1>4. Tracked'
  <2>1. \A p \in Fit!Parts : files[step][p].run = run
    BY <1>1 DEF Writing, Saves, Fit!Parts
  <2>2. \A p \in Fit!Parts : files[step][p] # Fit!Missing
    BY <1>2, <2>1, PresentParts DEF WorkerTypes
  <2>3. Fit!Whole(step)
    BY <2>1, <2>2 DEF Fit!Whole, Fit!Written
  <2>4. Fit!Whole(tracker)'
    BY <1>1, <2>3 DEF Fit!Whole, Fit!Written
  <2> QED
    BY <1>1, <2>4 DEF Tracked, Saves, WorkerTypes
<1>5. Together' /\ NoFuture' /\ Directories' /\ Ancestor'
  BY <1>1 DEF Together, NoFuture, Directories, Consistent, Ancestor
<1>6. Writing'
  BY <1>1, <1>2 DEF Writing, Saves, Working
<1> QED
  BY <1>3, <1>4, <1>5, <1>6

\* The process goes on, leaves, ends or is killed, and nothing else happens to it.
LEMMA MovesKeepWorker ==
  ASSUME WorkerInv, phase \notin {"down"}, phase' \in {"train", "leave", "ended", "down"},
         UNCHANGED <<run, step, Fit!memoryVars, files, tracker, Fit!historyVars>>
  PROVE  WorkerInv'
<1> USE DEF WorkerInv
<1>1. UNCHANGED <<run, step, kind, actor, masters, adam, schedule, ref, files, tracker, byHand, excused>>
  BY DEF Fit!memoryVars, Fit!historyVars
<1>2. WorkerTypes'
  BY <1>1, FilesStay DEF WorkerTypes, Phases
<1>3. Together' /\ NoFuture' /\ Directories' /\ Ancestor'
  BY <1>1 DEF Together, NoFuture, Directories, Consistent, Ancestor
<1>4. Writing'
  BY <1>1 DEF Writing, Saves, Working
<1>5. Tracked'
  BY <1>1 DEF Tracked, Saves, Fit!Whole, Fit!Written
<1> QED
  BY <1>2, <1>3, <1>4, <1>5

LEMMA StutterKeepsWorker == WorkerInv /\ UNCHANGED Fit!workerVars => WorkerInv'
<1> SUFFICES ASSUME WorkerInv, UNCHANGED Fit!workerVars PROVE WorkerInv'
  OBVIOUS
<1> USE DEF WorkerInv
<1>1. UNCHANGED <<phase, run, step, kind, actor, masters, adam, schedule, ref, files, tracker, byHand, excused>>
  BY DEF Fit!workerVars, Fit!memoryVars, Fit!historyVars
<1>2. WorkerTypes'
  BY <1>1, FilesStay DEF WorkerTypes
<1>3. Together' /\ NoFuture' /\ Directories' /\ Ancestor'
  BY <1>1 DEF Together, NoFuture, Directories, Consistent, Ancestor
<1>4. Writing' /\ Tracked'
  BY <1>1 DEF Writing, Tracked, Fit!Whole, Fit!Written
<1> QED
  BY <1>2, <1>3, <1>4

LEMMA FitKeepsWorker == WorkerInv /\ (Fit!Next \/ UNCHANGED Fit!vars) => WorkerInv'
<1> SUFFICES ASSUME WorkerInv, Fit!Next \/ UNCHANGED Fit!vars PROVE WorkerInv'
  OBVIOUS
<1>1. CASE Fit!Start
  BY <1>1, StartKeepsWorker DEF Fit!Start
<1>2. CASE Fit!Log
  <2>1. phase = "log" /\ phase' \in {"train", "leave"}
    BY <1>2 DEF Fit!Log, Fit!Abort, Fit!Quiet, Fit!GoOn
  <2> QED
    BY <1>2, <2>1, MovesKeepWorker DEF Fit!Log
<1>3. CASE Fit!StepRaises
  BY <1>3, MovesKeepWorker DEF Fit!StepRaises
<1>4. CASE Fit!Leave
  BY <1>4, MovesKeepWorker DEF Fit!Leave
<1>5. CASE Fit!Work
  BY <1>5, TrainKeepsWorker, SaveModelKeepsWorker, SaveOptimizerKeepsWorker,
     SaveScheduleKeepsWorker, SaveTrackerKeepsWorker DEF Fit!Work
<1>6. CASE Fit!Crash
  BY <1>6, MovesKeepWorker DEF Fit!Crash
<1>7. CASE UNCHANGED Fit!vars
  BY <1>7, StutterKeepsWorker DEF Fit!vars
<1> QED
  BY <1>1, <1>2, <1>3, <1>4, <1>5, <1>6, <1>7 DEF Fit!Next

--------------------------------------------------------------------------------
(* The watchdogs                                                                *)

Verdicts == [yes : Nat, no : Nat, skip : Nat]

GateTypes ==
  /\ config \in Configs
  /\ \A g \in DOMAIN atGate : g \in Nat /\ atGate[g] \in Nat
  /\ \A g \in DOMAIN logged : logged[g].run \in Nat
  /\ tally.kl \in Verdicts /\ tally.lp \in Verdicts
  /\ status \in {-1, 0, 1, 2, 3}
  /\ aborted \in BOOLEAN /\ unreported \in BOOLEAN

\* What a process remembers of its gates is what it has logged of them.
Remembers ==
  /\ Fit!GatesOf(run) = DOMAIN atGate
  /\ \A g \in DOMAIN atGate : Fit!Kl(g) = atGate[g]
  /\ \A g \in DOMAIN logged : logged[g].run <= run

\* No gate is ahead of the process, nor at the step that is still to be logged.
Behind == \A g \in DOMAIN atGate : g <= step /\ (phase \in Working => g < step)

\* g is neither under the floor nor less than half of the gate before it in f.
Judged(f, g) ==
  /\ f[g] >= KlFloor
  /\ \A h \in DOMAIN f : h < g /\ (\A i \in DOMAIN f : ~ (h < i /\ i < g)) => 2 * f[g] >= f[h]
AllJudged ==
  config.watchdog /\ ~ unreported /\ ~ aborted => \A g \in DOMAIN atGate : Judged(atGate, g)

\* An abort is on its way out, and does not become a success.
AbortEnds == aborted => phase \in {"leave", "ended", "down"} /\ status # 0

\* 0 is the status of a process that has trained all its steps, and if it was
\* compared with the reference run, of one that agrees with it.
Earned ==
  status = 0 =>
    /\ step = MaxStep /\ phase \in {"leave", "ended"}
    /\ phase = "ended" /\ config.report => Fit!MetricPasses(tally.kl) /\ Fit!MetricPasses(tally.lp)

GateInv == GateTypes /\ Remembers /\ Behind /\ AllJudged /\ AbortEnds /\ Earned

\* All of it, while the process is the part a behaviour follows.
FitInv == part = "fit" => WorkerInv /\ GateInv

LEMMA ConfigType ==
  GateTypes => config \in [watchdog : BOOLEAN, report : BOOLEAN, logging : Nat, runs : 1 .. MaxRuns]
BY PartsAssumption DEF PartsAssumption, Fit!GatesAssumption, GateTypes

LEMMA ReadingType ==
  ASSUME NEW r \in Readings
  PROVE  /\ r.kl \in Nat \cup {-1}
         /\ r.klAligned \in {"yes", "no", "skip"} /\ r.lpAligned \in {"yes", "no", "skip"}
BY PartsAssumption DEF PartsAssumption, Fit!GatesAssumption

LEMMA CountsOneMore ==
  ASSUME NEW t \in Verdicts, NEW v \in {"yes", "no", "skip"}
  PROVE  [t EXCEPT ![v] = @ + 1] \in Verdicts
<1>1. CASE v = "yes"
  BY <1>1 DEF Verdicts
<1>2. CASE v = "no"
  BY <1>2 DEF Verdicts
<1>3. CASE v = "skip"
  BY <1>3 DEF Verdicts
<1> QED
  BY <1>1, <1>2, <1>3

LEMMA KlFloorIsANumber == KlFloor \in Nat
BY PartsAssumption DEF PartsAssumption, Fit!GatesAssumption

LEMMA GateStarts == Fit!Init => GateInv
<1> SUFFICES ASSUME Fit!Init PROVE GateInv
  OBVIOUS
<1>1. phase = "down" /\ run = 0 /\ step = 0
  BY DEF Fit!Init, Fit!WorkerInit
<1>2. atGate = Fit!Nothing /\ logged = Fit!Nothing /\ DOMAIN Fit!Nothing = {}
  BY DEF Fit!Init, Fit!Nothing
<1>3. GateTypes
  BY <1>2 DEF Fit!Init, Fit!NoSteps, GateTypes, Verdicts
<1>4. Remembers /\ Behind /\ AllJudged
  BY <1>2 DEF Remembers, Behind, AllJudged, Fit!GatesOf
<1>5. AbortEnds /\ Earned
  BY DEF Fit!Init, AbortEnds, Earned
<1> QED
  BY <1>3, <1>4, <1>5 DEF GateInv

\* A new process remembers nothing, and no gate that is logged is its own.
LEMMA StartKeepsGates == WorkerInv /\ GateInv /\ Fit!Start => GateInv'
<1> SUFFICES ASSUME WorkerInv, GateInv, Fit!Start PROVE GateInv'
  OBVIOUS
<1> USE DEF GateInv
<1>1. /\ run' = run + 1 /\ phase' = "train" /\ UNCHANGED config
      /\ atGate' = Fit!Nothing /\ tally' = Fit!NoSteps /\ status' = -1
      /\ aborted' = FALSE /\ unreported' = FALSE
      /\ logged' = Fit!Kept(logged, 1 .. step')
  BY DEF Fit!Start, Fit!StartProcess
<1>2. DOMAIN atGate' = {}
  BY <1>1 DEF Fit!Nothing
<1>3. \A g \in DOMAIN logged' : g \in DOMAIN logged /\ logged'[g] = logged[g]
  BY <1>1 DEF Fit!Kept
<1>4. run \in Nat
  BY DEF WorkerInv, WorkerTypes
<1>5. GateTypes'
  BY <1>1, <1>2, <1>3 DEF GateTypes, Fit!NoSteps, Verdicts
<1>6. Remembers'
  BY <1>1, <1>2, <1>3, <1>4 DEF GateTypes, Remembers, Fit!GatesOf
<1>7. Behind' /\ AllJudged' /\ AbortEnds' /\ Earned'
  BY <1>1, <1>2 DEF Behind, AllJudged, AbortEnds, Earned
<1> QED
  BY <1>5, <1>6, <1>7

\* Whatever leaves the watchdogs alone and is not their business.
LEMMA WorkKeepsGates ==
  ASSUME WorkerInv, GateInv, UNCHANGED <<run, config, atGate, tally, aborted, logged, unreported>>,
         phase' \in Phases, phase # "down", status' \in {-1, 1, 2, 3}, step' \in Nat,
         \/ step' = step /\ (phase' \in Working => phase \in Working)
         \/ step' = step + 1,
         aborted => phase' = "down"
  PROVE  GateInv'
<1> USE DEF GateInv
<1>1. GateTypes'
  BY DEF GateTypes
<1>2. Remembers'
  BY DEF Remembers, Fit!GatesOf, Fit!Kl
<1>3. Behind'
  BY DEF Behind, GateTypes, WorkerInv, WorkerTypes
<1>4. AllJudged'
  BY DEF AllJudged, Judged
<1>5. AbortEnds' /\ Earned'
  BY DEF AbortEnds, Earned
<1> QED
  BY <1>1, <1>2, <1>3, <1>4, <1>5

\* A watchdog passes, or its abort fails: the loop goes on, and after the last step
\* the status is 0.
LEMMA LogKeepsGates == WorkerInv /\ GateInv /\ Fit!Log => GateInv'
<1> SUFFICES ASSUME WorkerInv, GateInv, Fit!Log PROVE GateInv'
  OBVIOUS
<1> USE DEF GateInv
<1>1. phase = "log" /\ UNCHANGED <<run, step, config>>
  BY DEF Fit!Log
<1>2. PICK r \in Readings :
        /\ tally' = IF step > Warmup THEN Fit!Recorded(r) ELSE tally
        /\ IF Fit!ShouldLog
           THEN /\ atGate' = IF config.watchdog /\ step \in GateSteps THEN Fit!Remembered(r) ELSE atGate
                /\ logged' = IF config.watchdog /\ step \in GateSteps /\ r.kl >= 0
                             THEN Fit!With(logged, step, [run |-> run, kl |-> r.kl]) ELSE logged
                /\ IF Fit!GateFails(r) \/ Fit!LengthFails(r) THEN Fit!Abort(r) ELSE Fit!Quiet
           ELSE Fit!Quiet /\ UNCHANGED <<atGate, logged>>
  BY DEF Fit!Log
<1>3. run \in Nat /\ step \in Nat /\ step \in 0 .. MaxStep
  BY DEF WorkerInv, WorkerTypes
<1>4. ~ aborted /\ status # 0
  BY <1>1 DEF AbortEnds, Earned
<1>5. \A g \in DOMAIN atGate : g \in Nat /\ g < step /\ atGate[g] \in Nat
  BY <1>1 DEF Behind, GateTypes, Working
<1>6. \/ /\ aborted' = TRUE /\ phase' = "leave" /\ status' = 3 /\ unreported' = unreported
      \/ /\ aborted' = FALSE /\ unreported' \in {TRUE, unreported}
         /\ phase' = (IF step = MaxStep THEN "leave" ELSE "train")
         /\ status' = IF step = MaxStep THEN 0 ELSE status
  BY <1>2, <1>4 DEF Fit!Abort, Fit!Quiet, Fit!GoOn, GateTypes
<1>7. tally'.kl \in Verdicts /\ tally'.lp \in Verdicts
  <2>1. tally' \in {tally, [kl |-> [tally.kl EXCEPT ![r.klAligned] = @ + 1],
                            lp |-> [tally.lp EXCEPT ![r.lpAligned] = @ + 1]]}
    BY <1>2 DEF Fit!Recorded
  <2>2. /\ [tally.kl EXCEPT ![r.klAligned] = @ + 1] \in Verdicts
        /\ [tally.lp EXCEPT ![r.lpAligned] = @ + 1] \in Verdicts
    BY ReadingType, CountsOneMore DEF GateTypes
  <2>3. tally.kl \in Verdicts /\ tally.lp \in Verdicts
    BY DEF GateTypes
  <2> HIDE DEF GateInv
  <2> QED
    BY <2>1, <2>2, <2>3
<1>8. AbortEnds' /\ Earned'
  <2>1. CASE aborted' = TRUE /\ phase' = "leave" /\ status' = 3
    BY <2>1 DEF AbortEnds, Earned
  <2>2. CASE /\ aborted' = FALSE /\ phase' \in {"leave", "train"}
             /\ status' = 0 => step = MaxStep /\ phase' = "leave"
    BY <1>1, <2>2 DEF AbortEnds, Earned
  <2> QED
    BY <1>4, <1>6, <2>1, <2>2
<1>9. phase' \notin Working /\ status' \in {-1, 0, 1, 2, 3} /\ aborted' \in BOOLEAN /\ unreported' \in BOOLEAN
  BY <1>6 DEF GateTypes, Working, Saves
\* Is there a KL to remember?
<1> DEFINE remembers == Fit!ShouldLog /\ config.watchdog /\ step \in GateSteps /\ r.kl >= 0
<1>10. CASE remembers
  <2>1. r.kl \in Nat
    BY <1>10, ReadingType
  <2>2. /\ DOMAIN atGate' = DOMAIN atGate \cup {step}
        /\ \A g \in DOMAIN atGate' : atGate'[g] = IF g = step THEN r.kl ELSE atGate[g]
    BY <1>2, <1>10, <2>1 DEF Fit!Remembered, Fit!With
  <2>3. /\ DOMAIN logged' = DOMAIN logged \cup {step}
        /\ \A g \in DOMAIN logged' :
             logged'[g] = IF g = step THEN [run |-> run, kl |-> r.kl] ELSE logged[g]
    BY <1>2, <1>10 DEF Fit!With
  <2>4. GateTypes'
    BY <1>1, <1>3, <1>7, <1>9, <2>1, <2>2, <2>3 DEF GateTypes
  <2>5. Remembers'
    <3>1. \A g \in DOMAIN logged' : logged'[g].run <= run
      BY <1>3, <2>3 DEF Remembers
    <3>2. {g \in DOMAIN logged' : logged'[g].run = run} = DOMAIN atGate \cup {step}
      BY <2>3 DEF Remembers, Fit!GatesOf
    <3>3. \A g \in DOMAIN atGate' : logged'[g].kl = atGate'[g]
      BY <2>2, <2>3 DEF Remembers, Fit!GatesOf, Fit!Kl
    <3> QED
      BY <1>1, <2>2, <3>1, <3>2, <3>3 DEF Remembers, Fit!GatesOf, Fit!Kl
  <2>6. Behind'
    BY <1>1, <1>3, <1>5, <1>9, <2>2 DEF Behind
  <2>7. AllJudged'
    <3> SUFFICES ASSUME config.watchdog, ~ unreported', ~ aborted', NEW g \in DOMAIN atGate'
                 PROVE  Judged(atGate', g)
      BY <1>1 DEF AllJudged, Judged
    <3>1. ~ Fit!GateFails(r) /\ ~ unreported
      <4>1. ~ Fit!Abort(r)
        BY DEF Fit!Abort
      <4> QED
        BY <1>2, <1>10, <4>1 DEF Fit!Quiet
    <3>2. r.kl >= KlFloor /\ ~ Fit!Collapsed(r)
      BY <1>10, <2>1, <3>1, KlFloorIsANumber DEF Fit!GateFails
    <3>3. CASE g = step
      <4> SUFFICES ASSUME NEW h \in DOMAIN atGate', h < step,
                          \A i \in DOMAIN atGate' : ~ (h < i /\ i < step)
                   PROVE  2 * r.kl >= atGate'[h]
        BY <2>2, <3>2, <3>3 DEF Judged
      <4> DEFINE earlier == {i \in DOMAIN Fit!Remembered(r) : i < step}
      <4>1. Fit!Remembered(r) = atGate'
        BY <1>2, <1>10
      <4>2. h \in earlier /\ \A i \in earlier : i \in Nat /\ i <= h
        BY <1>3, <1>5, <2>2, <4>1
      <4>3. Fit!PreviousGate(earlier) = h
        <5> HIDE DEF earlier
        <5> QED
          BY <4>2 DEF Fit!PreviousGate, Fit!Max
      <4>4. ~ (2 * r.kl < Fit!Remembered(r)[Fit!PreviousGate(earlier)])
        BY <1>10, <2>1, <3>2, <4>2 DEF Fit!Collapsed
      <4>5. atGate'[h] \in Nat
        BY <1>3, <1>5, <2>1, <2>2
      <4> QED
        BY <2>1, <4>1, <4>3, <4>4, <4>5
    <3>4. CASE g # step
      <4>1. g \in DOMAIN atGate /\ g < step /\ Judged(atGate, g)
        BY <1>4, <1>5, <2>2, <3>1, <3>4 DEF AllJudged
      <4> SUFFICES ASSUME NEW h \in DOMAIN atGate', h < g,
                          \A i \in DOMAIN atGate' : ~ (h < i /\ i < g)
                   PROVE  2 * atGate[g] >= atGate'[h]
        BY <2>2, <3>4, <4>1 DEF Judged
      <4>2. h # step
        BY <1>3, <1>5, <4>1
      <4> QED
        BY <2>2, <4>1, <4>2 DEF Judged
    <3> QED
      BY <3>3, <3>4
  <2> QED
    BY <1>8, <2>4, <2>5, <2>6, <2>7
<1>11. CASE ~ remembers
  <2>1. UNCHANGED <<atGate, logged>>
    BY <1>2, <1>11, ReadingType DEF Fit!Remembered
  <2>2. GateTypes'
    BY <1>1, <1>7, <1>9, <2>1 DEF GateTypes
  <2>3. Remembers' /\ Behind'
    BY <1>1, <1>9, <2>1 DEF Remembers, Fit!GatesOf, Fit!Kl, Behind
  <2>4. AllJudged'
    BY <1>1, <1>4, <1>6, <2>1 DEF AllJudged, Judged, GateTypes
  <2> QED
    BY <1>8, <2>2, <2>3, <2>4
<1> QED
  BY <1>10, <1>11

LEMMA LeaveKeepsGates == WorkerInv /\ GateInv /\ Fit!Leave => GateInv'
<1> SUFFICES ASSUME WorkerInv, GateInv, Fit!Leave PROVE GateInv'
  OBVIOUS
<1> USE DEF GateInv
<1>1. /\ phase = "leave" /\ phase' = "ended"
      /\ UNCHANGED <<run, step, config, atGate, tally, aborted, logged, unreported>>
  BY DEF Fit!Leave
<1>2. PICK faster \in BOOLEAN, blocked \in BOOLEAN, raises \in BOOLEAN :
        status' = IF ~ config.report THEN status
                  ELSE IF raises THEN 1
                  ELSE IF Fit!Aligned(faster, blocked) THEN status ELSE 2
  BY DEF Fit!Leave
<1>3. status' \in {1, 2, status}
  BY <1>2
<1>4. status' = 0 => status = 0 /\ (config.report => Fit!MetricPasses(tally.kl) /\ Fit!MetricPasses(tally.lp))
  BY <1>2 DEF Fit!Aligned
<1>5. GateTypes'
  BY <1>1, <1>3 DEF GateTypes
<1>6. Remembers'
  BY <1>1 DEF Remembers, Fit!GatesOf, Fit!Kl
<1>7. Behind' /\ AllJudged'
  BY <1>1 DEF Behind, AllJudged, Judged, Working, Saves
<1>8. AbortEnds'
  BY <1>1, <1>3 DEF AbortEnds
<1>9. Earned'
  BY <1>1, <1>4 DEF Earned, Fit!MetricPasses, Fit!Evaluated
<1> QED
  BY <1>5, <1>6, <1>7, <1>8, <1>9

LEMMA FitKeepsGates == WorkerInv /\ GateInv /\ (Fit!Next \/ UNCHANGED Fit!vars) => GateInv'
<1> SUFFICES ASSUME WorkerInv, GateInv, Fit!Next \/ UNCHANGED Fit!vars PROVE GateInv'
  OBVIOUS
<1>1. CASE Fit!Start
  BY <1>1, StartKeepsGates
<1>2. CASE Fit!Log
  BY <1>2, LogKeepsGates
<1>3. CASE Fit!StepRaises
  <2>1. ~ aborted /\ step \in Nat
    BY <1>3 DEF Fit!StepRaises, GateInv, AbortEnds, WorkerInv, WorkerTypes
  <2> QED
    BY <1>3, <2>1, WorkKeepsGates DEF Fit!StepRaises, Phases, Working, Saves
<1>4. CASE Fit!Leave
  BY <1>4, LeaveKeepsGates
<1>5. CASE Fit!Work /\ UNCHANGED Fit!gateVars
  <2>1. /\ phase \in Saves \cup {"train"} /\ phase' \in Phases /\ run' = run
        /\ \/ step' = step /\ phase \in Saves
           \/ step' = step + 1
    BY <1>5 DEF Fit!Work, Fit!Train, Fit!SaveModel, Fit!SaveOptimizer, Fit!SaveSchedule,
                Fit!SaveTracker, Fit!WritePart, Phases, Saves
  <2>2. ~ aborted /\ status \in {-1, 1, 2, 3} /\ step \in Nat
    BY <2>1 DEF GateInv, GateTypes, AbortEnds, Earned, Saves, WorkerInv, WorkerTypes
  <2>3. UNCHANGED <<config, atGate, tally, status, aborted, logged, unreported>>
    BY <1>5 DEF Fit!gateVars
  <2>4. step' \in Nat
    BY <2>1, <2>2
  <2> QED
    BY <2>1, <2>2, <2>3, <2>4, WorkKeepsGates DEF Saves, Working
<1>6. CASE /\ Fit!Crash /\ status' = -1
           /\ UNCHANGED <<config, atGate, tally, aborted, logged, unreported>>
  <2>1. step \in Nat
    BY DEF WorkerInv, WorkerTypes
  <2> QED
    BY <1>6, <2>1, WorkKeepsGates DEF Fit!Crash, Phases, Working, Saves
<1>7. CASE UNCHANGED Fit!vars
  <2>1. UNCHANGED <<phase, run, step, config, atGate, tally, status, aborted, logged, unreported>>
    BY <1>7 DEF Fit!vars, Fit!workerVars, Fit!gateVars
  <2> QED
    BY <2>1 DEF GateInv, GateTypes, Remembers, Fit!GatesOf, Fit!Kl, Behind, AllJudged, Judged,
                AbortEnds, Earned, Fit!MetricPasses, Fit!Evaluated
<1> QED
  BY <1>1, <1>2, <1>3, <1>4, <1>5, <1>6, <1>7 DEF Fit!Next

--------------------------------------------------------------------------------
(* The part a behaviour follows                                                 *)

LEMMA FitSteps ==
  part' = "fit" /\ [Next]_vars => part = "fit" /\ (Fit!Next \/ UNCHANGED Fit!vars)
<1> SUFFICES ASSUME part' = "fit", [Next]_vars PROVE part = "fit" /\ (Fit!Next \/ UNCHANGED Fit!vars)
  OBVIOUS
<1>1. CASE FitStep
  BY <1>1 DEF FitStep
<1>2. CASE UNCHANGED vars
  BY <1>2 DEF vars, fitVars, Fit!vars, Fit!workerVars, Fit!gateVars, Fit!memoryVars, Fit!historyVars
<1> QED
  BY <1>1, <1>2 DEF Next, SetupStep, RowsStep, BeamStep, HFStep, LogpsStep, RewardsStep, ScoresStep, EvalStep

\* The two invariants hold of every process of a training, over crashes, starts from
\* any directory and aborts.
LEMMA FitInvariant == Spec => []FitInv
<1>1. Init => FitInv
  BY WorkerStarts, GateStarts DEF Init, Fit!Init, FitInv
<1>2. FitInv /\ [Next]_vars => FitInv'
  BY FitSteps, FitKeepsWorker, FitKeepsGates DEF FitInv
<1> QED
  BY <1>1, <1>2, PTL DEF Spec

\* The model, the masters, the optimizer state and the schedule of a process that
\* trains have seen the same steps (transformer_impl.py:64-139, optimizer.py:74-90):
\* whatever parts of whatever directories the crashes of any number of processes
\* left behind.
THEOREM StateAlwaysBelongsTogether == Spec => []StateBelongsTogether
<1>1. FitInv => StateBelongsTogether
  BY DEF FitInv, WorkerInv, Together, StateBelongsTogether, Fit!StateBelongsTogether
<1> QED
  BY <1>1, FitInvariant, PTL

\* The reference model is an ancestor of the actor, whatever the frequency of its
\* updates (rl_trainer.py:770-784, ref_sync.py:58-72).
THEOREM RefIsAlwaysAncestor == Spec => []RefIsAncestor
<1>1. FitInv => RefIsAncestor
  BY DEF FitInv, WorkerInv, Ancestor, RefIsAncestor, Fit!RefIsAncestor
<1> QED
  BY <1>1, FitInvariant, PTL

\* No training goes on, or ends with 0, past a gate at which its KL has collapsed,
\* for every set of gates, every floor and whatever is logged in between
\* (convergence_gate.py:427-496).
THEOREM CollapseAlwaysEndsTheRun == Spec => []CollapseEndsTheRun
<1>1. FitInv => CollapseEndsTheRun
  <2> SUFFICES ASSUME FitInv, part = "fit", config.watchdog, ~ unreported,
                      phase = "train" \/ Fit!EndsWell, NEW g \in Fit!GatesOf(run)
               PROVE  /\ Fit!Kl(g) >= KlFloor
                      /\ \A h \in Fit!GatesOf(run) :
                           h < g /\ (\A i \in Fit!GatesOf(run) : ~ (h < i /\ i < g)) =>
                             2 * Fit!Kl(g) >= Fit!Kl(h)
    BY DEF CollapseEndsTheRun, Fit!CollapseEndsTheRun
  <2>1. ~ aborted
    BY DEF FitInv, GateInv, AbortEnds, Fit!EndsWell
  <2>2. Fit!GatesOf(run) = DOMAIN atGate /\ \A h \in DOMAIN atGate : Fit!Kl(h) = atGate[h]
    BY DEF FitInv, GateInv, Remembers
  <2>3. Judged(atGate, g)
    BY <2>1, <2>2 DEF FitInv, GateInv, AllJudged
  <2> QED
    BY <2>2, <2>3 DEF Judged
<1> QED
  BY <1>1, FitInvariant, PTL

\* A process that exits with 0 has trained all its steps, was not aborted, and if it was
\* compared with the reference run, was compared at some step at least and disagrees at
\* most at one of three
\* (rl_trainer.py:399-424, rankgrpo_logprob_metrics.py:1236-1470).
THEOREM SuccessIsAlwaysEarned == Spec => []SuccessIsEarned
<1>1. FitInv => SuccessIsEarned
  <2> SUFFICES ASSUME FitInv, part = "fit", Fit!EndsWell
               PROVE  /\ step = MaxStep /\ ~ aborted
                      /\ config.report => \A t \in {tally.kl, tally.lp} : t.yes > 0 /\ 2 * t.no <= t.yes
    BY DEF SuccessIsEarned, Fit!SuccessIsEarned
  <2>1. step = MaxStep /\ ~ aborted
    BY DEF FitInv, GateInv, AbortEnds, Earned, Fit!EndsWell
  <2>2. ASSUME config.report, NEW t \in {tally.kl, tally.lp} PROVE t.yes > 0 /\ 2 * t.no <= t.yes
    <3>1. Fit!MetricPasses(t)
      BY <2>2 DEF FitInv, GateInv, Earned, Fit!EndsWell
    <3>2. t.yes \in Nat /\ t.no \in Nat
      BY DEF FitInv, GateInv, GateTypes, Verdicts
    <3> QED
      BY <3>1, <3>2 DEF Fit!MetricPasses, Fit!Evaluated
  <2> QED
    BY <2>1, <2>2
<1> QED
  BY <1>1, FitInvariant, PTL

--------------------------------------------------------------------------------
(* The offline evaluation (part "eval").                                        *)

\* What the directories hold; the last one saved, and the newest, can be named.
Latest(s) == s \in Steps /\ \A t \in Steps : saved[t] <= saved[s]
Newest(s) == s \in Steps /\ \A t \in Steps : time[t] <= time[s]

DirectoryTypes ==
  /\ saved \in [Steps -> Nat] /\ time \in [Steps -> Nat]
  /\ evalTracker \in Steps \cup {Null}
  /\ DOMAIN merged = Steps
  /\ \A s \in Steps : time[s] <= saved[s] /\ (time[s] = 0 => saved[s] = 0)
  /\ \A s, t \in Steps : time[s] = time[t] => s = t \/ time[s] = 0
  /\ Steps # {} => (\E s \in Steps : Latest(s)) /\ (\E s \in Steps : Newest(s))

\* The checkpoint an evaluation has found is the one it was asked for, and nothing that
\* is saved is ever saved over with less.
FoundIt ==
  evalAt \in {"merge", "think", "search", "done"} =>
    /\ began.saved \in [Steps -> Nat]
    /\ \A s \in Steps : began.saved[s] <= saved[s]
    /\ evalAt = "merge" => evalStep \in Steps
    /\ evalStep # Null =>
         /\ evalStep \in Steps
         /\ command.step # Null => evalStep = command.step
         /\ command.step = Null /\ began.tracker # Null => evalStep = began.tracker
         /\ command.step = Null /\ began.tracker = Null =>
              \A s \in Steps : began.time[s] <= began.time[evalStep]

\* The saves of the step that was found, from the one that was found on.
Since == began.saved[evalStep] .. saved[evalStep]

\* What it evaluates, if it was to be merged anew, has its weights from these.
MergedIt ==
  /\ evalAt = "idle" => shards = <<>>
  /\ evalAt = "merge" => shards \in Seq(Nat) /\ \A k \in DOMAIN shards : shards[k] \in Since
  /\ evalAt \in {"think", "search", "done"} /\ evalStep # Null /\ command.force /\ ~ command.skip =>
       model.whole /\ model.saves \subseteq Since

\* What it scores is what it was answered.
ScoredIt ==
  evalAt = "done" =>
    /\ \A i \in DOMAIN scored : scored[i] = i
    /\ DOMAIN scored = {prompts[k] : k \in Eval!In({"ok", "empty"})} \ Truthless

Evaluated == DirectoryTypes /\ FoundIt /\ MergedIt /\ ScoredIt
EvalInv == part = "eval" => Evaluated

LEMMA LatestIsMax ==
  ASSUME DirectoryTypes, NEW s \in Steps
  PROVE  Eval!Saves \in Nat /\ \A t \in Steps : saved[t] <= Eval!Saves
<1> DEFINE V == {saved[t] : t \in Steps}
<1>1. PICK m \in Steps : \A t \in Steps : saved[t] <= saved[m]
  BY DEF DirectoryTypes, Latest
<1>2. V \subseteq Nat /\ saved[m] \in V /\ \A y \in V : saved[m] >= y
  BY <1>1 DEF DirectoryTypes
<1>3. Eval!Max(V) \in V /\ \A y \in V : Eval!Max(V) >= y
  <2> HIDE DEF V
  <2> QED
    BY <1>2 DEF Eval!Max
<1>4. Eval!Saves = Eval!Max(V)
  BY DEF Eval!Saves
<1> QED
  <2> HIDE DEF V
  <2>1. \A t \in Steps : saved[t] \in V /\ saved[t] \in Nat
    BY DEF V, DirectoryTypes
  <2> QED
    BY <1>2, <1>3, <1>4, <2>1

LEMMA EvalStarts == Eval!Init => Evaluated
BY DEF Eval!Init, Evaluated, DirectoryTypes, Latest, Newest, FoundIt, MergedIt, ScoredIt

\* A command names one of the directories it finds: the tracker's, or the newest.
LEMMA FoundIsThere ==
  ASSUME DirectoryTypes, NEW c \in Commands, Eval!Found(c) # {}
  PROVE  /\ Eval!Discovered(c) \in Steps
         /\ c.step # Null => Eval!Discovered(c) = c.step
         /\ c.step = Null /\ evalTracker # Null => Eval!Discovered(c) = evalTracker
         /\ c.step = Null /\ evalTracker = Null => Newest(Eval!Discovered(c))
<1> DEFINE F == Eval!Found(c)
<1>0. c.step \in Steps \cup {Null} /\ Steps \subseteq Nat
  BY PartsAssumption DEF Eval!EvalAssumption
<1>1. F \subseteq Eval!Candidates(c) /\ Eval!Candidates(c) \subseteq Steps
  BY <1>0 DEF Eval!Found, Eval!Candidates, DirectoryTypes
<1>2. \E s \in F : \A t \in F : Eval!Newer(s, t)
  <2>1. CASE c.step = Null /\ evalTracker = Null
    <3>1. Eval!Candidates(c) = Steps
      BY <2>1 DEF Eval!Candidates
    <3>2. PICK s \in Steps : Newest(s)
      BY <1>1 DEF DirectoryTypes
    <3>3. PICK f \in Steps : saved[f] > 0
      BY <1>1 DEF Eval!Found
    <3>4. time[s] > 0 /\ saved[s] > 0
      BY <3>2, <3>3 DEF Newest, DirectoryTypes
    <3>5. ASSUME NEW t \in Steps PROVE Eval!Newer(s, t)
      BY <1>0, <3>2, <3>4 DEF Newest, DirectoryTypes, Eval!Newer
    <3> QED
      BY <1>1, <3>1, <3>4, <3>5 DEF Eval!Found
  <2>2. CASE ~ (c.step = Null /\ evalTracker = Null)
    <3>1. PICK s : Eval!Candidates(c) = {s}
      BY <2>2 DEF Eval!Candidates
    <3>2. s \in F /\ F = {s} /\ s \in Steps
      BY <1>1, <3>1
    <3>3. Eval!Newer(s, s)
      BY <1>0, <3>2 DEF Eval!Newer
    <3> QED
      BY <3>2, <3>3
  <2> QED
    BY <2>1, <2>2
<1>3. Eval!Discovered(c) \in F /\ \A t \in F : Eval!Newer(Eval!Discovered(c), t)
  BY <1>2 DEF Eval!Discovered
<1>4. /\ c.step # Null => Eval!Discovered(c) = c.step
      /\ c.step = Null /\ evalTracker # Null => Eval!Discovered(c) = evalTracker
  BY <1>1, <1>3 DEF Eval!Candidates
<1>5. ASSUME c.step = Null, evalTracker = Null PROVE Newest(Eval!Discovered(c))
  <2>1. PICK d : d = Eval!Discovered(c)
    OBVIOUS
  <2>2. \A t \in Steps : t \in F \/ time[t] = 0
    BY <1>5 DEF Eval!Found, Eval!Candidates, DirectoryTypes
  <2>3. d \in Steps /\ (\A t \in Steps : time[t] \in Nat) /\ (\A t \in F : time[t] <= time[d])
    BY <1>1, <1>3, <2>1 DEF DirectoryTypes, Eval!Newer
  <2> QED
    BY <2>1, <2>2, <2>3 DEF Newest
<1> QED
  BY <1>1, <1>3, <1>4, <1>5

\* The training goes on.
LEMMA SaveKeepsEval == Evaluated /\ Eval!Save => Evaluated'
<1> SUFFICES ASSUME Evaluated, Eval!Save PROVE Evaluated'
  OBVIOUS
<1>1. PICK s \in Steps : /\ saved' = [saved EXCEPT ![s] = Eval!Saves + 1]
                         /\ time' = IF saved[s] = 0 THEN [time EXCEPT ![s] = Eval!Saves + 1] ELSE time
  BY DEF Eval!Save
<1>2. UNCHANGED <<evalTracker, merged, Eval!evalVars>>
  BY DEF Eval!Save
<1>3. /\ Eval!Saves \in Nat /\ \A t \in Steps : saved[t] <= Eval!Saves
      /\ saved \in [Steps -> Nat] /\ time \in [Steps -> Nat]
      /\ \A t \in Steps : time[t] <= saved[t] /\ (time[t] = 0 => saved[t] = 0)
  BY LatestIsMax DEF Evaluated, DirectoryTypes
<1> DEFINE n == Eval!Saves + 1
<1>4. /\ n \in Nat /\ n > 0
      /\ saved' = [saved EXCEPT ![s] = n] /\ saved' \in [Steps -> Nat]
      /\ saved'[s] = n /\ (\A t \in Steps \ {s} : saved'[t] = saved[t])
      /\ \A t \in Steps : saved[t] < n /\ time[t] < n
  BY <1>1, <1>3
<1> HIDE DEF n
<1>5. /\ time' \in [Steps -> Nat]
      /\ \A t \in Steps \ {s} : time'[t] = time[t]
      /\ time'[s] = IF saved[s] = 0 THEN n ELSE time[s]
  BY <1>1, <1>3, <1>4 DEF n
<1>6. \A t \in Steps : saved[t] <= saved'[t]
  BY <1>3, <1>4
<1>7. Latest(s)'
  BY <1>4 DEF Latest
<1>8. \E q \in Steps : Newest(q)'
  <2>1. CASE saved[s] = 0
    BY <1>3, <1>4, <1>5, <2>1 DEF Newest
  <2>2. CASE saved[s] # 0
    <3>1. PICK q \in Steps : Newest(q)
      BY DEF Evaluated, DirectoryTypes
    <3>2. time' = time
      BY <1>1, <2>2
    <3> QED
      BY <3>1, <3>2 DEF Newest
  <2> QED
    BY <2>1, <2>2
<1>9. \A t \in Steps : time'[t] <= saved'[t] /\ (time'[t] = 0 => saved'[t] = 0)
  BY <1>3, <1>4, <1>5
<1>10. \A t, u \in Steps : time'[t] = time'[u] => t = u \/ time'[t] = 0
  <2>1. \A t, u \in Steps : time[t] = time[u] => t = u \/ time[t] = 0
    BY DEF Evaluated, DirectoryTypes
  <2> QED
    BY <1>3, <1>4, <1>5, <2>1
<1>11. DirectoryTypes'
  BY <1>2, <1>4, <1>5, <1>7, <1>8, <1>9, <1>10 DEF Evaluated, DirectoryTypes
<1>12. FoundIt'
  BY <1>2, <1>3, <1>4, <1>6 DEF Evaluated, FoundIt, Eval!evalVars
<1>13. ASSUME evalStep \in Steps, began.saved \in [Steps -> Nat] PROVE Since \subseteq Since'
  BY <1>2, <1>3, <1>4, <1>6, <1>13 DEF Since, Eval!evalVars
<1>14. MergedIt'
  <2>1. UNCHANGED <<evalAt, shards, evalStep, command, model>>
    BY <1>2 DEF Eval!evalVars
  <2>2. evalAt \in {"merge", "think", "search", "done"} /\ (evalAt = "merge" \/ evalStep # Null)
        => Since \subseteq Since'
    BY <1>13 DEF Evaluated, FoundIt
  <2> QED
    BY <2>1, <2>2 DEF Evaluated, MergedIt
<1>15. ScoredIt'
  BY <1>2 DEF Evaluated, ScoredIt, Eval!evalVars, Eval!In
<1> QED
  BY <1>11, <1>12, <1>14, <1>15 DEF Evaluated

LEMMA TrackerKeepsEval == Evaluated /\ Eval!WriteTracker => Evaluated'
<1> SUFFICES ASSUME Evaluated, Eval!WriteTracker PROVE Evaluated'
  OBVIOUS
<1>1. evalTracker' \in Steps /\ UNCHANGED <<saved, time, merged, Eval!evalVars>>
  BY DEF Eval!WriteTracker
<1>2. DirectoryTypes'
  BY <1>1 DEF Evaluated, DirectoryTypes, Latest, Newest
<1>3. FoundIt' /\ MergedIt' /\ ScoredIt'
  BY <1>1 DEF Evaluated, FoundIt, MergedIt, Since, ScoredIt, Eval!evalVars, Eval!In
<1> QED
  BY <1>2, <1>3 DEF Evaluated

\* An evaluation begins.
LEMMA BeginKeepsEval == Evaluated /\ Eval!Begin => Evaluated'
<1> SUFFICES ASSUME Evaluated, Eval!Begin PROVE Evaluated'
  OBVIOUS
<1>1. PICK c \in Commands :
        /\ command' = c
        /\ \/ Eval!UseRaw(c)
           \/ Eval!NoCheckpoint(c)
           \/ /\ Eval!Found(c) # {}
              /\ evalStep' = Eval!Discovered(c)
              /\ \/ Eval!UseMerged(c, evalStep')
                 \/ Eval!NotMerged(c, evalStep')
                 \/ Eval!StartMerge(c, evalStep')
  BY DEF Eval!Begin
<1>2. /\ evalAt = "idle" /\ began' = [saved |-> saved, time |-> time, tracker |-> evalTracker]
      /\ UNCHANGED <<saved, time, evalTracker, shards, scored>>
  BY DEF Eval!Begin, Eval!trainVars
<1>3. DOMAIN merged' = DOMAIN merged
  BY <1>1 DEF Eval!UseRaw, Eval!NoCheckpoint, Eval!UseMerged, Eval!NotMerged, Eval!StartMerge
<1>4. DirectoryTypes'
  BY <1>2, <1>3 DEF Evaluated, DirectoryTypes, Latest, Newest
<1>5. /\ began'.saved = saved /\ began'.time = time /\ began'.tracker = evalTracker
      /\ saved \in [Steps -> Nat] /\ \A s \in Steps : saved[s] <= saved'[s]
  BY <1>2 DEF Evaluated, DirectoryTypes
<1>6. CASE Eval!UseRaw(c)
  <2>1. evalStep' = Null /\ evalAt' \in {"think", "search"}
    BY <1>6 DEF Eval!UseRaw, Eval!EvaluateModel
  <2> QED
    BY <1>4, <1>5, <2>1 DEF Evaluated, FoundIt, MergedIt, ScoredIt
<1>7. CASE Eval!NoCheckpoint(c)
  <2>1. evalAt' = "refused"
    BY <1>7 DEF Eval!NoCheckpoint, Eval!Refuse
  <2> QED
    BY <1>4, <2>1 DEF Evaluated, FoundIt, MergedIt, ScoredIt
<1>8. CASE ~ Eval!UseRaw(c) /\ ~ Eval!NoCheckpoint(c)
  <2>1. PICK s : s = evalStep'
    OBVIOUS
  <2>2. /\ s \in Steps
        /\ c.step # Null => s = c.step
        /\ c.step = Null /\ evalTracker # Null => s = evalTracker
        /\ c.step = Null /\ evalTracker = Null => Newest(s)
    BY <1>1, <1>8, <2>1, FoundIsThere DEF Evaluated
  <2>3. evalAt' = "merge" \/ evalAt' \in {"think", "search", "refused"}
    BY <1>1, <1>8 DEF Eval!UseMerged, Eval!NotMerged, Eval!StartMerge, Eval!EvaluateModel, Eval!Refuse
  <2>4. FoundIt'
    BY <1>1, <1>2, <1>5, <2>1, <2>2 DEF FoundIt, Newest
  <2>5. shards' = <<>>
    BY <1>2 DEF Evaluated, MergedIt
  <2>6. evalAt' \in {"think", "search"} => ~ (c.force /\ ~ c.skip)
    BY <1>1, <1>8 DEF Eval!UseMerged, Eval!NotMerged, Eval!StartMerge, Eval!Refuse
  <2>7. MergedIt' /\ ScoredIt'
    BY <1>1, <2>3, <2>5, <2>6 DEF MergedIt, ScoredIt
  <2> QED
    BY <1>4, <2>4, <2>7 DEF Evaluated
<1> QED
  BY <1>6, <1>7, <1>8

\* The merge.
LEMMA ReadKeepsEval == Evaluated /\ Eval!ReadShard => Evaluated'
<1> SUFFICES ASSUME Evaluated, Eval!ReadShard PROVE Evaluated'
  OBVIOUS
<1>1. /\ evalAt = "merge" /\ shards' = Append(shards, saved[evalStep])
      /\ UNCHANGED <<saved, time, evalTracker, merged, command, began, evalStep, model, evalAt>>
  BY DEF Eval!ReadShard, Eval!diskVars, Eval!trainVars
<1>2. DirectoryTypes' /\ FoundIt' /\ Since' = Since
  BY <1>1 DEF Evaluated, DirectoryTypes, Latest, Newest, FoundIt, Since
<1>3. saved[evalStep] \in Since /\ saved[evalStep] \in Nat
  BY <1>1 DEF Evaluated, FoundIt, DirectoryTypes, Since
<1>4. shards \in Seq(Nat) /\ \A k \in DOMAIN shards : shards[k] \in Since
  BY <1>1 DEF Evaluated, MergedIt
<1>5. PICK v : v = saved[evalStep]
  OBVIOUS
<1>6. shards' \in Seq(Nat) /\ \A k \in DOMAIN shards' : shards'[k] \in Since
  <2>1. v \in Nat /\ v \in Since /\ shards' = Append(shards, v)
    BY <1>1, <1>3, <1>5
  <2> QED
    BY <1>4, <2>1
<1> QED
  BY <1>1, <1>2, <1>6 DEF Evaluated, MergedIt, ScoredIt

LEMMA WriteKeepsEval == Evaluated /\ Eval!WriteModel => Evaluated'
<1> SUFFICES ASSUME Evaluated, Eval!WriteModel PROVE Evaluated'
  OBVIOUS
<1>1. DOMAIN merged' = DOMAIN merged /\ UNCHANGED <<saved, time, evalTracker, Eval!evalVars>>
  BY DEF Eval!WriteModel, Eval!trainVars
<1>2. DirectoryTypes'
  BY <1>1 DEF Evaluated, DirectoryTypes, Latest, Newest
<1>3. FoundIt' /\ MergedIt' /\ ScoredIt'
  BY <1>1 DEF Evaluated, FoundIt, MergedIt, Since, ScoredIt, Eval!evalVars, Eval!In
<1> QED
  BY <1>2, <1>3 DEF Evaluated

LEMMA MergeKeepsEval == Evaluated /\ Eval!EndMerge => Evaluated'
<1> SUFFICES ASSUME Evaluated, Eval!EndMerge PROVE Evaluated'
  OBVIOUS
<1>1. /\ evalAt = "merge" /\ evalAt' \in {"think", "search"}
      /\ DOMAIN merged' = DOMAIN merged
      /\ model' = [saves |-> Eval!Range(shards), whole |-> TRUE]
      /\ UNCHANGED <<saved, time, evalTracker, command, began, evalStep, shards>>
  BY DEF Eval!EndMerge, Eval!EvaluateModel, Eval!Model, Eval!trainVars
<1>2. DirectoryTypes' /\ FoundIt' /\ Since' = Since
  BY <1>1 DEF Evaluated, DirectoryTypes, Latest, Newest, FoundIt, Since
<1>3. Eval!Range(shards) \subseteq Since
  BY <1>1 DEF Evaluated, MergedIt, Eval!Range
<1>4. model'.whole = TRUE /\ model'.saves = Eval!Range(shards)
  BY <1>1
<1> QED
  BY <1>1, <1>2, <1>3, <1>4 DEF Evaluated, MergedIt, ScoredIt

\* A stage, in which the checkpoint and the model stay what they are.
LEMMA StageKeepsEval ==
  ASSUME Evaluated, evalAt \in {"think", "search", "done"}, evalAt' \in {"think", "search", "done"},
         UNCHANGED Eval!stageVars
  PROVE  DirectoryTypes' /\ FoundIt' /\ MergedIt'
BY DEF Evaluated, DirectoryTypes, FoundIt, MergedIt, Since, Latest, Newest, Eval!stageVars,
       Eval!diskVars, Eval!trainVars

LEMMA EvaluateScores ==
  ASSUME Eval!Evaluate
  PROVE  ScoredIt'
<1> DEFINE answered == {k \in Eval!In({"ok", "empty"}) : prompts[k] \notin Truthless}
<1>1. /\ scored' = [i \in {prompts[k] : k \in answered} |->
                      prompts[CHOOSE k \in answered : prompts[k] = i]]
      /\ UNCHANGED <<prompts, requests>>
  BY DEF Eval!Evaluate, Eval!Origin
<1>2. DOMAIN scored' = {prompts[k] : k \in answered}
  BY <1>1
<1>3. ASSUME NEW i \in DOMAIN scored' PROVE scored'[i] = i
  <2>1. \E k \in answered : prompts[k] = i
    BY <1>2, <1>3
  <2>2. scored'[i] = prompts[CHOOSE k \in answered : prompts[k] = i]
    BY <1>1, <1>3
  <2> HIDE DEF answered
  <2> QED
    BY <2>1, <2>2
<1>4. {prompts[k] : k \in answered} = {prompts[k] : k \in Eval!In({"ok", "empty"})} \ Truthless
  OBVIOUS
<1>5. Eval!In({"ok", "empty"})' = Eval!In({"ok", "empty"})
  BY <1>1 DEF Eval!In
<1> QED
  BY <1>1, <1>2, <1>3, <1>4, <1>5 DEF ScoredIt

LEMMA EvalKeepsEval == Evaluated /\ (Eval!Next \/ UNCHANGED Eval!vars) => Evaluated'
<1> SUFFICES ASSUME Evaluated, Eval!Next \/ UNCHANGED Eval!vars PROVE Evaluated'
  OBVIOUS
<1>1. CASE Eval!Post \/ Eval!Respond \/ Eval!Retry \/ Eval!AnswerOffline
  <2>1. evalAt \in {"think", "search"} /\ evalAt' = evalAt /\ UNCHANGED Eval!stageVars
    BY <1>1 DEF Eval!Post, Eval!Respond, Eval!Retry, Eval!AnswerOffline, Eval!Becomes, Eval!InStage
  <2> QED
    BY <2>1, StageKeepsEval DEF Evaluated, ScoredIt
<1>2. CASE Eval!Search
  <2>1. evalAt = "think" /\ evalAt' = "search" /\ UNCHANGED Eval!stageVars
    BY <1>2 DEF Eval!Search
  <2> QED
    BY <2>1, StageKeepsEval DEF Evaluated, ScoredIt
<1>3. CASE Eval!Evaluate
  <2>1. evalAt = "search" /\ evalAt' = "done" /\ UNCHANGED Eval!stageVars
    BY <1>3 DEF Eval!Evaluate
  <2> QED
    BY <1>3, <2>1, StageKeepsEval, EvaluateScores DEF Evaluated
<1>4. CASE Eval!Leave
  BY <1>4 DEF Eval!Leave, Eval!diskVars, Eval!trainVars, Evaluated, DirectoryTypes, Latest, Newest,
              FoundIt, MergedIt, ScoredIt
<1>5. CASE UNCHANGED Eval!vars
  BY <1>5 DEF Eval!vars, Evaluated, DirectoryTypes, Latest, Newest, FoundIt, MergedIt, Since,
              ScoredIt, Eval!In
<1> QED
  BY <1>1, <1>2, <1>3, <1>4, <1>5, SaveKeepsEval, TrackerKeepsEval, BeginKeepsEval, ReadKeepsEval,
     WriteKeepsEval, MergeKeepsEval DEF Eval!Next

LEMMA EvalSteps ==
  part' = "eval" /\ [Next]_vars => part = "eval" /\ (Eval!Next \/ UNCHANGED Eval!vars)
<1> SUFFICES ASSUME part' = "eval", [Next]_vars
             PROVE part = "eval" /\ (Eval!Next \/ UNCHANGED Eval!vars)
  OBVIOUS
<1>1. CASE EvalStep
  BY <1>1 DEF EvalStep
<1>2. CASE UNCHANGED vars
  BY <1>2 DEF vars, evalVars, Eval!vars
<1> QED
  BY <1>1, <1>2 DEF Next, SetupStep, RowsStep, BeamStep, HFStep, LogpsStep, FitStep, RewardsStep,
                    ScoresStep

\* An evaluation scores samples by their own beams only, leaves no sample out that was
\* answered in both stages, and takes the checkpoint that the command names, or else the
\* tracker, or else, if no step was saved twice, the latest; what it scores after a
\* forced merge is whole and no older than this checkpoint, whatever the training saves
\* meanwhile and whichever evaluations were killed before
\* (openonerec_eval.py:176-316, 748-790, 886-900, 982-1006).
THEOREM AlwaysEvaluatesWhatItSays == Spec => []EvaluatesWhatItSays
<1>1. Init => EvalInv
  BY EvalStarts DEF Init, EvalInv
<1>2. EvalInv /\ [Next]_vars => EvalInv'
  BY EvalSteps, EvalKeepsEval DEF EvalInv
<1>3. EvalInv => EvaluatesWhatItSays
  <2> SUFFICES ASSUME EvalInv, part = "eval", evalAt = "done"
               PROVE  Eval!EvaluatesWhatItSays
    BY DEF EvaluatesWhatItSays, Eval!EvaluatesWhatItSays
  <2>1. DirectoryTypes /\ FoundIt /\ MergedIt /\ ScoredIt
    BY DEF EvalInv, Evaluated
  <2>2. ASSUME evalStep # Null, command.step = Null, began.tracker = Null, ~ Eval!Resaved
        PROVE  \A s \in Steps : began.saved[s] <= began.saved[evalStep]
    <3>1. evalStep \in Steps /\ \A s \in Steps : began.time[s] <= began.time[evalStep]
      BY <2>1, <2>2 DEF FoundIt
    <3>2. \A s \in Steps : began.saved[s] = began.time[s]
      BY <2>2 DEF Eval!Resaved
    <3> QED
      BY <3>1, <3>2
  <2> QED
    BY <2>1, <2>2 DEF Eval!EvaluatesWhatItSays, FoundIt, MergedIt, Since, ScoredIt
<1> QED
  BY <1>1, <1>2, <1>3, PTL DEF Spec

-----------------------------------------------------------------------------
(* The configuration (part "setup").                                       *)

\* The first value that is there.
LEMMA FirstAt ==
  ASSUME NEW S, NEW s \in Seq(S), NEW m \in 1 .. Len(s), s[m] # Null,
         \A i \in 1 .. Len(s) : i < m => s[i] = Null
  PROVE  Setup!First(s) = s[m]
<1> DEFINE I == {i \in 1 .. Len(s) : s[i] # Null}
<1>1. Setup!First(s) = s[IF I # {} THEN Setup!Min(I) ELSE 0]
  BY DEF Setup!First, Setup!SelectInSeq
<1>2. m \in I /\ \A i \in I : i \in Int /\ m <= i
  OBVIOUS
<1>3. Setup!Min(I) = m
  <2> HIDE DEF I
  <2>1. \A i \in I : (\A j \in I : i <= j) => i = m
    BY <1>2
  <2> QED
    BY <1>2, <2>1 DEF Setup!Min
<1> QED
  BY <1>1, <1>2, <1>3

LEMMA First2 ==
  ASSUME NEW a, NEW b, a # Null \/ b # Null
  PROVE  Setup!First(<<a, b>>) = IF a # Null THEN a ELSE b
<1> DEFINE s == <<a, b>>
           m == IF a # Null THEN 1 ELSE 2
<1>1. s \in Seq({a, b}) /\ m \in 1 .. Len(s)
  OBVIOUS
<1>2. s[m] # Null /\ \A i \in 1 .. Len(s) : i < m => s[i] = Null
  OBVIOUS
<1>3. s[m] = IF a # Null THEN a ELSE b
  OBVIOUS
<1> HIDE DEF s, m
<1>4. Setup!First(s) = s[m]
  BY <1>1, <1>2, FirstAt
<1> QED
  BY <1>3, <1>4 DEF s

LEMMA First3 ==
  ASSUME NEW a, NEW b, NEW c, a # Null \/ b # Null \/ c # Null
  PROVE  Setup!First(<<a, b, c>>) = IF a # Null THEN a ELSE IF b # Null THEN b ELSE c
<1> DEFINE s == <<a, b, c>>
           m == IF a # Null THEN 1 ELSE IF b # Null THEN 2 ELSE 3
<1>1. s \in Seq({a, b, c}) /\ m \in 1 .. Len(s)
  OBVIOUS
<1>2. s[m] # Null /\ \A i \in 1 .. Len(s) : i < m => s[i] = Null
  OBVIOUS
<1>3. s[m] = IF a # Null THEN a ELSE IF b # Null THEN b ELSE c
  OBVIOUS
<1> HIDE DEF s, m
<1>4. Setup!First(s) = s[m]
  BY <1>1, <1>2, FirstAt
<1> QED
  BY <1>3, <1>4 DEF s

LEMMA First4 ==
  ASSUME NEW a, NEW b, NEW c, NEW d, a # Null \/ b # Null \/ c # Null \/ d # Null
  PROVE  Setup!First(<<a, b, c, d>>) =
           IF a # Null THEN a ELSE IF b # Null THEN b ELSE IF c # Null THEN c ELSE d
<1> DEFINE s == <<a, b, c, d>>
           m == IF a # Null THEN 1 ELSE IF b # Null THEN 2 ELSE IF c # Null THEN 3 ELSE 4
<1>1. s \in Seq({a, b, c, d}) /\ m \in 1 .. Len(s)
  OBVIOUS
<1>2. s[m] # Null /\ \A i \in 1 .. Len(s) : i < m => s[i] = Null
  OBVIOUS
<1>3. s[m] = IF a # Null THEN a ELSE IF b # Null THEN b ELSE IF c # Null THEN c ELSE d
  OBVIOUS
<1> HIDE DEF s, m
<1>4. Setup!First(s) = s[m]
  BY <1>1, <1>2, FirstAt
<1> QED
  BY <1>3, <1>4 DEF s

\* A first value that is there is taken, whatever follows it.
LEMMA FirstOfFive ==
  ASSUME NEW a, NEW b, NEW c, NEW d, NEW e, a # Null
  PROVE  Setup!First(<<a, b, c, d, e>>) = a
<1> DEFINE s == <<a, b, c, d, e>>
<1>1. s \in Seq({a, b, c, d, e}) /\ 1 \in 1 .. Len(s) /\ s[1] = a
  OBVIOUS
<1> HIDE DEF s
<1>2. Setup!First(s) = s[1]
  BY <1>1, FirstAt
<1> QED
  BY <1>1, <1>2 DEF s

\* The keys that name widths and lengths.
Read == {"groups", "beamWidth", "stage2BeamSize", "beamSize", "valBeamWidth", "stage1Tokens",
         "stage2Tokens", "paramsTokens", "itemTokens", "reasoningTokens"}

\* Filling in what is missing leaves alone what has no default, or Null for one.
LEMMA Untouched ==
  ASSUME NEW w \in Setups, NEW c, c = Setup!Backfilled(Setup!Migrated(w))
  PROVE  /\ DOMAIN c = Setup!Keys /\ c = [k \in Setup!Keys |-> c[k]]
         /\ c.name = w.name /\ c.classPath = w.classPath /\ c.rollout = w.rollout
         /\ c.dataset = w.dataset /\ c.rankGrpo = w.rankGrpo /\ c.loop = w.loop
         /\ c.buried = w.buried /\ c.adapterPath = w.adapterPath
         /\ c.nestedRank = w.nestedRank
         /\ c.rank = IF w.rank = Null THEN 0 ELSE w.rank
         /\ c.optimizer = IF w.optimizer = Null THEN "AdamW" ELSE w.optimizer
         /\ c.oldReward = Null
         /\ c.reward = IF w.oldReward # Null THEN w.oldReward ELSE w.reward
         /\ c.n = (IF w.n = Null THEN 1 ELSE w.n) /\ c.valN = (IF w.valN = Null THEN 1 ELSE w.valN)
         /\ \A k \in Read : c[k] = w[k]
<1> DEFINE m == Setup!Migrated(w)
           D == Setup!Defaults
<1>1. DOMAIN w = Setup!Keys /\ w = [k \in Setup!Keys |-> w[k]]
  BY PartsAssumption DEF Setup!SetupAssumption
<1>2. m = [k \in Setup!Keys |-> IF w.oldReward = Null THEN w[k]
                                ELSE IF k = "reward" THEN w.oldReward
                                ELSE IF k = "oldReward" THEN Null ELSE w[k]]
  BY <1>1 DEF Setup!Migrated, Setup!Keys
<1>3. DOMAIN m = Setup!Keys
  BY <1>2
<1>4. /\ DOMAIN D = 1 .. 6
      /\ D[1] = Setup!ModelDefaults /\ D[2] = Setup!RolloutDefaults /\ D[3] = Setup!ActorDefaults
      /\ D[4] = Setup!DataDefaults /\ D[5] = Setup!AlgorithmDefaults /\ D[6] = Setup!RewardDefaults
  BY DEF Setup!Defaults
<1>5. /\ DOMAIN D[1] = {"rank", "nestedRank", "adapterPath"}
      /\ DOMAIN D[2] = {"rollout", "n", "valN"}
      /\ DOMAIN D[3] = {"useKl", "optimizer"}
      /\ DOMAIN D[4] = {"response", "dataset"}
      /\ DOMAIN D[5] = {"klInReward"}
      /\ DOMAIN D[6] = {"reward"}
      /\ D[1].rank = 0 /\ D[1].nestedRank = Null /\ D[1].adapterPath = Null
      /\ D[2].rollout = Null /\ D[3].optimizer = "AdamW" /\ D[4].dataset = Null
      /\ D[6].reward = Null /\ D[2].n = 1 /\ D[2].valN = 1
  BY <1>4 DEF Setup!ModelDefaults, Setup!RolloutDefaults, Setup!ActorDefaults,
              Setup!DataDefaults, Setup!AlgorithmDefaults, Setup!RewardDefaults
<1> DEFINE In(k) == \E i \in DOMAIN D : k \in DOMAIN D[i]
           At(k) == CHOOSE i \in DOMAIN D : k \in DOMAIN D[i]
<1>6. c = [k \in Setup!Keys |-> IF m[k] = Null /\ In(k) THEN D[At(k)][k] ELSE m[k]]
  BY <1>3 DEF Setup!Backfilled
<1> HIDE DEF m, D
<1>7. /\ ~ In("name") /\ ~ In("classPath") /\ ~ In("rankGrpo") /\ ~ In("loop") /\ ~ In("buried")
      /\ ~ In("oldReward") /\ \A k \in Read : ~ In(k)
  BY <1>4, <1>5 DEF Read
<1>8. /\ In("rank") /\ At("rank") = 1 /\ At("nestedRank") = 1 /\ At("adapterPath") = 1
      /\ At("rollout") = 2 /\ In("optimizer") /\ At("optimizer") = 3 /\ At("dataset") = 4
      /\ At("reward") = 6
      /\ In("n") /\ At("n") = 2 /\ In("valN") /\ At("valN") = 2
  BY <1>4, <1>5
<1> HIDE DEF In, At
<1>9. /\ m.name = w.name /\ m.classPath = w.classPath /\ m.rollout = w.rollout
      /\ m.dataset = w.dataset /\ m.rankGrpo = w.rankGrpo /\ m.loop = w.loop
      /\ m.buried = w.buried /\ m.adapterPath = w.adapterPath /\ m.nestedRank = w.nestedRank
      /\ m.rank = w.rank /\ m.optimizer = w.optimizer
      /\ m.oldReward = Null /\ m.n = w.n /\ m.valN = w.valN /\ \A k \in Read : m[k] = w[k]
      /\ m.reward = IF w.oldReward # Null THEN w.oldReward ELSE w.reward
  BY <1>2 DEF Setup!Keys, Read
<1>10. DOMAIN c = Setup!Keys /\ c = [k \in Setup!Keys |-> c[k]]
  BY <1>6
<1>11. /\ c.name = w.name /\ c.classPath = w.classPath /\ c.rankGrpo = w.rankGrpo
       /\ c.loop = w.loop /\ c.buried = w.buried /\ c.oldReward = Null
  BY <1>6, <1>7, <1>9 DEF Setup!Keys
<1>12. /\ c.rollout = w.rollout /\ c.dataset = w.dataset /\ c.adapterPath = w.adapterPath
       /\ c.nestedRank = w.nestedRank
       /\ c.reward = IF w.oldReward # Null THEN w.oldReward ELSE w.reward
  BY <1>5, <1>6, <1>8, <1>9 DEF Setup!Keys
<1>13. /\ c.rank = IF w.rank = Null THEN 0 ELSE w.rank
       /\ c.optimizer = IF w.optimizer = Null THEN "AdamW" ELSE w.optimizer
  BY <1>5, <1>6, <1>8, <1>9 DEF Setup!Keys
<1>14. c.n = (IF w.n = Null THEN 1 ELSE w.n) /\ c.valN = (IF w.valN = Null THEN 1 ELSE w.valN)
  BY <1>5, <1>6, <1>8, <1>9 DEF Setup!Keys
<1>15. \A k \in Read : c[k] = w[k]
  BY <1>6, <1>7, <1>9 DEF Setup!Keys, Read
<1> QED
  BY <1>10, <1>11, <1>12, <1>13, <1>14, <1>15

\* So the runner takes the task that the driver took.
LEMMA SameTask ==
  ASSUME NEW w \in Setups, NEW c, c = Setup!Backfilled(Setup!Migrated(w))
  PROVE  Setup!SelectTask(c) = Setup!SelectTask(w)
<1>1. Setup!Paths(c) = Setup!Paths(w)
  BY Untouched DEF Setup!Paths
<1>2. Setup!InferTask(c) = Setup!InferTask(w)
  BY <1>1, Untouched DEF Setup!InferTask
<1> QED
  BY <1>2, Untouched DEF Setup!SelectTask

\* The optimizer that was configured, at the first place that names one.
Optimizer ==
  IF wanted.buried # Null THEN wanted.buried
  ELSE IF wanted.optimizer # Null THEN wanted.optimizer ELSE "AdamW"

\* The configuration a run goes on with is still the one that was wanted, as far
\* as the recipe and the model depend on it.
Faithful ==
  /\ DOMAIN cfg = Setup!Keys /\ cfg = [k \in Setup!Keys |-> cfg[k]]
  /\ cfg.name = wanted.name /\ cfg.classPath = wanted.classPath
  /\ cfg.rollout = wanted.rollout /\ cfg.rankGrpo = wanted.rankGrpo /\ cfg.loop = wanted.loop
  /\ cfg.optimizer = Optimizer
  /\ cfg.rank \in Int /\ cfg.nestedRank \in Int \cup {Null}
  /\ \A k \in Read \ {"groups"} : cfg[k] = wanted[k]

\* The rollouts of a prompt that were configured, or its groups, ...
Rollouts == IF wanted.n # Null THEN wanted.n ELSE 1
ValRollouts == IF wanted.valN # Null THEN wanted.valN ELSE 1
Groups == Setup!AtLeastOne(IF wanted.groups # Null THEN wanted.groups ELSE Rollouts)

\* ... before and after they are multiplied by the width.
Counted == cfg.n = Rollouts /\ cfg.valN = ValRollouts /\ cfg.groups = wanted.groups
Multiplied ==
  /\ cfg.rollout = "two_stage" =>
       /\ cfg.n = Rollouts * Setup!TwoStageWidth(cfg)
       /\ cfg.valN = ValRollouts * Setup!TwoStageWidth(cfg)
  /\ cfg.rollout = "constrained_beam" =>
       /\ cfg.groups = Groups
       /\ cfg.n = Groups * Setup!AtLeastOne(Setup!ConstrainedWidth(cfg))

\* What the runner chose is what the configuration says.
Chosen ==
  /\ choices.task = driver
  /\ choices.reference = "in actor" => Setup!Rank(cfg) > 0
  /\ Setup!Named => choices.loop = wanted.name /\ choices.ranked = wanted.rankGrpo

\* And what the trainer took.
Adapted ==
  Setup!Named => /\ choices.adapter = wanted.name
                 /\ choices.useRm = (wanted.name = "minionerec")
                 /\ choices.gates = (wanted.name = "rankgrpo")

SetupInv ==
  /\ wanted \in Setups
  /\ setupAt = "driver" => cfg = wanted
  /\ choices = [task |-> choices.task, strategy |-> choices.strategy, loop |-> choices.loop,
                ranked |-> choices.ranked, reference |-> choices.reference,
                adapter |-> choices.adapter, useRm |-> choices.useRm, gates |-> choices.gates,
                prunes |-> choices.prunes]
  /\ setupAt \in {"driver", "runner", "refused", "trainer", "training", "validating", "running"}
  /\ setupAt \in {"runner", "trainer", "training", "validating", "running"} => Faithful
  /\ setupAt = "runner" => /\ driver = Setup!SelectTask(wanted) /\ Setup!SelectTask(cfg) = driver
                           /\ Counted
  /\ setupAt \in {"trainer", "training", "validating", "running"} => Chosen /\ Multiplied
  /\ setupAt \in {"training", "validating", "running"} => Adapted

LEMMA NullIsNoName ==
  /\ \A r \in Setup!Recipes : r # Null
  /\ "AdamW" # Null /\ AdapterRank \in Nat \ {0}
  /\ \A i \in Int : i # Null
BY PartsAssumption DEF Setup!SetupAssumption, Setup!Recipes

\* A configuration that is all of one recipe is of the task of that recipe.
LEMMA NamedTask ==
  ASSUME wanted \in Setups, Setup!Named
  PROVE  Setup!SelectTask(wanted) = wanted.name
<1>1. wanted.name # Null /\ wanted.classPath \in {Null, wanted.name}
  BY NullIsNoName DEF Setup!Named
<1>2. Setup!SelectTask(wanted) = IF wanted.classPath # Null THEN wanted.classPath ELSE wanted.name
  BY <1>1, First3 DEF Setup!SelectTask
<1> QED
  BY <1>1, <1>2

LEMMA DriverKeepsSetup ==
  ASSUME SetupInv, Setup!Drive
  PROVE  SetupInv'
<1>1. setupAt = "driver" /\ cfg = wanted /\ wanted \in Setups
  BY DEF SetupInv, Setup!Drive
<1> DEFINE c == Setup!Backfilled(Setup!Migrated(wanted))
<1>2. CASE Setup!Refuse
  BY <1>2 DEF Setup!Refuse, SetupInv
<1>3. CASE /\ driver' = Setup!SelectTask(cfg) /\ cfg' = c /\ setupAt' = "runner"
           /\ UNCHANGED <<wanted, choices, asked>>
           /\ ~ Setup!Buried(c)
  <2>1. Setup!SelectTask(c) = Setup!SelectTask(wanted)
    BY <1>1, SameTask
  <2>2. (driver = Setup!SelectTask(wanted) /\ Setup!SelectTask(cfg) = driver)'
    BY <1>1, <1>3, <2>1 DEF Setup!SelectTask, Setup!InferTask, Setup!Paths
  <2>3. c.optimizer = Optimizer
    <3>1. c.buried = wanted.buried
          /\ c.optimizer = IF wanted.optimizer = Null THEN "AdamW" ELSE wanted.optimizer
      BY <1>1, Untouched
    <3> QED
      BY <1>3, <3>1 DEF Setup!Buried, Optimizer
  <2>4. c.rank \in Int /\ c.nestedRank \in Int \cup {Null}
    <3>1. wanted.rank \in Int \cup {Null} /\ wanted.nestedRank \in Int \cup {Null}
      BY <1>1, PartsAssumption DEF Setup!SetupAssumption, Setup!Numbers
    <3>2. c.rank = (IF wanted.rank = Null THEN 0 ELSE wanted.rank) /\ c.nestedRank = wanted.nestedRank
      BY <1>1, Untouched
    <3> QED
      BY <3>1, <3>2
  <2>5. /\ DOMAIN c = Setup!Keys /\ c = [k \in Setup!Keys |-> c[k]]
        /\ c.name = wanted.name /\ c.classPath = wanted.classPath
        /\ c.rollout = wanted.rollout /\ c.rankGrpo = wanted.rankGrpo /\ c.loop = wanted.loop
    BY <1>1, Untouched
  <2>6. c.n = Rollouts /\ c.valN = ValRollouts /\ \A k \in Read : c[k] = wanted[k]
    BY <1>1, Untouched DEF Rollouts, ValRollouts
  <2> HIDE DEF c
  <2>7. Faithful'
    BY <1>3, <2>3, <2>4, <2>5, <2>6 DEF Faithful, Setup!Keys, Optimizer
  <2>8. Counted'
    BY <1>3, <2>6 DEF Counted, Rollouts, ValRollouts, Read
  <2> QED
    BY <1>1, <1>3, <2>2, <2>7, <2>8 DEF SetupInv
<1> QED
  BY <1>1, <1>2, <1>3 DEF Setup!Drive

LEMMA RunnerKeepsSetup ==
  ASSUME SetupInv, Setup!Prepare
  PROVE  SetupInv'
<1>1. /\ setupAt = "runner" /\ Faithful /\ wanted \in Setups
      /\ driver = Setup!SelectTask(wanted) /\ Setup!SelectTask(cfg) = driver
      /\ Counted
  BY DEF SetupInv, Setup!Prepare
<1> DEFINE e == Setup!Expanded(driver, cfg)
           c == Setup!WithLora(e)
<1>2. CASE Setup!Refuse
  BY <1>2 DEF Setup!Refuse, SetupInv
<1>3. CASE /\ cfg' = c
           /\ choices' = [choices EXCEPT !.task = driver, !.strategy = Setup!First(Setup!Strategies(c)),
                                         !.loop = Setup!Loop(driver, c), !.ranked = Setup!Ranked(driver, c),
                                         !.reference = Setup!Reference(c)]
           /\ setupAt' = "trainer"
           /\ UNCHANGED <<wanted, driver, asked>>
           /\ Setup!Registered(driver, c)
  <2>1. DOMAIN cfg = Setup!Keys /\ cfg = [k \in Setup!Keys |-> cfg[k]]
    BY <1>1 DEF Faithful
  <2>2. /\ DOMAIN e = Setup!Keys /\ e = [k \in Setup!Keys |-> e[k]]
        /\ e.name = cfg.name /\ e.classPath = cfg.classPath /\ e.rollout = cfg.rollout
        /\ e.rankGrpo = cfg.rankGrpo /\ e.loop = cfg.loop /\ e.optimizer = cfg.optimizer
        /\ e.rank = cfg.rank /\ e.nestedRank = cfg.nestedRank
        /\ \A k \in Read \ {"groups"} : e[k] = cfg[k]
    <3> DEFINE F(x, y, z) == [cfg EXCEPT !.n = x, !.valN = y, !.groups = z]
    <3>1. \E x, y, z : e = F(x, y, z)
      <4>1. cfg = F(cfg.n, cfg.valN, cfg.groups)
        BY <2>1 DEF Setup!Keys
      <4>2. \A x, y : [cfg EXCEPT !.n = x, !.valN = y] = F(x, y, cfg.groups)
        BY <2>1 DEF Setup!Keys
      <4>3. \A x, y : [cfg EXCEPT !.groups = x, !.n = y] = F(y, cfg.valN, x)
        BY <2>1 DEF Setup!Keys
      <4>4. CASE e = [cfg EXCEPT !.n = @ * Setup!TwoStageWidth(cfg), !.valN = @ * Setup!TwoStageWidth(cfg)]
        <5> DEFINE w == Setup!TwoStageWidth(cfg)
        <5>1. e = [cfg EXCEPT !.n = cfg.n * w, !.valN = cfg.valN * w]
          BY <4>4
        <5> HIDE DEF F, e, w
        <5>2. e = F(cfg.n * w, cfg.valN * w, cfg.groups)
          BY <4>2, <5>1
        <5> QED
          BY <5>2
      <4>5. CASE \E x, y : e = [cfg EXCEPT !.groups = x, !.n = y]
        <5>1. PICK x, y : e = [cfg EXCEPT !.groups = x, !.n = y]
          BY <4>5
        <5> HIDE DEF e, F
        <5>2. e = F(y, cfg.valN, x)
          BY <4>3, <5>1
        <5> QED
          BY <5>2
      <4>6. CASE e = cfg
        <5> HIDE DEF e, F
        <5> QED
          BY <4>1, <4>6
      <4>7. \/ e = [cfg EXCEPT !.n = @ * Setup!TwoStageWidth(cfg), !.valN = @ * Setup!TwoStageWidth(cfg)]
            \/ \E x, y : e = [cfg EXCEPT !.groups = x, !.n = y]
            \/ e = cfg
        BY DEF Setup!Expanded
      <4> QED
        BY <4>4, <4>5, <4>6, <4>7
    <3>2. PICK x, y, z : e = F(x, y, z)
      BY <3>1
    <3> HIDE DEF e
    <3> QED
      BY <2>1, <3>2 DEF Setup!Keys, Read
  <2> HIDE DEF e
  <2>3. /\ DOMAIN c = Setup!Keys /\ c = [k \in Setup!Keys |-> c[k]]
        /\ c.name = cfg.name /\ c.classPath = cfg.classPath /\ c.rollout = cfg.rollout
        /\ c.rankGrpo = cfg.rankGrpo /\ c.loop = cfg.loop /\ c.optimizer = cfg.optimizer
        /\ c.nestedRank = cfg.nestedRank /\ c.adapterPath = e.adapterPath
        /\ c.rank \in Int
        /\ c.n = e.n /\ c.valN = e.valN /\ c.groups = e.groups
        /\ \A k \in Read \ {"groups"} : c[k] = cfg[k]
    BY <1>1, <2>2, NullIsNoName DEF Setup!WithLora, Setup!Keys, Faithful, Read
  <2>4. Setup!Reference(c) = "in actor" => Setup!Rank(c) > 0
    <3>1. c.adapterPath # Null => Setup!Rank(c) > 0
      BY <1>1, <2>2, NullIsNoName DEF Setup!WithLora, Setup!Rank, Setup!Keys, Faithful
    <3>2. c.useKl \/ c.klInReward => Setup!Reference(c) =
            IF Setup!Rank(c) > 0 \/ c.adapterPath # Null THEN "in actor" ELSE "own"
      BY DEF Setup!Reference
    <3>3. ~ (c.useKl \/ c.klInReward) => Setup!Reference(c) = "none"
      BY DEF Setup!Reference
    <3> QED
      BY <3>1, <3>2, <3>3
  <2>5. Setup!Named => Setup!Loop(driver, c) = wanted.name /\ Setup!Ranked(driver, c) = wanted.rankGrpo
    <3> SUFFICES ASSUME Setup!Named
                 PROVE  Setup!Loop(driver, c) = wanted.name /\ Setup!Ranked(driver, c) = wanted.rankGrpo
      OBVIOUS
    <3>1. driver = wanted.name /\ driver \in Setup!Recipes
      BY <1>1, NamedTask DEF Setup!Named
    <3>2. /\ c.rollout = Setup!OwnRollout[wanted.name] /\ c.loop = wanted.name
          /\ c.rankGrpo = (wanted.name = "rankgrpo") /\ wanted.rankGrpo = c.rankGrpo
      BY <1>1, <2>3 DEF Faithful, Setup!Named
    <3>3. Setup!OwnRollout["rankgrpo"] = "rankgrpo"
      BY DEF Setup!OwnRollout
    <3> QED
      BY <3>1, <3>2, <3>3 DEF Setup!Loop, Setup!Ranked
  <2> HIDE DEF c
  <2>6. Faithful'
    BY <1>1, <1>3, <2>3 DEF Faithful, Setup!Keys, Optimizer, Read
  <2>8. Multiplied'
    <3>1. c.rollout = "two_stage" => driver = "openonerec"
      BY <1>3 DEF Setup!Registered, Setup!OwnRollout, Setup!Recipes
    <3>2. c.rollout = "constrained_beam" => driver = "minionerec"
      BY <1>3 DEF Setup!Registered, Setup!OwnRollout, Setup!Recipes
    <3>3. /\ Setup!TwoStageWidth(cfg)' = Setup!TwoStageWidth(cfg)
          /\ Setup!ConstrainedWidth(cfg)' = Setup!ConstrainedWidth(cfg)
      BY <1>3, <2>3 DEF Setup!TwoStageWidth, Setup!ConstrainedWidth, Read
    <3>4. ASSUME c.rollout = "two_stage"
          PROVE  /\ e.n = Rollouts * Setup!TwoStageWidth(cfg)
                 /\ e.valN = ValRollouts * Setup!TwoStageWidth(cfg)
      BY <1>1, <2>1, <2>3, <3>1, <3>4 DEF e, Setup!Expanded, Setup!Keys, Counted
    <3>5. ASSUME c.rollout = "constrained_beam"
          PROVE  /\ e.groups = Groups
                 /\ e.n = Groups * Setup!AtLeastOne(Setup!ConstrainedWidth(cfg))
      <4>1. Setup!First(<<cfg.groups, cfg.n>>) = IF wanted.groups # Null THEN wanted.groups ELSE Rollouts
        <5>1. Rollouts # Null
          BY NullIsNoName DEF Rollouts
        <5> QED
          BY <1>1, <5>1, First2 DEF Counted
      <4> QED
        BY <2>1, <2>3, <3>2, <3>5, <4>1 DEF e, Setup!Expanded, Setup!Keys, Groups
    <3>6. cfg'.rollout = c.rollout /\ cfg'.n = e.n /\ cfg'.valN = e.valN /\ cfg'.groups = e.groups
      BY <1>3, <2>3
    <3>7. Rollouts' = Rollouts /\ ValRollouts' = ValRollouts /\ Groups' = Groups
      BY <1>3 DEF Rollouts, ValRollouts, Groups
    <3>8. Setup!AtLeastOne(Setup!ConstrainedWidth(cfg))' = Setup!AtLeastOne(Setup!ConstrainedWidth(cfg))
      BY <3>3 DEF Setup!AtLeastOne
    <3> QED
      BY <3>3, <3>4, <3>5, <3>6, <3>7, <3>8 DEF Multiplied
  <2>7. Chosen'
    <3>1. /\ choices'.task = driver /\ choices'.loop = Setup!Loop(driver, c)
          /\ choices'.ranked = Setup!Ranked(driver, c) /\ choices'.reference = Setup!Reference(c)
      BY <1>3 DEF SetupInv
    <3>2. Setup!Rank(cfg)' = Setup!Rank(c) /\ (Setup!Named' <=> Setup!Named)
      BY <1>3 DEF Setup!Rank, Setup!Named
    <3> QED
      BY <1>3, <2>4, <2>5, <3>1, <3>2 DEF Chosen
  <2> QED
    BY <1>1, <1>3, <2>6, <2>7, <2>8 DEF SetupInv
<1> QED
  BY <1>1, <1>2, <1>3 DEF Setup!Prepare

LEMMA TrainerKeepsSetup ==
  ASSUME SetupInv, Setup!StartTrainer
  PROVE  SetupInv'
<1>1. setupAt = "trainer" /\ Faithful /\ Chosen /\ Multiplied /\ wanted \in Setups
  BY DEF SetupInv, Setup!StartTrainer
<1>2. /\ choices' = [choices EXCEPT !.adapter = Setup!Adapter(cfg), !.useRm = Setup!UseRm(cfg),
                                    !.gates = (cfg.name = "rankgrpo"), !.prunes = Setup!Prunes(cfg)]
      /\ setupAt' = "training" /\ UNCHANGED <<wanted, cfg, driver, asked>>
  BY DEF Setup!StartTrainer
<1>3. /\ choices'.task = choices.task /\ choices'.loop = choices.loop
      /\ choices'.ranked = choices.ranked /\ choices'.reference = choices.reference
      /\ choices'.adapter = Setup!Adapter(cfg) /\ choices'.useRm = Setup!UseRm(cfg)
      /\ choices'.gates = (cfg.name = "rankgrpo")
      /\ choices' = [task |-> choices'.task, strategy |-> choices'.strategy, loop |-> choices'.loop,
                     ranked |-> choices'.ranked, reference |-> choices'.reference,
                     adapter |-> choices'.adapter, useRm |-> choices'.useRm, gates |-> choices'.gates,
                     prunes |-> choices'.prunes]
  BY <1>2 DEF SetupInv
<1>4. Faithful'
  BY <1>1, <1>2 DEF Faithful, Optimizer, Setup!Keys, Read
<1>7. Multiplied'
  BY <1>1, <1>2 DEF Multiplied, Rollouts, ValRollouts, Groups, Setup!AtLeastOne,
                    Setup!TwoStageWidth, Setup!ConstrainedWidth
<1>5. Chosen'
  BY <1>1, <1>2, <1>3 DEF Chosen, Setup!Named, Setup!Rank
<1>6. Adapted'
  <2>1. ASSUME Setup!Named
        PROVE  /\ Setup!Adapter(cfg) = wanted.name
               /\ Setup!UseRm(cfg) = (wanted.name = "minionerec")
    <3>1. /\ cfg.name = wanted.name /\ cfg.name \in Setup!Recipes
          /\ cfg.rollout = Setup!OwnRollout[cfg.name]
      BY <1>1, <2>1 DEF Faithful, Setup!Named
    <3> QED
      BY <3>1 DEF Setup!Adapter, Setup!UseRm, Setup!Recipes, Setup!OwnRollout
  <2> QED
    BY <1>1, <1>2, <1>3, <2>1 DEF Adapted, Faithful, Setup!Named
<1> QED
  BY <1>1, <1>2, <1>3, <1>4, <1>5, <1>6, <1>7 DEF SetupInv

LEMMA AskKeepsSetup ==
  ASSUME SetupInv, Setup!AskTrain \/ Setup!AskVal
  PROVE  SetupInv'
<1>1. /\ UNCHANGED <<wanted, cfg, driver, choices>>
      /\ setupAt \in {"training", "validating"} /\ setupAt' \in {"validating", "running", "refused"}
  BY DEF Setup!AskTrain, Setup!AskVal, Setup!Ask, Setup!Refuse
<1> QED
  BY <1>1 DEF SetupInv, Faithful, Optimizer, Chosen, Adapted, Setup!Rank, Setup!Named, Read, Multiplied,
              Rollouts, ValRollouts, Groups, Setup!AtLeastOne, Setup!TwoStageWidth, Setup!ConstrainedWidth

LEMMA SetupInvariant == Spec => [](part = "setup" => SetupInv)
<1>1. Init => (part = "setup" => SetupInv)
  <2> SUFFICES ASSUME Setup!Init PROVE SetupInv
    BY DEF Init
  <2> QED
    BY DEF Setup!Init, Setup!Nothing, SetupInv
<1>2. (part = "setup" => SetupInv) /\ [Next]_vars => (part = "setup" => SetupInv)'
  <2> SUFFICES ASSUME part = "setup" => SetupInv, [Next]_vars, part' = "setup"
               PROVE  SetupInv'
    OBVIOUS
  <2>1. part = "setup" /\ SetupInv
    BY DEF Next, vars, SetupStep, RowsStep, BeamStep, HFStep, LogpsStep, FitStep, RewardsStep,
           ScoresStep, EvalStep
  <2>2. CASE SetupStep
    <3>1. Setup!Next
      BY <2>2 DEF SetupStep
    <3> QED
      BY <2>1, <3>1, DriverKeepsSetup, RunnerKeepsSetup, TrainerKeepsSetup, AskKeepsSetup
         DEF Setup!Next
  <2>3. CASE UNCHANGED setupVars
    <3>1. UNCHANGED <<wanted, cfg, setupAt, driver, choices, asked>>
      BY <2>3 DEF setupVars
    <3>2. Faithful' = Faithful /\ Counted' = Counted /\ Multiplied' = Multiplied
      BY <3>1 DEF Faithful, Optimizer, Counted, Multiplied, Rollouts, ValRollouts, Groups,
                  Setup!AtLeastOne, Setup!TwoStageWidth, Setup!ConstrainedWidth
    <3>3. Chosen' = Chosen /\ Adapted' = Adapted
      BY <3>1 DEF Chosen, Adapted, Setup!Rank, Setup!Named
    <3>4. /\ Setup!SelectTask(wanted)' = Setup!SelectTask(wanted)
          /\ Setup!SelectTask(cfg)' = Setup!SelectTask(cfg)
      BY <3>1 DEF Setup!SelectTask, Setup!InferTask, Setup!Paths
    <3> QED
      BY <2>1, <3>1, <3>2, <3>3, <3>4 DEF SetupInv
  <2> QED
    BY <2>1, <2>2, <2>3 DEF Next, vars, RowsStep, BeamStep, HFStep, LogpsStep, FitStep,
                            RewardsStep, ScoresStep, EvalStep
<1> QED
  BY <1>1, <1>2, PTL DEF Spec

\* Whichever of its places the configuration names the recipe at, the driver, the
\* runner and the trainer make one run of it, and no default replaces what was
\* configured (main_ppo.py:46-98, config_compat.py:127-725, rl_trainer.py:426-440).
THEOREM AlwaysOneRecipe == Spec => []OneRecipe
<1>1. (part = "setup" => SetupInv) => OneRecipe
  <2> SUFFICES ASSUME SetupInv PROVE Setup!OneRecipe
    BY DEF OneRecipe
  <2>1. Setup!First(<<wanted.buried, wanted.optimizer, "AdamW">>) = Optimizer
    BY NullIsNoName, First3 DEF Optimizer
  <2> QED
    BY <2>1 DEF SetupInv, Faithful, Chosen, Adapted, Setup!OneRecipe
<1> QED
  BY <1>1, SetupInvariant, PTL

-----------------------------------------------------------------------------
(* What is asked of the rollout, for configurations with positive widths.  *)

PositiveWidths ==
  \A c \in Setups : \A k \in {"beamWidth", "stage2BeamSize", "valBeamWidth"} :
    c[k] # Null => c[k] > 0

LEMMA SingleOf ==
  ASSUME NEW a, NEW b
  PROVE  Setup!Single(<<a, b>>) \in {Null, IF a # Null THEN a ELSE b}
         /\ Setup!Single(<<a, b>>) \in {Null, IF b # Null THEN b ELSE a}
<1> DEFINE s == <<a, b>>
           T == {i \in DOMAIN s : s[i] # Null}
<1>1. DOMAIN s = {1, 2} /\ s[1] = a /\ s[2] = b
  OBVIOUS
<1>2. Setup!Single(s) = IF Setup!Cardinality(T) = 1 THEN s[CHOOSE i \in T : TRUE] ELSE Null
  BY DEF Setup!Single
<1>3. \A S : Setup!Cardinality(S) = Cardinality(S)
  BY Zenon DEF Setup!Cardinality, Cardinality
<1>4. CASE a # Null /\ b # Null
  <2>1. T = {1, 2}
    BY <1>1, <1>4
  <2>2. Cardinality({1, 2}) = 2
    <3>1. IsFiniteSet({1}) /\ Cardinality({1}) = 1 /\ 2 \notin {1} /\ {1, 2} = {1} \cup {2}
      BY FS_Singleton
    <3> QED
      BY <3>1, FS_AddElement
  <2> QED
    BY <1>2, <1>3, <2>1, <2>2
<1>5. CASE ~ (a # Null /\ b # Null)
  <2>1. \A i \in T : s[i] = (IF a # Null THEN a ELSE b) /\ s[i] = (IF b # Null THEN b ELSE a)
    BY <1>1, <1>5
  <2>2. Cardinality(T) = 1 => T # {}
    BY FS_EmptySet
  <2> HIDE DEF T, s
  <2>3. T # {} => (CHOOSE i \in T : TRUE) \in T
    OBVIOUS
  <2>4. Setup!Single(s) \in {Null, IF a # Null THEN a ELSE b}
        /\ Setup!Single(s) \in {Null, IF b # Null THEN b ELSE a}
    BY <1>2, <1>3, <2>1, <2>2, <2>3
  <2> QED
    BY <2>4 DEF s
<1> QED
  BY <1>4, <1>5

\* What a decoding has of the lengths that the configuration names.
LengthsKept(a) ==
  /\ Setup!Single(<<wanted.stage2Tokens, wanted.paramsTokens>>) \in {Null, a.items}
  /\ Setup!Single(<<wanted.stage1Tokens, wanted.reasoningTokens>>) \in {Null, a.reasons}

\* Every fallback of a two-stage rollout comes to the width it is multiplied by.
LEMMA TwoStageSearch ==
  ASSUME PositiveWidths, wanted \in Setups, Faithful, cfg.rollout = "two_stage",
         choices.loop = "openonerec", NEW v
  PROVE  /\ Setup!Search(cfg, v).width = Setup!TwoStageWidth(cfg)
         /\ LengthsKept(Setup!Search(cfg, v))
<1>1. /\ cfg.beamWidth = wanted.beamWidth /\ cfg.stage2BeamSize = wanted.stage2BeamSize
      /\ cfg.stage1Tokens = wanted.stage1Tokens /\ cfg.stage2Tokens = wanted.stage2Tokens
      /\ cfg.paramsTokens = wanted.paramsTokens /\ cfg.reasoningTokens = wanted.reasoningTokens
  BY DEF Faithful, Read
<1>2. /\ wanted.beamWidth \in Int \cup {Null} /\ wanted.stage2BeamSize \in Int \cup {Null}
      /\ wanted.beamWidth # Null => wanted.beamWidth > 0
      /\ wanted.stage2BeamSize # Null => wanted.stage2BeamSize > 0
  BY PartsAssumption DEF Setup!SetupAssumption, Setup!Numbers, PositiveWidths
<1> DEFINE w == Setup!TwoStageWidth(cfg)
           meta == Setup!Meta(cfg)
           s == Setup!TwoStageSampling(cfg)
           d == Setup!Decoded(s, cfg)
<1>3. Setup!Search(cfg, v) = d
  BY DEF Setup!Search
<1>4. /\ w = IF wanted.beamWidth # Null THEN wanted.beamWidth
             ELSE IF wanted.stage2BeamSize # Null THEN wanted.stage2BeamSize ELSE 32
      /\ w # Null
  BY <1>1, NullIsNoName, First3 DEF Setup!TwoStageWidth
<1>5. w \in Int /\ w > 0
  BY <1>2, <1>4
<1> DEFINE metaItems == IF wanted.stage2Tokens # Null THEN wanted.stage2Tokens
                        ELSE IF wanted.paramsTokens # Null THEN wanted.paramsTokens ELSE 3
           metaReasons == Setup!First(<<wanted.stage1Tokens, wanted.reasoningTokens, cfg.response>>)
<1>6. \/ meta.width = w /\ meta.items = metaItems /\ meta.reasons = metaReasons
      \/ meta.width = Null /\ meta.items = Null /\ meta.reasons = Null
  <2>1. CASE choices.adapter # "default"
    <3>1. meta = [width |-> Setup!TwoStageWidth(cfg),
                  items |-> Setup!First(<<cfg.stage2Tokens, cfg.paramsTokens, 3>>),
                  reasons |-> Setup!First(<<cfg.stage1Tokens, cfg.reasoningTokens, cfg.response>>)]
      BY <2>1 DEF Setup!Meta
    <3>2. Setup!First(<<cfg.stage2Tokens, cfg.paramsTokens, 3>>) = metaItems
      BY <1>1, NullIsNoName, First3
    <3> QED
      BY <1>1, <3>1, <3>2
  <2>2. CASE choices.adapter = "default"
    BY <2>2 DEF Setup!Meta, Setup!NoMeta
  <2> QED
    BY <2>1, <2>2
<1>7. /\ s.width = Setup!First(<<meta.width, cfg.beamWidth, cfg.stage2BeamSize, 32>>)
      /\ s.items = Setup!First(<<meta.items, cfg.paramsTokens, cfg.stage2Tokens, 16>>)
      /\ s.reasons = Setup!First(<<meta.reasons, cfg.reasoningTokens, cfg.stage1Tokens, cfg.response>>)
  BY DEF Setup!TwoStageSampling
<1>8. /\ d.width = Setup!AtLeastOne(s.width)
      /\ d.items = Setup!First(<<s.items, cfg.paramsTokens, cfg.itemTokens, cfg.stage2Tokens, 16>>)
      /\ d.reasons = Setup!First(<<s.reasons, cfg.reasoningTokens, cfg.stage1Tokens, cfg.response>>)
  BY DEF Setup!Decoded
<1> HIDE DEF w, meta, s, d
<1>9. s.width = w
  BY <1>1, <1>4, <1>6, <1>7, NullIsNoName, First4
<1>10. d.width = w
  BY <1>5, <1>8, <1>9 DEF Setup!AtLeastOne
<1>11. Setup!Single(<<wanted.stage2Tokens, wanted.paramsTokens>>) \in {Null, d.items}
  <2>1. SUFFICES ASSUME wanted.stage2Tokens # Null \/ wanted.paramsTokens # Null
                 PROVE  /\ d.items # Null
                        /\ \/ d.items = IF wanted.stage2Tokens # Null THEN wanted.stage2Tokens
                                        ELSE wanted.paramsTokens
                           \/ d.items = IF wanted.paramsTokens # Null THEN wanted.paramsTokens
                                        ELSE wanted.stage2Tokens
    BY SingleOf
  <2>2. s.items # Null
        /\ \/ s.items = IF wanted.stage2Tokens # Null THEN wanted.stage2Tokens
                        ELSE wanted.paramsTokens
           \/ s.items = IF wanted.paramsTokens # Null THEN wanted.paramsTokens
                        ELSE wanted.stage2Tokens
    BY <1>1, <1>6, <1>7, <2>1, NullIsNoName, First4
  <2>3. d.items = s.items
    BY <1>8, <2>2, FirstOfFive
  <2> QED
    BY <2>2, <2>3
<1>12. Setup!Single(<<wanted.stage1Tokens, wanted.reasoningTokens>>) \in {Null, d.reasons}
  <2>1. SUFFICES ASSUME wanted.stage1Tokens # Null \/ wanted.reasoningTokens # Null
                 PROVE  /\ d.reasons # Null
                        /\ \/ d.reasons = IF wanted.stage1Tokens # Null THEN wanted.stage1Tokens
                                          ELSE wanted.reasoningTokens
                           \/ d.reasons = IF wanted.reasoningTokens # Null THEN wanted.reasoningTokens
                                          ELSE wanted.stage1Tokens
    BY SingleOf
  <2>2. metaReasons = IF wanted.stage1Tokens # Null THEN wanted.stage1Tokens
                      ELSE wanted.reasoningTokens
    BY <2>1, First3
  <2> HIDE DEF metaReasons
  <2>3. s.reasons # Null
        /\ \/ s.reasons = IF wanted.stage1Tokens # Null THEN wanted.stage1Tokens
                          ELSE wanted.reasoningTokens
           \/ s.reasons = IF wanted.reasoningTokens # Null THEN wanted.reasoningTokens
                          ELSE wanted.stage1Tokens
    BY <1>1, <1>6, <1>7, <2>1, <2>2, First4
  <2>4. d.reasons = s.reasons
    BY <1>8, <2>3, First4
  <2> QED
    BY <2>3, <2>4
<1> QED
  BY <1>3, <1>10, <1>11, <1>12 DEF LengthsKept, w

\* MiniOneRec: the width of the configuration, and the rows of a validation.
LEMMA HFSearches ==
  ASSUME PositiveWidths, wanted \in Setups, Faithful, Multiplied,
         cfg.rollout = "constrained_beam", choices.loop = "minionerec", cfg.beamWidth # Null
  PROVE  /\ cfg.n = Groups * Setup!Search(cfg, FALSE).width
         /\ Setup!MiniOneRecRows(cfg) = Groups * Setup!Search(cfg, TRUE).width
<1>1. /\ cfg.beamWidth = wanted.beamWidth /\ cfg.valBeamWidth = wanted.valBeamWidth
      /\ wanted.beamWidth \in Int /\ wanted.valBeamWidth \in Int \cup {Null}
      /\ wanted.beamWidth > 0
      /\ wanted.valBeamWidth # Null => wanted.valBeamWidth > 0
      /\ wanted.groups \in Int \cup {Null} /\ wanted.n \in Int \cup {Null}
  BY PartsAssumption DEF Setup!SetupAssumption, Setup!Numbers, PositiveWidths, Faithful, Read
<1> DEFINE w == wanted.beamWidth
           vw == IF wanted.valBeamWidth # Null THEN wanted.valBeamWidth ELSE w
<1>2. cfg.groups = Groups /\ cfg.n = Groups * Setup!AtLeastOne(Setup!ConstrainedWidth(cfg))
  BY DEF Multiplied
<1>3. Groups \in Int /\ Groups >= 1 /\ Groups # Null /\ w # Null /\ vw \in Int /\ vw > 0
  BY <1>1, NullIsNoName DEF Groups, Rollouts, Setup!AtLeastOne
<1>4. Setup!HFWidth(cfg) = w
  BY <1>1, <1>3, First2 DEF Setup!HFWidth
<1>5. Setup!ConstrainedWidth(cfg) = w
  BY <1>1, <1>3, First3 DEF Setup!ConstrainedWidth
<1>6. Setup!First(<<cfg.valBeamWidth, w>>) = vw
  BY <1>1, <1>3, First2
<1>7. Setup!Search(cfg, FALSE).width = w /\ Setup!Search(cfg, TRUE).width = vw
  <2>1. \A v : Setup!Search(cfg, v) = Setup!HFSearch(cfg, v)
    BY DEF Setup!Search
  <2>2. Setup!HFSearch(cfg, FALSE).width = Setup!HFWidth(cfg)
        /\ Setup!HFSearch(cfg, TRUE).width = Setup!First(<<cfg.valBeamWidth, Setup!HFWidth(cfg)>>)
    BY DEF Setup!HFSearch
  <2> QED
    BY <1>4, <1>6, <2>1, <2>2
<1>8. Setup!AtLeastOne(w) = w /\ Setup!AtLeastOne(vw) = vw /\ Setup!AtLeastOne(Groups) = Groups
  BY <1>1, <1>3 DEF Setup!AtLeastOne
<1>9. Setup!MiniOneRecRows(cfg) = Groups * vw
  <2>1. Setup!First(<<cfg.beamWidth, cfg.valN>>) = w
    BY <1>1, <1>3, First2
  <2> DEFINE other == Setup!AtLeastOne(cfg.n \div Setup!AtLeastOne(w))
  <2>2. Setup!First(<<cfg.groups, other>>) = Groups
    <3> HIDE DEF other
    <3> QED
      BY <1>2, <1>3, First2
  <2>3. Setup!MiniOneRecRows(cfg) = Setup!AtLeastOne(Setup!First(<<cfg.groups, other>>))
                                      * Setup!AtLeastOne(Setup!First(<<cfg.valBeamWidth, w>>))
    BY <2>1 DEF Setup!MiniOneRecRows
  <2> HIDE DEF other
  <2> QED
    BY <1>6, <1>8, <2>2, <2>3
<1> HIDE DEF vw, w
<1> QED
  BY <1>2, <1>5, <1>7, <1>8, <1>9

\* What the two batches were asked for.
TrainAsked ==
  /\ choices.loop = "openonerec" /\ cfg.rollout = "two_stage" =>
       asked.train.rows = Rollouts * asked.train.width /\ LengthsKept(asked.train)
  /\ choices.loop = "minionerec" /\ cfg.rollout = "constrained_beam" /\ cfg.beamWidth # Null =>
       asked.train.rows = Groups * asked.train.width
ValAsked ==
  /\ choices.loop = "openonerec" /\ cfg.rollout = "two_stage" =>
       /\ choices.adapter # "minionerec" => asked.val.rows = ValRollouts * asked.val.width
       /\ LengthsKept(asked.val)
  /\ choices.loop = "minionerec" /\ cfg.rollout = "constrained_beam" /\ cfg.beamWidth # Null
     /\ choices.adapter = "minionerec" =>
       asked.val.rows = Groups * asked.val.width

AskInv ==
  /\ asked = [train |-> asked.train, val |-> asked.val]
  /\ setupAt \in {"validating", "running"} => TrainAsked
  /\ setupAt = "running" => ValAsked

LEMMA AskIsKept ==
  ASSUME PositiveWidths, SetupInv, AskInv, Setup!Next
  PROVE  AskInv'
<1>1. CASE Setup!Drive \/ Setup!Prepare \/ Setup!StartTrainer
  <2>1. asked' = asked /\ setupAt' \in {"runner", "trainer", "training", "refused"}
    BY <1>1 DEF Setup!Drive, Setup!Prepare, Setup!StartTrainer, Setup!Refuse
  <2> QED
    BY <2>1 DEF AskInv
<1>2. CASE Setup!Refuse
  BY <1>2 DEF AskInv, Setup!Refuse
<1>3. ASSUME UNCHANGED <<wanted, cfg, driver, choices>>
      PROVE  /\ Rollouts' = Rollouts /\ ValRollouts' = ValRollouts /\ Groups' = Groups
             /\ \A a : LengthsKept(a)' = LengthsKept(a)
  BY <1>3 DEF Rollouts, ValRollouts, Groups, Setup!AtLeastOne, LengthsKept, Setup!Single, Setup!Cardinality
<1>4. CASE Setup!AskTrain /\ ~ Setup!Refuse
  <2> DEFINE s == Setup!Search(cfg, FALSE)
  <2>1. /\ setupAt = "training" /\ setupAt' = "validating" /\ UNCHANGED <<wanted, cfg, driver, choices>>
        /\ asked' = [asked EXCEPT !["train"] = [rows |-> cfg.n, width |-> s.width, items |-> s.items,
                                                reasons |-> s.reasons]]
    BY <1>4 DEF Setup!AskTrain, Setup!Ask
  <2>2. Faithful /\ Multiplied /\ wanted \in Setups
    BY <2>1 DEF SetupInv
  <2> HIDE DEF s
  <2>3. /\ asked'.train = [rows |-> cfg.n, width |-> s.width, items |-> s.items, reasons |-> s.reasons]
        /\ asked' = [train |-> asked'.train, val |-> asked'.val]
    BY <2>1 DEF AskInv
  <2>4. TrainAsked'
    <3>1. ASSUME choices.loop = "openonerec", cfg.rollout = "two_stage"
          PROVE  cfg.n = Rollouts * s.width /\ LengthsKept(s)
      BY <2>2, <3>1, TwoStageSearch DEF s, Multiplied
    <3>2. LengthsKept(s) = LengthsKept(asked'.train)
      BY <2>3 DEF LengthsKept
    <3>3. ASSUME choices.loop = "minionerec", cfg.rollout = "constrained_beam", cfg.beamWidth # Null
          PROVE  cfg.n = Groups * s.width
      BY <2>2, <3>3, HFSearches DEF s
    <3>4. asked'.train.rows = cfg.n /\ asked'.train.width = s.width
      BY <2>3
    <3> QED
      BY <1>3, <2>1, <3>1, <3>2, <3>3, <3>4 DEF TrainAsked
  <2> QED
    BY <2>1, <2>3, <2>4 DEF AskInv
<1>5. CASE Setup!AskVal /\ ~ Setup!Refuse
  <2> DEFINE s == Setup!Search(cfg, TRUE)
             n == Setup!ValRows(cfg)
  <2>1. /\ setupAt = "validating" /\ setupAt' = "running" /\ UNCHANGED <<wanted, cfg, driver, choices>>
        /\ asked' = [asked EXCEPT !["val"] = [rows |-> n, width |-> s.width, items |-> s.items,
                                              reasons |-> s.reasons]]
    BY <1>5 DEF Setup!AskVal, Setup!Ask
  <2>2. Faithful /\ Multiplied /\ wanted \in Setups
    BY <2>1 DEF SetupInv
  <2>3. n = IF choices.adapter = "minionerec" THEN Setup!MiniOneRecRows(cfg) ELSE cfg.valN
    BY DEF Setup!ValRows
  <2> HIDE DEF s, n
  <2>4. /\ asked'.val = [rows |-> n, width |-> s.width, items |-> s.items, reasons |-> s.reasons]
        /\ asked'.train = asked.train
        /\ asked' = [train |-> asked'.train, val |-> asked'.val]
    BY <2>1 DEF AskInv
  <2>5. ValAsked'
    <3>1. ASSUME choices.loop = "openonerec", cfg.rollout = "two_stage"
          PROVE  LengthsKept(s) /\ (choices.adapter # "minionerec" => n = ValRollouts * s.width)
      BY <2>2, <2>3, <3>1, TwoStageSearch DEF s, Multiplied
    <3>2. LengthsKept(s) = LengthsKept(asked'.val)
      BY <2>4 DEF LengthsKept
    <3>3. ASSUME choices.loop = "minionerec", cfg.rollout = "constrained_beam", cfg.beamWidth # Null,
                 choices.adapter = "minionerec"
          PROVE  n = Groups * s.width
      BY <2>2, <2>3, <3>3, HFSearches DEF s
    <3>4. asked'.val.rows = n /\ asked'.val.width = s.width
      BY <2>4
    <3> QED
      BY <1>3, <2>1, <3>1, <3>2, <3>3, <3>4 DEF ValAsked
  <2>6. TrainAsked'
    BY <1>3, <2>1, <2>4 DEF AskInv, TrainAsked
  <2> QED
    BY <2>1, <2>4, <2>5, <2>6 DEF AskInv
<1> QED
  BY <1>1, <1>2, <1>4, <1>5 DEF Setup!Next

\* What the rollout counts were expanded by is what the trainer asks for and what is
\* searched, in training and in validation, whichever keys name the widths and the
\* lengths, for all configurations whose widths are positive
\* (onerec_recipe.py:409-427, minionerec_recipe.py:25-44, beam_config.py:90-240).
THEOREM AlwaysOneDecoding ==
  ASSUME PositiveWidths
  PROVE  Spec => []OneDecoding
<1>1. Init => (part = "setup" => SetupInv /\ AskInv)
  <2> SUFFICES ASSUME Setup!Init PROVE SetupInv /\ AskInv
    BY DEF Init
  <2> QED
    BY DEF Setup!Init, Setup!Nothing, SetupInv, AskInv
<1>2. (part = "setup" => SetupInv) /\ (part = "setup" => SetupInv /\ AskInv) /\ [Next]_vars
        /\ (part = "setup" => SetupInv)'
      => (part = "setup" => SetupInv /\ AskInv)'
  <2> SUFFICES ASSUME part = "setup" => SetupInv /\ AskInv, [Next]_vars, part' = "setup"
               PROVE  AskInv'
    OBVIOUS
  <2>1. part = "setup" /\ SetupInv /\ AskInv
    BY DEF Next, vars, SetupStep, RowsStep, BeamStep, HFStep, LogpsStep, FitStep, RewardsStep,
           ScoresStep, EvalStep
  <2>2. CASE SetupStep
    BY <2>1, <2>2, AskIsKept DEF SetupStep
  <2>3. CASE UNCHANGED setupVars
    <3>1. UNCHANGED <<wanted, cfg, setupAt, driver, choices, asked>>
      BY <2>3 DEF setupVars
    <3>2. /\ Rollouts' = Rollouts /\ ValRollouts' = ValRollouts /\ Groups' = Groups
          /\ LengthsKept(asked.train)' = LengthsKept(asked.train)
          /\ LengthsKept(asked.val)' = LengthsKept(asked.val)
      BY <3>1 DEF Rollouts, ValRollouts, Groups, Setup!AtLeastOne, LengthsKept, Setup!Single,
                  Setup!Cardinality
    <3>3. TrainAsked' = TrainAsked /\ ValAsked' = ValAsked
      BY <3>1, <3>2 DEF TrainAsked, ValAsked
    <3> QED
      BY <2>1, <3>1, <3>3 DEF AskInv
  <2> QED
    BY <2>1, <2>2, <2>3 DEF Next, vars, RowsStep, BeamStep, HFStep, LogpsStep, FitStep,
                            RewardsStep, ScoresStep, EvalStep
<1>3. (part = "setup" => SetupInv /\ AskInv) => OneDecoding
  <2> SUFFICES ASSUME SetupInv, AskInv, setupAt = "running" PROVE Setup!OneDecoding
    BY DEF OneDecoding, Setup!OneDecoding
  <2>1. TrainAsked /\ ValAsked
    BY DEF AskInv
  <2>2. Setup!First(<<wanted.n, 1>>) = Rollouts /\ Setup!First(<<wanted.valN, 1>>) = ValRollouts
    BY NullIsNoName, First2 DEF Rollouts, ValRollouts
  <2>3. Setup!AtLeastOne(Setup!First(<<wanted.groups, wanted.n, 1>>)) = Groups
    <3>1. Setup!First(<<wanted.groups, wanted.n, 1>>) =
            IF wanted.groups # Null THEN wanted.groups ELSE Rollouts
      BY NullIsNoName, First3 DEF Rollouts
    <3> QED
      BY <3>1 DEF Groups
  <2>4. ASSUME choices.loop = "openonerec", cfg.rollout = "two_stage"
        PROVE  \A b \in {"train", "val"} : LengthsKept(asked[b])
    BY <2>1, <2>4 DEF TrainAsked, ValAsked
  <2> QED
    BY <2>1, <2>2, <2>3, <2>4 DEF TrainAsked, ValAsked, LengthsKept, Setup!OneDecoding
<1> QED
  BY <1>1, <1>2, <1>3, SetupInvariant, PTL DEF Spec
===============================================================================
