------------------------------- MODULE GatedFit -------------------------------
(***************************************************************************)
(* The training loop of RankGRPO with its watchdogs: RLTrainer.fit of      *)
(*   verl_gr/trainers/rl_trainer.py wraps the log call of verl's loop;     *)
(*   verl_gr/recipes/rankgrpo/alignment/convergence_gate.py may end the    *)
(* process from inside it;                                                 *)
(*   verl_gr/recipes/rankgrpo/rankgrpo_logprob_metrics.py collects every   *)
(* step and judges the process when it ends.                               *)
(*                                                                         *)
(* TrainingWorker is the process and its checkpoints.  What a step logs is *)
(* one of the constant Readings: the KL (-1 if it is not logged),          *)
(* whether the evaluation lags, whether completions blow up, and whether   *)
(* the KL and the log-probabilities are aligned with the reference run.    *)
(***************************************************************************)
EXTENDS TrainingWorker, Integers, FiniteSetsExt

CONSTANTS
  GateSteps,     \* the steps with a floor or a lag (KL_ABS_FLOORS and the others)
  KlFloor,       \* the floor of the KL, absolute or as a ratio to the reference run
  LengthMinStep, \* VERL_GR_LENGTH_GATE_MIN_STEP
  Warmup,        \* skip_warmup_steps
  Configs,       \* which of the watchdog of the KL (VERL_GR_KL_GROWTH_GATE) and the
                 \* alignment report (RUN_DEBUG_STEP) are on, trainer.logging_steps,
                 \* and a bound on the processes
  Readings       \* what a step may log

\* Assumed of the constants by RunParts.
GatesAssumption ==
  /\ GateSteps \subseteq Nat
  /\ {KlFloor, LengthMinStep, Warmup} \subseteq Nat
  /\ Configs \subseteq [watchdog : BOOLEAN, report : BOOLEAN, logging : Nat, runs : 1 .. MaxRuns]
  /\ Readings \subseteq [kl : Nat \cup {-1}, lags : BOOLEAN, blowout : BOOLEAN,
                         klAligned : {"yes", "no", "skip"}, lpAligned : {"yes", "no", "skip"}]

VARIABLES
  config,     \* what is on
  atGate,     \* _FORK_KL_AT_GATE: the KL of the gates this process has logged
  tally,      \* the steps recorded for the alignment gate, by verdict
  status,     \* the exit status of the last process; -1 if it was killed
  aborted,    \* _ABORT_REPORT_WRITTEN
  logged,     \* history: the KL of every gate of this training, and who logged it
  unreported  \* history: did the report of a watchdog fail to be written?

gateVars == <<config, atGate, tally, status, aborted, logged, unreported>>
vars == <<workerVars, gateVars>>

NoSteps == [kl |-> [yes |-> 0, no |-> 0, skip |-> 0], lp |-> [yes |-> 0, no |-> 0, skip |-> 0]]
Nothing == [x \in {} |-> 0]
Kept(f, S) == [x \in DOMAIN f \cap S |-> f[x]]
With(f, x, y) == [z \in DOMAIN f \cup {x} |-> IF z = x THEN y ELSE f[z]]

Init ==
  /\ WorkerInit
  /\ config \in Configs
  /\ atGate = Nothing
  /\ tally = NoSteps
  /\ status = -1
  /\ aborted = FALSE
  /\ logged = Nothing
  /\ unreported = FALSE

\* The memory of the gates is the process's: a new one has none.
Start ==
  /\ run < config.runs
  /\ StartProcess
  /\ atGate' = Nothing
  /\ tally' = NoSteps
  /\ status' = -1
  /\ aborted' = FALSE
  /\ logged' = Kept(logged, 1 .. step')
  /\ unreported' = FALSE
  /\ UNCHANGED config

-----------------------------------------------------------------------------
(* maybe_abort_on_kl_growth_failure and maybe_abort_on_length_blowout      *)

\* Mutant: the earliest gate is remembered.
EarliestGate(gates) == Min(gates)

\* prev_steps[-1]
PreviousGate(gates) == Max(gates)

\* The memory after the gate at this step has put its KL in.
Remembered(r) == IF r.kl < 0 THEN atGate ELSE With(atGate, step, r.kl)

Collapsed(r) ==
  LET earlier == {g \in DOMAIN Remembered(r) : g < step} IN
  /\ r.kl >= 0 /\ earlier # {}
  /\ 2 * r.kl < Remembered(r)[PreviousGate(earlier)]

GateFails(r) ==
  /\ config.watchdog /\ step \in GateSteps
  /\ \/ r.kl >= 0 /\ r.kl < KlFloor
     \/ Collapsed(r)
     \/ r.lags

LengthFails(r) == step >= LengthMinStep /\ r.blowout

-----------------------------------------------------------------------------
(* The wrapped log call                                                    *)

\* record: every step, logged or not.
Recorded(r) ==
  IF config.report
  THEN [kl |-> [tally.kl EXCEPT ![r.klAligned] = @ + 1],
        lp |-> [tally.lp EXCEPT ![r.lpAligned] = @ + 1]]
  ELSE tally

ShouldLog == config.logging <= 1 \/ step % config.logging = 0

\* The loop of verl goes on with the next step, or ends.
GoOn == phase' = IF step = MaxStep THEN "leave" ELSE "train"

\* A watchdog writes its report and exits with 3; if the report cannot be
\* written, the exception is swallowed with the abort and training goes on.
Abort(r) ==
  \/ /\ aborted' = TRUE
     /\ phase' = "leave"
     /\ status' = 3
     /\ UNCHANGED unreported
  \/ /\ unreported' = TRUE
     /\ GoOn
     /\ status' = IF step = MaxStep THEN 0 ELSE status
     /\ UNCHANGED aborted

Quiet ==
  /\ GoOn
  /\ status' = IF step = MaxStep THEN 0 ELSE status
  /\ UNCHANGED <<aborted, unreported>>

Log ==
  /\ phase = "log"
  /\ \E r \in Readings :
       /\ tally' = IF step > Warmup THEN Recorded(r) ELSE tally
       /\ IF ShouldLog
          THEN /\ atGate' = IF config.watchdog /\ step \in GateSteps THEN Remembered(r) ELSE atGate
               /\ logged' = IF config.watchdog /\ step \in GateSteps /\ r.kl >= 0
                            THEN With(logged, step, [run |-> run, kl |-> r.kl]) ELSE logged
               /\ IF GateFails(r) \/ LengthFails(r) THEN Abort(r) ELSE Quiet
          ELSE Quiet /\ UNCHANGED <<atGate, logged>>
  /\ UNCHANGED <<run, step, memoryVars, files, tracker, historyVars, config>>

\* Anything else raises: the finally clause of fit runs all the same.
StepRaises ==
  /\ phase = "train"
  /\ phase' = "leave"
  /\ status' = 1
  /\ UNCHANGED <<run, step, memoryVars, files, tracker, historyVars, config,
                 atGate, tally, aborted, logged, unreported>>

-----------------------------------------------------------------------------
(* finally: the reports, and the alignment gate                            *)

Evaluated(t) == t.yes + t.no

\* Mutant: steps without a value count as passed.
SkipsPass(t) == 3 * (t.yes + t.skip) >= 2 * (Evaluated(t) + t.skip)

\* _metric_gate_passed: two thirds of the evaluated steps, and at least one.
MetricPasses(t) == Evaluated(t) > 0 /\ 3 * t.yes >= 2 * Evaluated(t)

\* faster: the mean step time beats the reference; blocked: the reference run
\* has no such series.
Aligned(faster, blocked) ==
  ~ blocked /\ faster /\ MetricPasses(tally.kl) /\ MetricPasses(tally.lp)

\* The gate exits with 2 whatever the process was about to exit with; writing
\* the alignment report may raise.
Leave ==
  /\ phase = "leave"
  /\ phase' = "ended"
  /\ \E faster, blocked, raises \in BOOLEAN :
       status' = IF ~ config.report THEN status
                 ELSE IF raises THEN 1
                 ELSE IF Aligned(faster, blocked) THEN status ELSE 2
  /\ UNCHANGED <<run, step, memoryVars, files, tracker, historyVars, config,
                 atGate, tally, aborted, logged, unreported>>

Work == Train \/ SaveModel \/ SaveOptimizer \/ SaveSchedule \/ SaveTracker

Next ==
  \/ Start \/ Log \/ StepRaises \/ Leave
  \/ Work /\ UNCHANGED gateVars
  \/ Crash /\ status' = -1
           /\ UNCHANGED <<config, atGate, tally, aborted, logged, unreported>>

Spec == Init /\ [][Next]_vars

-----------------------------------------------------------------------------
\* The gates that were logged with a KL, in process p.
GatesOf(p) == {g \in DOMAIN logged : logged[g].run = p}
Kl(g) == logged[g].kl
EndsWell == phase = "ended" /\ status = 0

\* A training never goes on, or ends well, past a gate whose KL is under the
\* floor, or is less than half of what it was at the gate before, unless the
\* process that logged the earlier gate is gone, or the report could not be
\* written: the watchdog compares neighbours, and remembers over every step in
\* between (convergence_gate.py:427-496).
CollapseEndsTheRun ==
  config.watchdog /\ ~ unreported /\ (phase = "train" \/ EndsWell) =>
    \A g \in GatesOf(run) :
      /\ Kl(g) >= KlFloor
      /\ \A h \in GatesOf(run) : h < g /\ (\A i \in GatesOf(run) : ~ (h < i /\ i < g)) =>
           2 * Kl(g) >= Kl(h)

\* A process that exits with 0 has trained all its steps and was not aborted,
\* and if it was compared with the reference run it has steps that were
\* evaluated and at most one of three disagrees: an abort is never hidden by the
\* reports that follow it, nor a gate passed by having nothing to judge
\* (rl_trainer.py:399-424, rankgrpo_logprob_metrics.py:1236-1239, 1463-1470).
SuccessIsEarned ==
  EndsWell =>
    /\ step = MaxStep /\ ~ aborted
    /\ config.report => \A t \in {tally.kl, tally.lp} : t.yes > 0 /\ 2 * t.no <= t.yes
=============================================================================
