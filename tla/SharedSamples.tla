---------------------------- MODULE SharedSamples -----------------------------
(***************************************************************************)
(* What the two-stage server promises the calls of a group, without tasks, *)
(* engine, lock or counters: they share stage-1 samples.  A group has at   *)
(* most one open sample.  A call is answered from the open sample when     *)
(* there is one, and otherwise from a sample of its group that is opened   *)
(* for it.  A sample is open until it has answered Width calls, unless it  *)
(* is dropped before (eviction, weight update).                            *)
(* See the class comment of TwoStagevLLMHttpServer,                        *)
(* verl_gr/workers/rollout/two_stage_vllm_async.py:57.                     *)
(***************************************************************************)
EXTENDS Naturals

CONSTANTS Call, Group, GroupOf, Width, None

VARIABLES
  call,   \* what each call knows
  source, \* the sample each call was answered from
  open,   \* the open sample of each group
  uses    \* how many calls each sample has answered

vars == <<call, source, open, uses>>

Init ==
  /\ call = [c \in Call |-> "idle"]
  /\ source = [c \in Call |-> None]
  /\ open = [g \in Group |-> None]
  /\ uses = [s \in Call |-> 0]

\* Any group but g may lose its open sample.
OthersMayDrop(g, next) ==
  \A h \in Group \ {g} : next[h] \in {open[h], None}

Await(c) ==
  /\ call[c] = "idle"
  /\ call' = [call EXCEPT ![c] = "waiting"]
  /\ UNCHANGED <<source, open, uses>>

Answer(c, s) ==
  LET g == GroupOf[c] IN
    /\ call[c] \in {"idle", "waiting"}
    /\ GroupOf[s] = g
    /\ open[g] \in {None, s}
    /\ call' = [call EXCEPT ![c] = "served"]
    /\ source' = [source EXCEPT ![c] = s]
    /\ uses' = [uses EXCEPT ![s] = @ + 1]
    /\ open' \in [Group -> Call \cup {None}]
    /\ open'[g] = IF uses[s] + 1 < Width THEN s ELSE None
    /\ OthersMayDrop(g, open')

Refuse(c) ==
  /\ call[c] \in {"idle", "waiting"}
  /\ call' = [call EXCEPT ![c] = "failed"]
  /\ UNCHANGED <<source, open, uses>>

Drop ==
  /\ open' \in [Group -> Call \cup {None}]
  /\ \A g \in Group : open'[g] \in {open[g], None}
  /\ UNCHANGED <<call, source, uses>>

Next ==
  \/ \E c \in Call : Await(c) \/ Refuse(c)
  \/ \E c, s \in Call : Answer(c, s)
  \/ Drop

Spec == Init /\ [][Next]_vars
===============================================================================
