----------------------------- MODULE DatasetRows -----------------------------
(***************************************************************************)
(* The datasets of the recipes: OneRecDataset (onerec_recipe.py),          *)
(* MiniOneRecDataset (minionerec_dataset.py) and RankGRPODataset           *)
(* (rankgrpo_dataset.py), over an epoch that a process may leave and       *)
(* another resume.  A process builds its dataset anew; the position in the *)
(* epoch comes from the checkpoint, and is a position in that dataset.     *)
(*                                                                         *)
(* A prompt is its length in tokens.  The shuffle of a seed is one         *)
(* permutation, and Reverse stands for it; without a seed it is any.       *)
(***************************************************************************)
EXTENDS Integers, Sequences, SequencesExt, FiniteSets, Sorting

CONSTANTS
  Lengths,    \* of the prompts of the source files, in their order
  MaxLength,  \* max_prompt_length
  Slack,      \* what the filter leaves free of it, 10 in the code
  Prefix,     \* the length of the forced prefix of a response
  Datasets,   \* the configurations
  MaxProcess  \* bound: the processes of an epoch

\* Assumed of the constants by RunParts.
RowsAssumption ==
  /\ Lengths \in Seq(Nat \ {0})
  /\ {MaxLength, MaxProcess} \subseteq Nat \ {0}
  /\ {Slack, Prefix} \subseteq Nat /\ Slack < MaxLength
  /\ \A d \in Datasets : {d.max, d.sample} \subseteq Int

VARIABLES
  dataset,   \* its configuration
  frame,     \* the constructed rows, each <<task, source row>>
  position,  \* in the epoch
  used,      \* the rows trained on, those of lost steps left out
  given,     \* what the last row was served as
  saved,     \* the position in the checkpoint
  process,   \* how many processes have built the dataset
  serving    \* "no", "yes", "ended" or "failed"

vars == <<dataset, frame, position, used, given, saved, process, serving>>

Sources == [i \in DOMAIN Lengths |-> <<"sid", i>>]
FirstOf(s, n) == IF 0 < n /\ n < Len(s) THEN SubSeq(s, 1, n) ELSE s

\* The ways to shuffle s.
Shuffled(s) == IF dataset.seeded THEN {Reverse(s)} ELSE SetToSeqs(ToSet(s))

\* OpenOneRec and RankGRPO draw rows only when there are more than they may have.
Drawn ==
  IF dataset.shuffle /\ 0 < dataset.max /\ dataset.max < Len(Sources)
  THEN {FirstOf(s, dataset.max) : s \in Shuffled(Sources)}
  ELSE {FirstOf(Sources, dataset.max)}

\* Mutant: the filter leaves no room for what is added to a prompt later.
FitsExactly(row) == dataset.filter => Lengths[row[2]] <= MaxLength

\* maybe_filter_out_long_prompts
Fits(row) == dataset.filter => Lengths[row[2]] <= MaxLength - Slack

Filtered(s) == At(s, {i \in DOMAIN s : Fits(s[i])})

\* The records of MiniOneRec: those of the histories, and for the alignment the
\* titles and a sample of the histories once more.
Records ==
  LET histories == {FirstOf(s, dataset.sample) : s \in Shuffled([i \in DOMAIN Lengths |-> <<"seq", i>>])}
      titles == [i \in DOMAIN Lengths |-> <<"title", i>>]
  IN  IF dataset.alignment THEN {Sources \o titles \o h : h \in histories} ELSE {Sources}

Frames ==
  IF dataset.recipe = "minionerec"
  THEN {FirstOf(s, dataset.max) :
          s \in IF dataset.shuffle THEN UNION {Shuffled(r) : r \in Records} ELSE Records}
  ELSE {Filtered(s) : s \in Drawn}

NotGiven == [ids |-> {}, server |-> {}]

Init ==
  /\ dataset \in Datasets
  /\ frame = <<>> /\ position = 0 /\ used = <<>> /\ saved = 0 /\ process = 0
  /\ given = NotGiven
  /\ serving = "no"

Build ==
  /\ serving = "no"
  /\ frame' \in Frames
  /\ process' = process + 1
  /\ serving' = "yes"
  /\ UNCHANGED <<dataset, position, used, given, saved>>

\* The tokens of a prompt of n tokens that a truncation keeps.
Kept(truncation, n) ==
  IF n <= MaxLength THEN 1 .. n
  ELSE CASE truncation = "left" -> n - MaxLength + 1 .. n
         [] truncation = "right" -> 1 .. MaxLength
         [] truncation = "middle" ->
              1 .. MaxLength \div 2 \cup n - (MaxLength - MaxLength \div 2) + 1 .. n

Length(row) ==
  Lengths[row[2]] + IF dataset.recipe = "openonerec" /\ dataset.prefixed THEN Prefix ELSE 0

\* The ids that are sent to a server; only OpenOneRec heeds the truncation in them.
ServerIds(n) == Kept(IF dataset.recipe = "openonerec" THEN dataset.truncation ELSE "left", n)

\* __getitem__
Serve ==
  /\ serving = "yes" /\ position < Len(frame)
  /\ LET row == frame[position + 1]
         n == Length(row)
     IN IF n > MaxLength /\ dataset.truncation = "error"
        THEN /\ serving' = "failed"
             /\ UNCHANGED <<dataset, frame, position, used, given, saved, process>>
        ELSE /\ given' = [ids |-> Kept(dataset.truncation, n), server |-> ServerIds(n)]
             /\ used' = Append(used, row)
             /\ position' = position + 1
             /\ UNCHANGED <<dataset, frame, saved, process, serving>>

\* The trainer saves the state of its data loader with a checkpoint.
Save ==
  /\ serving = "yes" /\ saved < position
  /\ saved' = position
  /\ UNCHANGED <<dataset, frame, position, used, given, process, serving>>

\* The process ends; the next builds the dataset and resumes from the checkpoint.
Restart ==
  /\ serving = "yes" /\ process < MaxProcess
  /\ position' = saved
  /\ used' = SubSeq(used, 1, saved)
  /\ frame' = <<>>
  /\ serving' = "no"
  /\ UNCHANGED <<dataset, given, saved, process>>

EndEpoch ==
  /\ serving = "yes" /\ position = Len(frame)
  /\ serving' = "ended"
  /\ UNCHANGED <<dataset, frame, position, used, given, saved, process>>

Next == Build \/ Serve \/ Save \/ Restart \/ EndEpoch

------------------------------------------------------------------------------
\* Does the construction of the dataset draw lots that no seed fixes?
DrawsLots ==
  /\ ~dataset.seeded
  /\ IF dataset.recipe = "minionerec"
     THEN dataset.shuffle \/ dataset.alignment
     ELSE dataset.shuffle /\ 0 < dataset.max /\ dataset.max < Len(Sources)

\* The training takes the logprobs of the tokens a server was given: the others than
\* OpenOneRec cut these on the left whatever the truncation.
OnePrompt ==
  dataset.recipe = "openonerec" \/ dataset.truncation \in {"left", "error"} =>
    given.ids = given.server

\* An epoch trains on every constructed row once, across the processes that share
\* it, when a seed or no draw makes them construct the same dataset; no prompt that
\* the filter lets through stops it or is cut, by the forced prefix of OpenOneRec
\* neither; and a prompt is the same one for the server and for the training.
EveryRowOnce ==
  /\ serving = "ended" /\ ~DrawsLots =>
       Len(used) = Len(frame) /\ ToSet(used) = ToSet(frame)
  /\ dataset.filter /\ dataset.recipe # "minionerec" =>
       serving # "failed" /\ given.ids \in {1 .. n : n \in 0 .. MaxLength}
  /\ OnePrompt
==============================================================================
