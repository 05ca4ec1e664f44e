SPECIFICATION Spec
CONSTANTS
  Null = Null
  Setups <- MCSetups
  AdapterRank = 16
  Lengths <- MCLengths
  MaxLength = 5
  Slack = 2
  Prefix = 2
  Datasets <- MCDatasets
  MaxProcess = 2
  Catalogue <- SmallCatalogue
  EOS = 2
  Logprob <- Twice
  PromptLen = 1
  Divisor <- Lengthwise
  Calls <- SmallCalls
  Items <- MCItems
  HFConfigs <- MCHFConfigs
  HFCalls <- MCHFCalls
  MaxCalls = 2
  Samples <- MCSamples
  Engines <- MCEngines
  MaxStep = 3
  MaxRuns = 3
  SaveFreq = 1
  SyncFreq = 2
  GateSteps = {1, 2, 3}
  KlFloor = 1
  LengthMinStep = 2
  Warmup = 0
  Configs <- MCConfigs
  Readings <- MCReadings
  Batches <- MCBatches
  Kinds <- MCKinds
  Trainings <- MCTrainings
  Source <- MCSource
  Truth <- MCTruth
  Other <- MCOther
  Plans <- MCPlans
  Cut = 2
  NumSamples = 3
  Truthless = {3}
  Steps = {1, 2}
  Shards = 2
  Commands <- MCCommands
  MaxConcurrent = 2
  MaxRetries = 1
  MaxSaves = 3
  MaxProcesses = 2
INVARIANT InvalidIsWorse
CHECK_DEADLOCK FALSE
