SPECIFICATION FairSpec
CONSTANTS
  b1 = b1
  b2 = b2
  c1 = c1
  c2 = c2
  NoProc = NoProc
  Proc = {b1, c1}
  Builder = {b1}
  Value <- MCValue
  Unset = "unset"
  DefaultImage = "python"
  AnonHook <- MCAnonHook
  NamedHook <- MCNamedHook
  HookName <- MCHookName
  Failing = {"f2"}
  Ops <- PipelineOps
  HookCall <- PipelineHookCall
  Jobs <- PipelineJobs
  MaxHooks = 1
INVARIANT BuiltContainersHaveImages
PROPERTIES DispatchesAreAtomic BuildReturns OperationsReturn
CHECK_DEADLOCK FALSE
