SPECIFICATION Spec
CONSTANTS
  b1 = b1
  b2 = b2
  c1 = c1
  c2 = c2
  NoProc = NoProc
  Proc = {b1, b2, c1}
  Builder = {b1, b2}
  Value <- MCValue
  Unset = "unset"
  DefaultImage = "python"
  AnonHook <- MCAnonHook
  NamedHook <- MCNamedHook
  HookName <- MCHookName
  Failing = {"f2"}
  Ops <- RaceOps
  HookCall <- RaceHookCall
  Jobs <- RaceJobs
  MaxHooks = 1
SYMMETRY Builders
INVARIANTS TypeOK LocksAreAccountedFor StableWhileDispatched UniqueHookNames OnlyAnonymousHooksDeadlock
PROPERTY DispatchesAreAtomic
CHECK_DEADLOCK FALSE
