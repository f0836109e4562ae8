SPECIFICATION FairSpec
CONSTANTS
  Job <- MCJob
  Task <- MCTask
  Config = {"plain", "renaming", "pinning"}
  HookOf <- MCHookOf
  Node <- MCNode
  Capacity <- MCCapacity
  FastNode = {"n1"}
  NoNode = NoNode
  Word = {"x"}
  Connective <- MCConnective
  MaxTokens = 6
  MaxBuilds = 2
INVARIANTS Inv NoMultiAttach FalseFailuresAreDetected RetriesAreUseful HooksStayHome ServerAgrees MountsFindTheirVolumes ConditionsAsBuilt
PROPERTIES WorkflowsFinish
CHECK_DEADLOCK FALSE
