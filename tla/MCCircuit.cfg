SPECIFICATION Spec
CONSTANTS
  Kind <- Library
  MaxId = 3
  MaxWidth = 2
INVARIANTS TypeOK EndsAgree NoDanglingWire NeverDangling ConsistencyCheckPasses LoadedIsSaved
PROPERTIES LosesDriverOnlyToDeletion ReplacedPortIsLeftAlone
CHECK_DEADLOCK FALSE
