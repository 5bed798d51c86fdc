CONSTANTS
  Functions <- MCFunctions
  Choices <- MCChoices
SPECIFICATION Spec
INVARIANTS
  Settled
  ReportedTruth
PROPERTY
  Debounced
