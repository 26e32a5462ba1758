CONSTANTS
  MaxInput = 3
  MaxOutput = 1
  PipeSize = 2
  BaseSize = 1
SPECIFICATION Spec
INVARIANT SessionSurvives
