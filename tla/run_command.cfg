CONSTANTS
  MaxInput = 3
  MaxOutput = 3
  PipeSize = 2
  BaseSize = 1
SPECIFICATION FairSpec
INVARIANT TypeOK
INVARIANT InputInOrder
INVARIANT OutputInOrder
INVARIANT BufferFits
INVARIANT ReturnsAll
PROPERTY CommandReturns
