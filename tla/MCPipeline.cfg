CONSTANTS
  Heads <- AllHeads
  Adapters <- Quiet
  MaxLength = 3
  SizeOf <- Sizes
  AlignOf <- Alignments
SPECIFICATION FairSpec
INVARIANTS
  PipeTypeOK
  CellHoldsSignature
  CallsDeclared
  ResultFits
PROPERTIES
  StopEnds
