CONSTANTS
  Heads <- AllHeads
  Adapters <- Throwing
  MaxLength = 1
  SizeOf <- Sizes
  AlignOf <- Alignments
SPECIFICATION Spec
INVARIANTS
  CellHoldsSignature
