CONSTANTS
  Heads <- WorkAndLoop
  Adapters <- Quiet
  MaxLength = 0
  SizeOf <- Sizes
  AlignOf <- Alignments
SPECIFICATION Spec
INVARIANTS
  ResultFits
