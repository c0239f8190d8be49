SPECIFICATION Spec
CONSTANTS
  ByteBits = 2
  MaxSteps = 3
  Layout <- MCLayout
  Allocations <- MCAllocations
  Samples <- MCSamples
  Built <- MCBuilt
  ScalarAbi <- MCScalarAbi
  TransmuteTargets <- MCTransmuteTargets
INVARIANTS
  JvmHoldsRust
  AnswersAreRight
  EncodesItsBytes
CHECK_DEADLOCK FALSE
