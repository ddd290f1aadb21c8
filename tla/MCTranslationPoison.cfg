CONSTANTS
  TranslatorOps = 3
  Kernels <- MCKernels
  NamedRegisters <- KernelNames
  MovePairs <- Pairs
  Indices = {0, 1}
  MaxOps = 2
  MaxEdits = 3
SPECIFICATION PartsSpec
INVARIANT PoisonOnlyAtEntry
\* The parts stop: the file's program ends, no edit is left.
CHECK_DEADLOCK FALSE
