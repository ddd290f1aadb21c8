CONSTANTS
  Prototypes <- SmallPrototypes
  Payloads <- SmallPayloads
  Bank <- HandedBank
  Reserved = {}
  ExceedNumRegs = TRUE
  Targets <- HandedTargets
  Shown = {}
SPECIFICATION PartsSpec
INVARIANTS
  GraphsOfMachineCode LivenessSound LivenessExact
  SvaNeverLost AppStatePreserved
  AppReadsItsOwn HooksFindTheArray
  LiveRegistersAfter PayloadReadsApp ToolStateKept
