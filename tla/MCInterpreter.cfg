SPECIFICATION Spec
CONSTANTS
  Programs <- MCPrograms
  Expected <- MCExpected
  Standard <- MCStandard
  StackSize = 40
  Slack = 4
  NativeStack = 30
INVARIANTS
  AgreesWithEcma
  FramesSound
  StackRestored
  GeneratorOnce
PROPERTIES
  Terminates
