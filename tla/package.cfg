SPECIFICATION Spec
CONSTANTS
  Names <- MCNames
  Sorted <- MCSorted
  Contents <- MCContents
  Sep = "NUL"
  Exports <- MCExports
  Required <- MCRequired
  MetadataNames = {"build"}
  BuildNames = {"build"}
  Abis = {"arm"}
  Slices = {"a", "b"}
  Machine <- MCMachine
  Unpacked <- MCUnpacked
  MaxWrites = 2
  MaxRuns = 2
INVARIANTS TypeOK AcceptedIsChecked ModesProtect ModesComeBack
PROPERTIES FreshStart
CHECK_DEADLOCK FALSE
