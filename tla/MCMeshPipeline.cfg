\* Imports of up to four cells and splits of what they leave, with one write that goes wrong.
SPECIFICATION Spec
CONSTANTS
  Words <- MCWords
  Folded <- MCFolded
  InterfaceName <- MCInterfaceName
  NameRank <- MCNameRank
  TagName <- MCTagName
  Listed <- MCListed
  PatchType <- MCPatchType
  Keys <- MCKeys
  Imports <- MCImports
  MaxFaults = 1
INVARIANTS Conserved SidesMatch RegistryAgrees ReadBack MeshSound
PROPERTY OwnRegion
CHECK_DEADLOCK FALSE
