\* The names and types of external patches after a split; no write goes wrong.
SPECIFICATION Spec
CONSTANTS
  Words <- MCWords
  Folded <- MCFolded
  InterfaceName <- MCInterfaceName
  NameRank <- MCNameRank
  TagName <- MCTagName
  Listed <- MCListed
  PatchType <- MCPatchType
  Keys <- MCKeys
  Imports <- MCImports
  MaxFaults = 0
INVARIANT PatchKept
CHECK_DEADLOCK FALSE
