\* Runs of a case with unusual arguments, numbers, dictionaries or outputs.
SPECIFICATION MCSpec
CONSTANTS
  LinearCap = 2
  SimpleCap = 3
  Stages <- MCStages
  MostEvents = 14
  PathOf <- MCPathOf
  SvgValues = {"r.svg", "d/x"}
  WithCsv <- MCWithCsv
  Selection <- MCSelection
  DefaultSteps = 3
  MostSteps = 5
  Cases <- MCAllCases
  Places <- MCPlaces
INVARIANTS ArgumentsKept CaseFileCapped DryRunAgrees OutputsKept FieldsTogether
