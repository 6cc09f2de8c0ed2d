\* Three processes that open one file below two directories, by any of the calls.
SPECIFICATION Spec
CONSTANTS
  Processes = {p1, p2, p3}
  Other = other
  Depth = 2
SYMMETRY Symmetry
INVARIANTS Published NameKept NoLitter
\* Every process opens one file.
CHECK_DEADLOCK FALSE
