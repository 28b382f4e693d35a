\* The service may come to rest: it has ended.
CONSTANTS
  Handles = {h1, h2, h3}
  Names = {a}
  NoName = NoName
  None = None
  filterListSize = 3
  Fds = {f1, f2}
  Blocks = {b1, b2}
  MaxConns = 2
  MaxPending = 1
SPECIFICATION Spec
SYMMETRY Symmetry
INVARIANTS ListedFiltersLive EveryFilterListed AbortNeedsOverflow ClientFdsOwned ConnSetSized
CHECK_DEADLOCK FALSE
