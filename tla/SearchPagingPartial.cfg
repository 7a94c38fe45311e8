\* Spec section 7: partial results are returned alongside a terminal error.
CONSTANTS
  N = 5
  RefItems = {2, 5}
  PageSize = 2
  OtherSize = 1
  ReuseRequest = FALSE
SPECIFICATION Spec
INVARIANT PartialResultsKept
