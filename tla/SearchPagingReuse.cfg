\* The application may call SearchWithPaging again with the same request.
CONSTANTS
  N = 5
  RefItems = {2, 5}
  PageSize = 2
  OtherSize = 1
  ReuseRequest = TRUE
SPECIFICATION Spec
INVARIANT FaultFreeSucceeds
