CONSTANTS
  o1 = o1
  o2 = o2
  Ops <- MCOps
  dcx = dcx
  cn = cn
  fOK = fOK
  fBad = fBad
  paging = paging
  Requests <- MCPlainRequests
  BadFilters = {fBad}
  IntWidth = 4
  MaxID = 2
  K = 2
  RefPos = {2}
  ConsumersMayQuit = TRUE
SPECIFICATION Spec
PROPERTY CloseUnblocks
CHECK_DEADLOCK FALSE
