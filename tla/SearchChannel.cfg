\* Two concurrent searches, each of them SearchWithChannel or a buffered Search
\* (Init chooses), two results each (an entry and a referral), consumers that
\* may stop reading, Close at any point.
CONSTANTS
  o1 = o1
  o2 = o2
  Ops <- MCOps
  dcx = dcx
  cn = cn
  fOK = fOK
  fBad = fBad
  paging = paging
  Requests <- MCRequests
  BadFilters = {fBad}
  IntWidth = 4
  MaxID = 2
  K = 2
  RefPos = {2}
  ConsumersMayQuit = TRUE
SPECIFICATION Spec
INVARIANT TypeOK
INVARIANT OwnResultsInOrder
INVARIANT CompleteOnSuccess
INVARIANT RequestsSentIntact
CHECK_DEADLOCK FALSE
PROPERTY MuxRefinement
