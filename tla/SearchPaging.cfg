\* SearchWithPaging with a fresh request per call, and the manual paging
\* example: five items (two of them referrals, one ending the short last
\* page) over pages of two, so a result spans three pages and two cookies.
CONSTANTS
  N = 5
  RefItems = {2, 5}
  PageSize = 2
  OtherSize = 1
  ReuseRequest = FALSE
SPECIFICATION Spec
INVARIANT TypeOK
INVARIANT CookieChain
INVARIANT PagedResultComplete
INVARIANT FaultFreeSucceeds
