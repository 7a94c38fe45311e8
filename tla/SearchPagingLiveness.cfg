\* Termination of SearchWithPaging and of the manual paging loop under weak
\* fairness of the client goroutine.
CONSTANTS
  N = 5
  RefItems = {2, 5}
  PageSize = 2
  OtherSize = 1
  ReuseRequest = FALSE
SPECIFICATION Spec
PROPERTY PagingTerminates
