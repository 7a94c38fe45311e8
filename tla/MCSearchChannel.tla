--------------------------- MODULE MCSearchChannel ---------------------------
EXTENDS SearchChannel

CONSTANTS o1, o2

MCOps == {o1, o2}

\* Base DN, attribute, filters and control, as model values.
CONSTANTS dcx, cn, fOK, fBad, paging

\* The requests an application builds with NewSearchRequest: a subtree
\* search for cn, a one-level search with a negative size limit (sent
\* through uint64) and a control, and a search whose filter does not compile.
MCRequests ==
  { NewSearchRequest(dcx, 2, 0, 0, 0, FALSE, fOK, <<cn>>, <<>>),
    NewSearchRequest(dcx, 1, 3, -1, 5, TRUE, fOK, <<>>, <<paging>>),
    NewSearchRequest(dcx, 2, 0, 0, 0, FALSE, fBad, <<cn>>, <<>>) }

\* Only the first of them, where the requests' content plays no part.
MCPlainRequests == {NewSearchRequest(dcx, 2, 0, 0, 0, FALSE, fOK, <<cn>>, <<>>)}

=============================================================================
