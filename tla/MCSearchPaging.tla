--------------------------- MODULE MCSearchPaging ---------------------------
(* Instantiates SearchPaging for TLC.                                      *)
EXTENDS SearchPaging
=============================================================================
