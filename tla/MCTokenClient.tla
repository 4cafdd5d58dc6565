--------------------------- MODULE MCTokenClient ---------------------------
(* Small instances of TokenClient. *)
EXTENDS TokenClient

\* Lifetimes left out, over on arrival, and that end during a run.
AnySession == {-1, 2}
AnyRefresh == {0, 3}

FewSession == {-1, 1}
FewRefresh == {-1, 2}
=============================================================================
