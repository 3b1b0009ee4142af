--------------------------- MODULE MCPathRefresh ---------------------------
(* Two refreshes of a listing of two files, of which one was deleted and the  *)
(* other comes and goes.  Old bytes in the buffer are read as the count 0.    *)
EXTENDS PathRefresh, TLC

CONSTANTS r1, r2, p1, p2

TwoRefreshes == {r1, r2}
TwoPaths == {p1, p2}
BothAtFirst == <<p1, p2>>
SecondDeleted == {p2}
FirstVolatile == {p1}
MCGarbage == {0}
============================================================================
