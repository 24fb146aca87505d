----------------------------- MODULE MCRowOrder -----------------------------
(* Short streams over two timestamps, that may step back, and two keys.    *)
EXTENDS RowOrder

TwoTimes == {1, 2}
TwoKeys == {1, 2}

\* No clean and errored records to tell apart: the sort reads the key alone.
SortedKinds == {"clean", "spurious"}
AllKinds == {"clean", "errored", "spurious"}

\* 0 is clamped to 1; 2 and 3 fill up; 9 is never reached.
SomeCaps == {0, 2, 3, 9}
LargeCap == {9}
=============================================================================
