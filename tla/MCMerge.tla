------------------------------ MODULE MCMerge ------------------------------
(* Two recorders, four records between them, clocks that may step back.    *)
EXTENDS Merge

CONSTANTS message, spurious

BothContents == {message, spurious}
OnlyMessages == {message}
ThreeTimes == 0 .. 2

Opt(s, a, c, w, m, g) ==
  [strict |-> s, allowPartial |-> a, collapse |-> c, window |-> w,
   maxSurvivors |-> m, globalDelta |-> g]

\* Every mode of failure, both DELTA scopes, collapsing with each window and
\* with a cap that bites and one that does not.
MixedConfigs ==
  {Opt(TRUE, FALSE, FALSE, 0, 1, FALSE),
   Opt(TRUE, TRUE, TRUE, 0, 9, FALSE),
   Opt(FALSE, FALSE, TRUE, 1, 9, TRUE),
   Opt(FALSE, TRUE, TRUE, 1, 1, TRUE),
   Opt(FALSE, TRUE, FALSE, 0, 1, TRUE)}

StrictPartial == {Opt(TRUE, TRUE, FALSE, 0, 1, FALSE)}
WideWindow == {Opt(TRUE, FALSE, TRUE, 1, 9, FALSE)}
=============================================================================
