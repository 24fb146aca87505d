--------------------------- MODULE MCOutputCommit ---------------------------
(* Two runs over one destination, in every pairing of the chosen options.  *)
EXTENDS OutputRefinement

CONSTANTS r1, r2

T(k, p) == [part |-> k, partial |-> p]

Opt(s, n, a, i) == [split |-> s, noClobber |-> n, allowPartial |-> a, inputs |-> i]

\* A replacing and a refusing run with every output kind, and a run one of
\* whose inputs is named like an output only a lost sync in split mode makes.
MixedConfigs ==
  {Opt(TRUE, FALSE, TRUE, {}), Opt(TRUE, TRUE, TRUE, {}),
   Opt(TRUE, FALSE, FALSE, {T("errs", FALSE)}),
   Opt(FALSE, TRUE, FALSE, {})}

\* Two runs of the same command, every output kind, neither may clobber.
RefusingConfigs == {Opt(TRUE, TRUE, TRUE, {})}

OneOlderFile == {T("errs", FALSE)}

\* Every name the first run tries for its main temp may be taken.
OneRunsTemps == {<<r1, "main", 0>>, <<r1, "main", 1>>}

NoFiles == {}

=============================================================================
