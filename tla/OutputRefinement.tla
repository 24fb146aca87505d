-------------------------- MODULE OutputRefinement --------------------------
(***************************************************************************)
(* OutputCommit implements AtomicPublish: seen through its commit targets, *)
(* with temp files forgotten and an empty reservation read as a free name, *)
(* the directory changes only by whole outputs that appear in one step.    *)
(***************************************************************************)
EXTENDS OutputCommit

\* What a consumer of the directory makes of a file: a decoder's file that is
\* not the complete output of its run has no counterpart in AtomicPublish.
Seen(f, t) ==
  CASE f.tag = "foreign" -> [tag |-> "foreign", by |-> Nobody, part |-> "main"]
    [] f.tag = "csv" ->
         [tag |-> IF f.by \in Runs /\ f = Whole(f.by, t.part) THEN "output" ELSE "torn",
          by |-> f.by, part |-> f.part]
    [] OTHER -> [tag |-> "none", by |-> Nobody, part |-> "main"]

Abstract == INSTANCE AtomicPublish WITH
  dir <- [t \in Targets |-> Seen(dest[t], t)],
  noClobber <- [r \in Runs |-> opts[r].noClobber],
  done <- published,
  verdict <- [r \in Runs |-> IF pc[r] \in Terminal THEN pc[r] ELSE "running"]

\* L1-OUT-002, L2-WRT-019, L2-WRT-023: the calls the writer makes, whatever
\* fails and whoever is killed, add up to atomic publication.
PublishesAtomically == Abstract!Spec
=============================================================================
