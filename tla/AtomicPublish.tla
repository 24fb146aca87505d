---------------------------- MODULE AtomicPublish ----------------------------
(***************************************************************************)
(* What concurrent decoder runs promise the directory they share, with no  *)
(* temp files, links, renames or reservations: each output appears whole,  *)
(* in one step, under a name that was free if its run refuses to clobber;  *)
(* the main output precedes the errors output; a run ends with a verdict.  *)
(***************************************************************************)
CONSTANTS
  Runs,     \* the runs
  Nobody,   \* the owner of what no run published, not a run
  Targets   \* the names: records of a part, "main" or "errs", and whether partial

None == [tag |-> "none", by |-> Nobody, part |-> "main"]
Foreign == [tag |-> "foreign", by |-> Nobody, part |-> "main"]
Output(r, k) == [tag |-> "output", by |-> r, part |-> k]

VARIABLES
  dir,        \* [target |-> None, Foreign or the whole output of a run]
  noClobber,  \* [run |-> whether it refuses to replace], fixed
  done,       \* [run |-> the targets it has published]
  verdict     \* [run |-> "running", "ok", "failed" or "crashed"]

avars == <<dir, noClobber, done, verdict>>

Init ==
  /\ dir \in [Targets -> {None, Foreign}]
  /\ noClobber \in [Runs -> BOOLEAN]
  /\ done = [r \in Runs |-> {}]
  /\ verdict = [r \in Runs |-> "running"]

\* One output appears.  Both outputs of a run are final or both are partial,
\* and the first one is the main one.  The last output may come with the
\* verdict Ok.
Publish(r, t) ==
  /\ verdict[r] = "running"
  /\ noClobber[r] => dir[t] = None
  /\ IF t.part = "main" THEN done[r] = {}
     ELSE done[r] = {[t EXCEPT !.part = "main"]}
  /\ dir' = [dir EXCEPT ![t] = Output(r, t.part)]
  /\ done' = [done EXCEPT ![r] = @ \union {t}]
  /\ verdict' \in {verdict, [verdict EXCEPT ![r] = "ok"]}
  /\ UNCHANGED noClobber

\* A run that has published nothing cannot return Ok.
Return(r, v) ==
  /\ verdict[r] = "running"
  /\ v = "ok" => done[r] # {}
  /\ verdict' = [verdict EXCEPT ![r] = v]
  /\ UNCHANGED <<dir, noClobber, done>>

\* Another program creates a file under a free name.
Intrude(t) ==
  /\ dir[t] = None
  /\ dir' = [dir EXCEPT ![t] = Foreign]
  /\ UNCHANGED <<noClobber, done, verdict>>

Next ==
  \/ \E r \in Runs, t \in Targets : Publish(r, t)
  \/ \E r \in Runs, v \in {"ok", "failed", "crashed"} : Return(r, v)
  \/ \E t \in Targets : Intrude(t)

Spec == Init /\ [][Next]_avars
=============================================================================
