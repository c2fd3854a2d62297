----------------------------- MODULE StateStore -----------------------------
(***************************************************************************)
(* The state store of pkg/state: what its SQL statements do to a table.  A *)
(* table is a function from keys to rows; a key without a row is mapped to *)
(* a row whose status is "none".  Columns that no property tells apart     *)
(* (error texts, artifacts, completion times) are left out.                *)
(***************************************************************************)
EXTENDS Integers

RunStatus == {"running", "paused", "failed", "completed"}
StepStatus == {"running", "paused", "failed", "completed", "skipped"}

\* A run row: status, source_digest, and the value of the one workflow variable
\* that the models follow in vars_json
NoRun == [status |-> "none", digest |-> 0, vars |-> "unset"]

\* A step row: status, started_at (the attempt that wrote the row),
\* definition_hash, and the fact kept in output_json
NoStep == [status |-> "none", at |-> 0, hash |-> 0, output |-> "unset"]

\* INSERT INTO runs: refused (and the table unchanged) when the key exists
CreateRun(run, digest, vars) ==
  IF run.status # "none" THEN run
  ELSE [status |-> "running", digest |-> digest, vars |-> vars]

\* UPDATE runs SET status = ?, completed_at = ?: no other column is written
UpdateRun(run, status) ==
  [status |-> status, digest |-> run.digest, vars |-> run.vars]

\* INSERT INTO steps ... ON CONFLICT DO UPDATE: the whole row is replaced
SaveStep(steps, id, status, at, hash, output) ==
  [steps EXCEPT ![id] =
     [status |-> status, at |-> at, hash |-> hash, output |-> output]]

\* DELETE FROM steps WHERE run_id = ? AND step_name = ?
DeleteStep(steps, id) == [steps EXCEPT ![id] = NoStep]

=============================================================================
