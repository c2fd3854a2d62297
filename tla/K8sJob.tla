------------------------------- MODULE K8sJob -------------------------------
(***************************************************************************)
(* The k8s_job and k8s_job_wait executors (pkg/executor/k8s_job.go) as the *)
(* engine drives them.  One K8sJob value serves every step of the process, *)
(* so the sub-runs and items of a for_each that run at the same time share *)
(* its onJobCreated field.  The engine sets the field before Execute and   *)
(* clears it when the step returns; Execute reads it after Create.  The    *)
(* reads and writes are unsynchronised: each is one load or one store of a *)
(* word (the optimising compiler merges the two loads of Execute), so a    *)
(* read sees some earlier write: what interleaving the actions gives.      *)
(*                                                                         *)
(* The cluster is external: it refuses a Job whose name is taken, runs the *)
(* Jobs, and deletes a finished one when its TTL is over.                  *)
(***************************************************************************)
EXTENDS Integers, FiniteSets

CONSTANTS
    Step,         \* the k8s_job steps, one per run ID and step name (or item)
    Waiter,       \* the k8s_job_wait steps
    JobName,      \* the Job name of each: see NameOf
    Timed,        \* the steps whose context has a deadline
    MaxAttempts,  \* bound: how often the run is run or resumed
    None

ASSUME K8sJobAssumption ==
    /\ Step \cap Waiter = {}
    /\ Timed \subseteq Step \cup Waiter
    /\ MaxAttempts \in Nat \ {0}
    /\ None \notin Step \cup Waiter

Exec == Step \cup Waiter

VARIABLES
    onJobCreated,  \* the field of the shared executor: whose closure it holds
    jobs,          \* the Jobs in the cluster
    stage,         \* where each step is
    ending,        \* how its last attempt ended
    attempt,       \* which attempt of the run it last took part in
    reported,      \* the job_created events: the step they name and the Job
    done           \* history: the Jobs that have completed

jobVars == <<onJobCreated, jobs, stage, ending, attempt, reported, done>>

JobState == {"active", "complete", "failed"}
Result == {"none", "completed", "failed", "exists", "gone", "error", "deadline"}

-----------------------------------------------------------------------------

(* Mutant: the name carries the attempt *)
NameOfAttempt(x) == <<JobName[x], attempt[x]>>

(* injectJobMeta: prefix, run ID and step name, made a legal name.  Neither *)
(* the attempt nor the item of a for_each is part of it.                    *)
NameOf(x) == JobName[x]

Named(n) == {j \in jobs : j.name = n}

NewJob(x) == [name |-> NameOf(x), by |-> x, attempt |-> attempt[x],
              state |-> "active"]

JobInit ==
    /\ onJobCreated = None
    /\ jobs = {}
    /\ stage = [x \in Exec |-> "idle"]
    /\ ending = [x \in Exec |-> "none"]
    /\ attempt = [x \in Exec |-> 1]
    /\ reported = {}
    /\ done = {}

(* The executor returns: with the error, or nil for "completed". *)
ReturnsWith(x, r) ==
    /\ stage' = [stage EXCEPT ![x] = "return"]
    /\ ending' = [ending EXCEPT ![x] = r]

(* executeStepCore, before Execute: this step's closure goes into the field. *)
SetOnJobCreated(s) ==
    /\ stage[s] = "idle"
    /\ onJobCreated' = s
    /\ stage' = [stage EXCEPT ![s] = "create"]
    /\ UNCHANGED <<jobs, ending, attempt, reported, done>>

(* Mutant: a Job of that name is taken for this step's own *)
CreateAdopts(s) ==
    /\ stage[s] = "create"
    /\ jobs' = IF Named(NameOf(s)) = {} THEN jobs \cup {NewJob(s)} ELSE jobs
    /\ stage' = [stage EXCEPT ![s] = "created"]
    /\ UNCHANGED <<onJobCreated, ending, attempt, reported, done>>

(* Jobs(ns).Create: the API server refuses a name that is taken. *)
Create(s) ==
    /\ stage[s] = "create"
    /\ IF Named(NameOf(s)) = {}
         THEN /\ jobs' = jobs \cup {NewJob(s)}
              /\ stage' = [stage EXCEPT ![s] = "created"]
              /\ UNCHANGED ending
         ELSE /\ ReturnsWith(s, "exists")
              /\ UNCHANGED jobs
    /\ UNCHANGED <<onJobCreated, attempt, reported, done>>

(* The call fails, or times out: the server may have made the Job all the  *)
(* same, and the step does not know.                                       *)
CreateFails(s) ==
    /\ stage[s] = "create"
    /\ \E made \in BOOLEAN :
         /\ made => Named(NameOf(s)) = {}
         /\ jobs' = IF made THEN jobs \cup {NewJob(s)} ELSE jobs
    /\ ReturnsWith(s, "error")
    /\ UNCHANGED <<onJobCreated, attempt, reported, done>>

(* Execute calls whatever closure the field holds now, if any. *)
JobCreated(s) ==
    /\ stage[s] = "created"
    /\ reported' = IF onJobCreated = None THEN reported
                   ELSE reported \cup {[step |-> onJobCreated,
                                        job |-> NameOf(s), by |-> s]}
    /\ stage' = [stage EXCEPT ![s] = "poll"]
    /\ UNCHANGED <<onJobCreated, jobs, ending, attempt, done>>

(* k8s_job_wait: the engine reports the Job when the watch starts, whether *)
(* or not there is such a Job yet.                                         *)
WatchStarts(w) ==
    /\ stage[w] = "idle"
    /\ reported' = reported \cup {[step |-> w, job |-> NameOf(w), by |-> w]}
    /\ stage' = [stage EXCEPT ![w] = "poll"]
    /\ UNCHANGED <<onJobCreated, jobs, ending, attempt, done>>

(* checkJobStatus: what a Get of the Job says.  A Job that is not there is *)
(* an error to the step that created it, and one to wait for to a waiter.  *)
Status(x) ==
    IF Named(NameOf(x)) = {}
      THEN IF x \in Waiter THEN "pending" ELSE "gone"
      ELSE LET j == CHOOSE j \in Named(NameOf(x)) : TRUE
           IN  IF j.state = "complete" THEN "completed"
               ELSE IF j.state = "failed" THEN "failed" ELSE "running"

(* waitForJobCompletion: a poll that decides the step.  One that does not  *)
(* changes nothing.                                                        *)
Poll(x) ==
    /\ stage[x] = "poll"
    /\ Status(x) \notin {"pending", "running"}
    /\ ReturnsWith(x, Status(x))
    /\ UNCHANGED <<onJobCreated, jobs, attempt, reported, done>>

(* A Get that fails for another reason ends the wait too. *)
PollFails(x) ==
    /\ stage[x] = "poll"
    /\ ReturnsWith(x, "error")
    /\ UNCHANGED <<onJobCreated, jobs, attempt, reported, done>>

(* Mutant: the wait is only for the ticker, not for the context *)
DeadlineUnseen(x) ==
    /\ x \in Timed
    /\ stage[x] = "poll"
    /\ Status(x) = "gone"
    /\ ReturnsWith(x, "deadline")
    /\ UNCHANGED <<onJobCreated, jobs, attempt, reported, done>>

(* The context ends between two polls; the Job is left as it is. *)
Deadline(x) ==
    /\ x \in Timed
    /\ stage[x] = "poll"
    /\ ReturnsWith(x, "deadline")
    /\ UNCHANGED <<onJobCreated, jobs, attempt, reported, done>>

(* executeStepCore returns: the deferred SetOnJobCreated(nil). *)
StepReturns(x) ==
    /\ stage[x] = "return"
    /\ stage' = [stage EXCEPT ![x] = "done"]
    /\ onJobCreated' = IF x \in Step THEN None ELSE onJobCreated
    /\ UNCHANGED <<jobs, ending, attempt, reported, done>>

(* The run has ended and is resumed: what did not complete runs again. *)
Resume ==
    LET again == {x \in Exec : ending[x] # "completed"} IN
    /\ \A x \in Exec : stage[x] = "done"
    /\ again # {}
    /\ \A x \in again : attempt[x] < MaxAttempts
    /\ stage' = [x \in Exec |-> IF x \in again THEN "idle" ELSE "done"]
    /\ ending' = [x \in Exec |-> IF x \in again THEN "none" ELSE ending[x]]
    /\ attempt' = [x \in Exec |-> IF x \in again THEN attempt[x] + 1
                                                 ELSE attempt[x]]
    /\ UNCHANGED <<onJobCreated, jobs, reported, done>>

-----------------------------------------------------------------------------
(* The cluster. *)

JobEnds(j, st) ==
    /\ j.state = "active"
    /\ jobs' = (jobs \ {j}) \cup {[j EXCEPT !.state = st]}
    /\ done' = IF st = "complete" THEN done \cup {j} ELSE done
    /\ UNCHANGED <<onJobCreated, stage, ending, attempt, reported>>

(* ttlSecondsAfterFinished *)
JobExpires(j) ==
    /\ j.state # "active"
    /\ jobs' = jobs \ {j}
    /\ UNCHANGED <<onJobCreated, stage, ending, attempt, reported, done>>

(* Something else creates the Job that a k8s_job_wait waits for. *)
JobAppears(w) ==
    /\ Named(NameOf(w)) = {}
    /\ jobs' = jobs \cup {NewJob(w)}
    /\ UNCHANGED <<onJobCreated, stage, ending, attempt, reported, done>>

-----------------------------------------------------------------------------

StepNext(s) == \/ SetOnJobCreated(s) \/ Create(s) \/ CreateFails(s)
               \/ JobCreated(s)

ExecNext(x) == Poll(x) \/ PollFails(x) \/ Deadline(x) \/ StepReturns(x)

Cluster == \/ \E j \in jobs, st \in {"complete", "failed"} : JobEnds(j, st)
           \/ \E j \in jobs : JobExpires(j)
           \/ \E w \in Waiter : JobAppears(w)

JobNext == \/ \E s \in Step : StepNext(s)
           \/ \E w \in Waiter : WatchStarts(w)
           \/ \E x \in Exec : ExecNext(x)
           \/ Resume
           \/ Cluster

(* A goroutine that can go on does, and a deadline passes.  Nothing is     *)
(* assumed of the cluster.                                                 *)
JobFairness ==
    /\ \A s \in Step : WF_jobVars(StepNext(s))
    /\ \A x \in Exec : /\ WF_jobVars(StepReturns(x))
                       /\ WF_jobVars(Poll(x) \/ Deadline(x))

JobSpec == JobInit /\ [][JobNext]_jobVars /\ JobFairness

-----------------------------------------------------------------------------
(* Properties *)

(* The fields hold what the code keeps in them; in particular the closure  *)
(* in the shared executor belongs to a k8s_job step that has not returned. *)
JobTypeOK ==
    /\ onJobCreated \in Step \cup {None}
    /\ \A j \in jobs : j.by \in Exec /\ j.state \in JobState
    /\ \A x \in Exec : /\ stage[x] \in {"idle", "create", "created", "poll",
                                        "return", "done"}
                       /\ ending[x] \in Result
                       /\ attempt[x] \in 1..MaxAttempts
    /\ onJobCreated # None => stage[onJobCreated] \notin {"idle", "done"}

(* A k8s_job step that succeeds reports the Job this very attempt created, *)
(* which has completed: never an older Job of the same name, whatever is   *)
(* left in the cluster by an attempt that timed out or lost an answer.  A  *)
(* k8s_job_wait that succeeds saw a Job of its name completed.             *)
OwnJobDecides ==
    \A x \in Exec : ending[x] = "completed" =>
        \E j \in done :
            /\ j.name = NameOf(x)
            /\ x \in Step => j.by = x /\ j.attempt = attempt[x]

(* Resuming never has two Jobs of one step running at once, although a     *)
(* failed attempt leaves its Job in the cluster: the name is the same in   *)
(* every attempt, and the cluster refuses it while the old Job is there.   *)
NoConcurrentRerun ==
    \A j, k \in jobs :
        j.by = k.by /\ j.state = "active" /\ k.state = "active" => j = k

(* Over any number of attempts and lost answers, the shared executor's     *)
(* field is that of a step under way, and no step's Job runs twice at once. *)
JobInv == JobTypeOK /\ NoConcurrentRerun

(* A step with a deadline ends, whatever the cluster does with its Job: if *)
(* it fails, is deleted, hangs for ever or never appears.                  *)
TimedStepsEnd == \A x \in Timed : stage[x] = "poll" ~> stage[x] = "done"

(* job_created events (docs/reference/callbacks.md: "K8s Job resource      *)
(* created", with the workflow and step it was created for): the event     *)
(* names the step that created the Job.  The field of the shared executor  *)
(* may hold the closure of a step that started in between.                 *)
EventsNameTheirStep == \A e \in reported : e.step = e.by

(* "Paused, failed, running, missing, or pending steps run again"          *)
(* (docs/guides/resuming-workflows.md), and every item of a for_each runs  *)
(* its step: a k8s_job step is not turned away by a Job of its own run.    *)
EveryStepGetsItsJob == \A s \in Step : ending[s] # "exists"

(* A timeout of a k8s_job: "engine stops polling and deletes the Job"      *)
(* (docs/design/mvp-design.md).                                            *)
TimedOutJobsAreDeleted ==
    \A s \in Step : stage[s] = "done" /\ ending[s] = "deadline" =>
        ~ \E j \in jobs : j.by = s /\ j.attempt = attempt[s]

=============================================================================
