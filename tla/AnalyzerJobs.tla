---------------------------- MODULE AnalyzerJobs ----------------------------
(***************************************************************************)
(* Analyzer jobs: the request that queues a job for an observable          *)
(* (backend/adhkar/api/v1/analyzer_jobs.py) and the runner of each server  *)
(* process that takes and executes jobs                                    *)
(* (backend/adhkar/workers/analyzer_runner.py).                            *)
(*                                                                         *)
(* A runner selects the oldest queued jobs without locking them, marks     *)
(* them running in the same transaction, and then gives each job a         *)
(* transaction of its own: select, run the analyzer, write the outcome.    *)
(* Two runners may select the same job before either marks it.             *)
(*                                                                         *)
(* What an analyzer answers is nondeterministic, an analyzer that is not   *)
(* in the registry fails as one that raises does, and a request that is    *)
(* refused (404, 400) leaves no trace.                                     *)
(***************************************************************************)
EXTENDS Naturals, FiniteSets

CONSTANTS Jobs,         \* ids of analyzer jobs
          CreatedAt,    \* of a job: when the transaction of its request began
          Runners,      \* server processes, a runner in each
          BatchSize,    \* jobs a runner takes at a time
          MaxFailures,  \* bound: crashes and database errors
          Null

ASSUME NullAssumption == Null \notin Jobs
ASSUME CreatedAssumption == CreatedAt \in [Jobs -> Nat]
ASSUME BatchAssumption == BatchSize \in Nat \ {0}
ASSUME FailuresAssumption == MaxFailures \in Nat

VARIABLES status,     \* none (not committed), queued, running, success, failure
          report,     \* jobs with a report
          error,      \* jobs with an error message
          pc,         \* sleep, claim, next, analyze or down
          batch,      \* jobs a runner has selected and not finished
          job,        \* the job at hand
          loaded,     \* its status when it was selected
          failures,
          window,     \* history: runners that had selected a job when it was first claimed
          shared,     \* history: jobs with several of those
          abandoned   \* history: jobs that were in the batch of a runner that failed

rows == <<status, report, error>>
history == <<window, shared, abandoned>>
vars == <<rows, pc, batch, job, loaded, failures, history>>

Settled(s) == s \in {"success", "failure"}
Claimed(s) == s \notin {"none", "queued"}

Init ==
  /\ status = [j \in Jobs |-> "none"]
  /\ report = {} /\ error = {}
  /\ pc = [r \in Runners |-> "sleep"]
  /\ batch = [r \in Runners |-> {}]
  /\ job = [r \in Runners |-> Null]
  /\ loaded = [r \in Runners |-> "none"]
  /\ failures = 0
  /\ window = [j \in Jobs |-> {}]
  /\ shared = {} /\ abandoned = {}

-----------------------------------------------------------------------------
(* enqueue_job: jobs commit in any order of created_at.                    *)
EnqueueJob(j) ==
  /\ status[j] = "none"
  /\ status' = [status EXCEPT ![j] = "queued"]
  /\ UNCHANGED <<report, error, pc, batch, job, loaded, failures, history>>

-----------------------------------------------------------------------------
(* _run_pending.                                                           *)
RunningToo(j) == status[j] \in {"queued", "running"}
Selectable(j) == status[j] = "queued"
Pending == {j \in Jobs : Selectable(j)}

(* The oldest jobs of a set, BatchSize of them if it has as many.          *)
FullBatches(B, S) ==
  /\ B \subseteq S /\ Cardinality(B) = BatchSize
  /\ \A j \in B, k \in S \ B : CreatedAt[j] <= CreatedAt[k]
OldestBatch(B, S) ==
  /\ B \subseteq S
  /\ Cardinality(B) <= BatchSize
  /\ B # S => Cardinality(B) = BatchSize
  /\ \A j \in B, k \in S \ B : CreatedAt[j] <= CreatedAt[k]

SelectBatch(r) ==
  /\ pc[r] = "sleep" /\ Pending # {}
  /\ \E B \in SUBSET Pending :
       /\ OldestBatch(B, Pending)
       /\ batch' = [batch EXCEPT ![r] = B]
  /\ pc' = [pc EXCEPT ![r] = "claim"]
  /\ UNCHANGED <<rows, job, loaded, failures, history>>

(* The jobs are updated by id, whatever their status is by now.            *)
Holders(j) == {r \in Runners : j \in batch[r]}
Claim(r) ==
  /\ pc[r] = "claim"
  /\ status' = [j \in Jobs |-> IF j \in batch[r] THEN "running" ELSE status[j]]
  /\ pc' = [pc EXCEPT ![r] = "next"]
  /\ LET first == {j \in batch[r] : ~Claimed(status[j])} IN
       /\ window' = [j \in Jobs |-> IF j \in first THEN Holders(j) ELSE window[j]]
       /\ shared' = shared \cup {j \in first : Holders(j) # {r}}
  /\ UNCHANGED <<report, error, batch, job, loaded, failures, abandoned>>

Load(r) ==
  /\ pc[r] = "next"
  /\ \E j \in batch[r] :
       /\ \A k \in batch[r] : CreatedAt[j] <= CreatedAt[k]
       /\ job' = [job EXCEPT ![r] = j]
       /\ loaded' = [loaded EXCEPT ![r] = status[j]]
  /\ pc' = [pc EXCEPT ![r] = "analyze"]
  /\ UNCHANGED <<rows, batch, failures, history>>

(* The runner goes on with the rest of its batch.                          *)
NoneLeft(r) == {}
Left(r) == batch[r] \ {job[r]}

Advance(r, rest, label) ==
  /\ batch' = [batch EXCEPT ![r] = rest]
  /\ pc' = [pc EXCEPT ![r] = label]
  /\ job' = [job EXCEPT ![r] = Null]
  /\ loaded' = [loaded EXCEPT ![r] = "none"]
  /\ window' = [j \in Jobs |-> IF j \in batch[r] \ rest THEN window[j] \ {r} ELSE window[j]]

(* The outcome is committed.  The status is written only when it differs   *)
(* from the one that was loaded.                                           *)
Finish(r, outcome) ==
  /\ pc[r] = "analyze"
  /\ status' = IF outcome = loaded[r] THEN status
                                      ELSE [status EXCEPT ![job[r]] = outcome]
  /\ IF outcome = "success" THEN report' = report \cup {job[r]} /\ UNCHANGED error
                            ELSE error' = error \cup {job[r]} /\ UNCHANGED report
  /\ Advance(r, Left(r), IF Left(r) = {} THEN "sleep" ELSE "next")
  /\ UNCHANGED <<failures, shared, abandoned>>

(* The outcome cannot be committed (an error message of more than 2000     *)
(* characters, a report that JSONB refuses): the exception ends the batch. *)
Unsaved(r) ==
  /\ pc[r] = "analyze"
  /\ Advance(r, {}, "sleep")
  /\ abandoned' = abandoned \cup batch[r]
  /\ UNCHANGED <<rows, failures, shared>>

(* An error of the database ends the batch, a crash or a shutdown of the   *)
(* process the runner as well.                                             *)
Fail(r, label) ==
  /\ failures < MaxFailures
  /\ failures' = failures + 1
  /\ Advance(r, {}, label)
  /\ abandoned' = abandoned \cup batch[r]
  /\ UNCHANGED <<rows, shared>>

DatabaseError(r) == pc[r] \in {"claim", "next", "analyze"} /\ Fail(r, "sleep")
Crash(r) == pc[r] # "down" /\ Fail(r, "down")

Restart(r) ==
  /\ pc[r] = "down"
  /\ pc' = [pc EXCEPT ![r] = "sleep"]
  /\ UNCHANGED <<rows, batch, job, loaded, failures, history>>

Next ==
  \/ \E j \in Jobs : EnqueueJob(j)
  \/ \E r \in Runners :
       \/ SelectBatch(r)
       \/ Claim(r)
       \/ Load(r)
       \/ \E outcome \in {"success", "failure"} : Finish(r, outcome)
       \/ Unsaved(r)
       \/ DatabaseError(r)
       \/ Crash(r)
       \/ Restart(r)

Spec == Init /\ [][Next]_vars

(* The runner polls every second, its statements end and its analyzers     *)
(* answer (each has a timeout), and a process that died is started again.  *)
Fairness ==
  \A r \in Runners :
    /\ WF_vars(SelectBatch(r)) /\ WF_vars(Claim(r)) /\ WF_vars(Load(r))
    /\ WF_vars((\E outcome \in {"success", "failure"} : Finish(r, outcome)) \/ Unsaved(r))
    /\ WF_vars(Restart(r))

FairSpec == Spec /\ Fairness

-----------------------------------------------------------------------------
(* Properties.                                                             *)
Statuses == {"none", "queued", "running", "success", "failure"}

(* Every variable has its type.                                            *)
TypeOK ==
  /\ status \in [Jobs -> Statuses]
  /\ report \subseteq Jobs /\ error \subseteq Jobs
  /\ pc \in [Runners -> {"sleep", "claim", "next", "analyze", "down"}]
  /\ batch \in [Runners -> SUBSET Jobs]
  /\ job \in [Runners -> Jobs \cup {Null}]
  /\ loaded \in [Runners -> Statuses]
  /\ failures \in Nat
  /\ window \in [Jobs -> SUBSET Runners]
  /\ shared \subseteq Jobs /\ abandoned \subseteq Jobs

(* A settled job carries the outcome it is settled with, also when several *)
(* runs of it wrote their outcomes over each other (_run_pending).         *)
SettledWithOutcome ==
  \A j \in Jobs : /\ status[j] = "success" => j \in report
                  /\ status[j] = "failure" => j \in error

(* Several runners run a job only if all of them selected it before the    *)
(* first of them committed its claim (_run_pending selects queued jobs     *)
(* without a lock).                                                        *)
SharedOnlyInClaimWindow ==
  \A r \in Runners : \A j \in batch[r] : Claimed(status[j]) => r \in window[j]

(* A job is left running only while a runner holds it whose run will still *)
(* write a status, or after a runner failed with it in its batch.          *)
WillSettle(r, j) ==
  j \in batch[r] /\ pc[r] \in {"next", "analyze"} /\ (job[r] = j => loaded[r] = "running")
StuckWithReason ==
  \A j \in Jobs :
    status[j] = "running" => j \in abandoned \/ \E r \in Runners : WillSettle(r, j)

(* A job shows both a report and an error only if several runners ran it:  *)
(* a single runner never runs a job twice.                                 *)
ResultsMixOnlyIfShared == report \cap error \subseteq shared

(* Why: what runners hold, and that a job nobody shares has one run.       *)
AtWork(r) ==
  /\ pc[r] \in {"sleep", "down"} => batch[r] = {}
  /\ pc[r] = "analyze" => job[r] \in batch[r]
  /\ pc[r] # "analyze" => job[r] = Null
  /\ \A j \in batch[r] : status[j] # "none"
  /\ pc[r] \in {"next", "analyze"} => \A j \in batch[r] : Claimed(status[j])
OneRun ==
  /\ \A j \in Jobs : ~Claimed(status[j]) => window[j] = {} /\ j \notin report \cup error
  /\ \A j \in Jobs : \A r \in window[j] : j \in batch[r]
  /\ \A j \in Jobs \ shared : /\ \A r, q \in window[j] : r = q
                              /\ j \in report \cup error => window[j] = {}
IInv ==
  /\ TypeOK /\ SettledWithOutcome /\ SharedOnlyInClaimWindow /\ StuckWithReason
  /\ ResultsMixOnlyIfShared /\ OneRun /\ \A r \in Runners : AtWork(r)

(* A queued job settles, unless a runner failed with it in its batch: old  *)
(* jobs are not overtaken for ever, and the failure of an analyzer does    *)
(* not keep the rest of its batch from running.                            *)
EveryJobSettles ==
  \A j \in Jobs : status[j] = "queued" ~> Settled(status[j]) \/ j \in abandoned
=============================================================================
