------------------------- MODULE AnalyzerJobsProofs -------------------------
(***************************************************************************)
(* Proofs about AnalyzerJobs, for any jobs, any number of runners and any  *)
(* batch size.                                                             *)
(***************************************************************************)
EXTENDS AnalyzerJobs, TLAPS

LEMMA InitIInv == Init => IInv
BY DEF Init, IInv, TypeOK, SettledWithOutcome, SharedOnlyInClaimWindow, StuckWithReason,
       ResultsMixOnlyIfShared, OneRun, AtWork, Statuses, Claimed

LEMMA EnqueueStep == ASSUME IInv, NEW j \in Jobs, EnqueueJob(j) PROVE IInv'
<1> USE DEF IInv, EnqueueJob, history
<1>1. status' = [status EXCEPT ![j] = "queued"] /\ status[j] = "none"
  OBVIOUS
<1>2. TypeOK'
  BY <1>1 DEF TypeOK, Statuses
<1>3. \A k \in Jobs : Claimed(status[k])' <=> Claimed(status[k])
  BY <1>1 DEF TypeOK, Claimed
<1>4. (SettledWithOutcome /\ StuckWithReason /\ ResultsMixOnlyIfShared)'
  BY <1>1 DEF TypeOK, SettledWithOutcome, StuckWithReason, WillSettle, ResultsMixOnlyIfShared
<1>5. (SharedOnlyInClaimWindow /\ OneRun)'
  BY <1>3 DEF SharedOnlyInClaimWindow, OneRun, TypeOK
<1>6. \A r \in Runners : AtWork(r)'
  BY <1>1, <1>3 DEF AtWork, TypeOK
<1> QED
  BY <1>2, <1>4, <1>5, <1>6

LEMMA SelectStep == ASSUME IInv, NEW r \in Runners, SelectBatch(r) PROVE IInv'
<1> USE DEF IInv
<1>1. PICK B \in SUBSET Pending : batch' = [batch EXCEPT ![r] = B]
  BY DEF SelectBatch
<1>2. /\ pc[r] = "sleep" /\ pc' = [pc EXCEPT ![r] = "claim"]
      /\ UNCHANGED <<rows, job, loaded, failures, history>>
  BY DEF SelectBatch
<1>3. \A j \in B : j \in Jobs /\ status[j] = "queued"
  BY <1>1 DEF Pending, Selectable
<1>4. TypeOK'
  BY <1>1, <1>2, <1>3 DEF TypeOK, rows, history
<1>5. (SettledWithOutcome /\ ResultsMixOnlyIfShared)'
  BY <1>2 DEF SettledWithOutcome, ResultsMixOnlyIfShared, rows, history
<1>6. SharedOnlyInClaimWindow'
  BY <1>1, <1>2, <1>3 DEF SharedOnlyInClaimWindow, Claimed, TypeOK, rows, history
<1>7. StuckWithReason'
  BY <1>1, <1>2 DEF StuckWithReason, WillSettle, TypeOK, rows, history
<1>8. OneRun'
  <2>1. batch[r] = {}
    BY <1>2 DEF AtWork
  <2> QED
    BY <1>1, <1>2, <2>1 DEF OneRun, TypeOK, rows, history
<1>9. ASSUME NEW q \in Runners PROVE AtWork(q)'
  BY <1>1, <1>2, <1>3 DEF AtWork, TypeOK, rows
<1> QED
  BY <1>4, <1>5, <1>6, <1>7, <1>8, <1>9

LEMMA ClaimStep == ASSUME IInv, NEW r \in Runners, Claim(r) PROVE IInv'
<1> USE DEF IInv
<1> DEFINE first == {j \in batch[r] : ~Claimed(status[j])}
<1>1. /\ pc[r] = "claim" /\ pc' = [pc EXCEPT ![r] = "next"]
      /\ status' = [j \in Jobs |-> IF j \in batch[r] THEN "running" ELSE status[j]]
      /\ window' = [j \in Jobs |-> IF j \in first THEN Holders(j) ELSE window[j]]
      /\ shared' = shared \cup {j \in first : Holders(j) # {r}}
      /\ UNCHANGED <<report, error, batch, job, loaded, failures, abandoned>>
  BY DEF Claim
<1>2. batch[r] \subseteq Jobs /\ first \subseteq Jobs
  BY DEF TypeOK
<1>3. TypeOK'
  BY <1>1, <1>2 DEF TypeOK, Statuses, Holders
<1>4. \A j \in Jobs : j \in batch[r] => status'[j] = "running"
  BY <1>1
<1>5. \A j \in Jobs : j \notin batch[r] => status'[j] = status[j] /\ window'[j] = window[j]
  BY <1>1
<1>6. (SettledWithOutcome /\ ResultsMixOnlyIfShared)'
  BY <1>1, <1>4, <1>5 DEF SettledWithOutcome, ResultsMixOnlyIfShared
<1>7. SharedOnlyInClaimWindow'
  <2> SUFFICES ASSUME NEW q \in Runners, NEW j \in batch[q], Claimed(status[j])'
               PROVE  q \in window'[j]
    BY <1>1 DEF SharedOnlyInClaimWindow
  <2>0. j \in Jobs
    BY DEF TypeOK
  <2>1. CASE j \in first
    BY <1>1, <2>0, <2>1 DEF Holders
  <2>2. CASE j \notin first
    <3>1. Claimed(status[j])
      BY <1>5, <2>0, <2>2
    <3> QED
      BY <1>1, <2>0, <2>2, <3>1 DEF SharedOnlyInClaimWindow
  <2> QED BY <2>1, <2>2
<1>8. StuckWithReason'
  <2> SUFFICES ASSUME NEW j \in Jobs, status'[j] = "running", j \notin abandoned
               PROVE  \E q \in Runners : WillSettle(q, j)'
    BY <1>1 DEF StuckWithReason
  <2>1. CASE j \in batch[r]
    <3>1. job[r] = Null
      BY <1>1 DEF AtWork
    <3> QED
      BY <1>1, <2>1, <3>1, NullAssumption DEF WillSettle, TypeOK
  <2>2. CASE j \notin batch[r]
    BY <1>1, <1>5, <2>2 DEF StuckWithReason, WillSettle, TypeOK
  <2> QED BY <2>1, <2>2
<1>9. OneRun'
  <2>1. \A j \in Jobs : ~Claimed(status[j])' => window'[j] = {} /\ j \notin report \cup error
    BY <1>4, <1>5 DEF OneRun, Claimed
  <2>2. \A j \in Jobs : \A q \in window'[j] : j \in batch[q]
    BY <1>1 DEF OneRun, Holders
  <2>3. ASSUME NEW j \in Jobs \ shared'
        PROVE  /\ \A p, q \in window'[j] : p = q
               /\ j \in report \cup error => window'[j] = {}
    <3>1. CASE j \in first
      <4>1. Holders(j) = {r}
        BY <1>1, <2>3, <3>1
      <4>2. j \notin report \cup error
        BY <3>1 DEF OneRun
      <4> QED
        BY <1>1, <3>1, <4>1, <4>2
    <3>2. CASE j \notin first
      BY <1>1, <2>3, <3>2 DEF OneRun
    <3> QED BY <3>1, <3>2
  <2> QED
    BY <1>1, <2>1, <2>2, <2>3 DEF OneRun
<1>10. ASSUME NEW q \in Runners PROVE AtWork(q)'
  <2>1. \A j \in batch[q] : status'[j] # "none" /\ (Claimed(status[j]) => Claimed(status[j])')
    BY <1>4, <1>5 DEF AtWork, TypeOK, Claimed
  <2>2. \A j \in batch[r] : Claimed(status[j])'
    BY <1>2, <1>4 DEF Claimed
  <2> QED
    BY <1>1, <2>1, <2>2 DEF AtWork, TypeOK
<1> QED
  BY <1>3, <1>6, <1>7, <1>8, <1>9, <1>10

LEMMA LoadStep == ASSUME IInv, NEW r \in Runners, Load(r) PROVE IInv'
<1> USE DEF IInv
<1>1. PICK j \in batch[r] : /\ job' = [job EXCEPT ![r] = j]
                            /\ loaded' = [loaded EXCEPT ![r] = status[j]]
  BY DEF Load
<1>2. /\ pc[r] = "next" /\ pc' = [pc EXCEPT ![r] = "analyze"]
      /\ UNCHANGED <<rows, batch, failures, history>>
  BY DEF Load
<1>3. j \in Jobs
  BY DEF TypeOK
<1>4. TypeOK'
  BY <1>1, <1>2, <1>3 DEF TypeOK, rows, history
<1>5. (SettledWithOutcome /\ ResultsMixOnlyIfShared /\ SharedOnlyInClaimWindow /\ OneRun)'
  BY <1>2 DEF SettledWithOutcome, ResultsMixOnlyIfShared, SharedOnlyInClaimWindow, OneRun,
              rows, history
<1>6. StuckWithReason'
  <2> SUFFICES ASSUME NEW k \in Jobs, status[k] = "running", k \notin abandoned
               PROVE  \E q \in Runners : WillSettle(q, k)'
    BY <1>2 DEF StuckWithReason, rows, history
  <2>1. PICK q \in Runners : WillSettle(q, k)
    BY DEF StuckWithReason
  <2> QED
    BY <1>1, <1>2, <2>1 DEF WillSettle, TypeOK
<1>7. ASSUME NEW q \in Runners PROVE AtWork(q)'
  BY <1>1, <1>2 DEF AtWork, TypeOK, rows
<1> QED
  BY <1>4, <1>5, <1>6, <1>7

(* What is common to the steps in which a runner lets go of jobs.          *)
LEMMA AdvanceStep ==
  ASSUME IInv, NEW r \in Runners, NEW rest, rest \subseteq batch[r],
         NEW label \in {"sleep", "next", "down"},
         Advance(r, rest, label), label # "next" => rest = {},
         rest # {} => pc[r] = "analyze",
         shared' = shared, failures' \in Nat,
         status' \in [Jobs -> Statuses], report' \subseteq Jobs, error' \subseteq Jobs,
         abandoned' \subseteq Jobs,
         \A j \in Jobs : Claimed(status[j])' <=> Claimed(status[j]),
         \A j \in Jobs : status'[j] = "none" => status[j] = "none",
         \A j \in report' \cup error' : Claimed(status[j]),
         \A j \in Jobs \ shared : j \in report' \cup error' => j \in report \cup error
                                                               \/ r \in window[j] \ window'[j]
  PROVE  TypeOK' /\ SharedOnlyInClaimWindow' /\ OneRun' /\ \A q \in Runners : AtWork(q)'
<1> USE DEF IInv
<1>1. /\ batch' = [batch EXCEPT ![r] = rest]
      /\ pc' = [pc EXCEPT ![r] = label]
      /\ job' = [job EXCEPT ![r] = Null]
      /\ loaded' = [loaded EXCEPT ![r] = "none"]
      /\ window' = [j \in Jobs |-> IF j \in batch[r] \ rest THEN window[j] \ {r} ELSE window[j]]
  BY DEF Advance
<1>2. TypeOK'
  BY <1>1 DEF TypeOK, Statuses
<1>3. \A q \in Runners : batch'[q] \subseteq batch[q]
  BY <1>1 DEF TypeOK
<1>4. \A j \in Jobs : /\ window'[j] \subseteq window[j]
                      /\ window[j] \ window'[j] \subseteq {r}
                      /\ r \in window'[j] => j \notin batch[r] \ rest
  BY <1>1
<1>5. SharedOnlyInClaimWindow'
  <2> SUFFICES ASSUME NEW q \in Runners, NEW j \in batch'[q], Claimed(status[j])'
               PROVE  q \in window'[j]
    BY DEF SharedOnlyInClaimWindow
  <2>1. j \in Jobs /\ j \in batch[q] /\ Claimed(status[j])
    BY <1>3 DEF TypeOK
  <2>2. q \in window[j]
    BY <2>1 DEF SharedOnlyInClaimWindow
  <2> QED
    BY <1>1, <2>1, <2>2 DEF TypeOK
<1>6. OneRun'
  <2>1. \A j \in Jobs : ~Claimed(status[j])' => window'[j] = {} /\ j \notin report' \cup error'
    BY <1>4 DEF OneRun
  <2>2. \A j \in Jobs : \A q \in window'[j] : j \in batch'[q]
    <3> SUFFICES ASSUME NEW j \in Jobs, NEW q \in window'[j] PROVE j \in batch'[q]
      OBVIOUS
    <3>1. q \in Runners /\ j \in batch[q]
      BY <1>4 DEF OneRun, TypeOK
    <3> QED
      BY <1>1, <1>4, <3>1 DEF TypeOK
  <2>3. ASSUME NEW j \in Jobs \ shared'
        PROVE  /\ \A p, q \in window'[j] : p = q
               /\ j \in report' \cup error' => window'[j] = {}
    <3>1. \A p, q \in window[j] : p = q
      BY <2>3 DEF OneRun
    <3>2. j \in report \cup error => window[j] = {}
      BY <2>3 DEF OneRun
    <3> QED
      BY <1>4, <2>3, <3>1, <3>2
  <2> QED
    BY <2>1, <2>2, <2>3 DEF OneRun
<1>7. ASSUME NEW q \in Runners PROVE AtWork(q)'
  <2>1. \A j \in batch'[q] : j \in Jobs /\ j \in batch[q]
    BY <1>3 DEF TypeOK
  <2>2. CASE q = r
    <3>1. pc'[r] = label /\ job'[r] = Null /\ batch'[r] = rest
      BY <1>1 DEF TypeOK
    <3> QED
      BY <2>1, <2>2, <3>1 DEF AtWork
  <2>3. CASE q # r
    BY <1>1, <2>1, <2>3 DEF AtWork, TypeOK
  <2> QED BY <2>2, <2>3
<1> QED
  BY <1>2, <1>5, <1>6, <1>7

LEMMA FinishStep ==
  ASSUME IInv, NEW r \in Runners, NEW outcome \in {"success", "failure"}, Finish(r, outcome)
  PROVE  IInv'
<1> USE DEF IInv
<1> DEFINE j == job[r]
<1>0. j \in batch[r] /\ j \in Jobs /\ Claimed(status[j]) /\ r \in window[j]
  BY DEF Finish, AtWork, TypeOK, SharedOnlyInClaimWindow
<1>1. /\ pc[r] = "analyze"
      /\ status' = IF outcome = loaded[r] THEN status ELSE [status EXCEPT ![j] = outcome]
      /\ \/ outcome = "success" /\ report' = report \cup {j} /\ error' = error
         \/ outcome = "failure" /\ error' = error \cup {j} /\ report' = report
      /\ shared' = shared /\ abandoned' = abandoned /\ failures' = failures
  BY DEF Finish
<1>2. Advance(r, batch[r] \ {j}, IF batch[r] \ {j} = {} THEN "sleep" ELSE "next")
  BY DEF Finish, Left
<1> HIDE DEF j
<1>3. /\ status' \in [Jobs -> Statuses]
      /\ \A k \in Jobs : k # j => status'[k] = status[k]
      /\ status'[j] \in {outcome, status[j]}
  BY <1>0, <1>1 DEF TypeOK, Statuses
<1>4. /\ \A k \in Jobs : Claimed(status[k])' <=> Claimed(status[k])
      /\ \A k \in Jobs : status'[k] = "none" => status[k] = "none"
  BY <1>0, <1>3 DEF Claimed
<1>5. window'[j] = window[j] \ {r}
  BY <1>0, <1>2 DEF Advance, TypeOK
<1>6. \A k \in report' \cup error' : Claimed(status[k])
  <2>1. \A k \in report \cup error : k \in Jobs /\ Claimed(status[k])
    BY DEF OneRun, TypeOK
  <2> QED
    BY <1>0, <1>1, <2>1
<1>7. TypeOK' /\ SharedOnlyInClaimWindow' /\ OneRun' /\ \A q \in Runners : AtWork(q)'
  <2>1. \A k \in Jobs \ shared : k \in report' \cup error' => k \in report \cup error
                                                             \/ r \in window[k] \ window'[k]
    BY <1>0, <1>1, <1>5
  <2>2. /\ report' \subseteq Jobs /\ error' \subseteq Jobs /\ abandoned' \subseteq Jobs
        /\ failures' \in Nat
    BY <1>0, <1>1 DEF TypeOK
  <2> QED
    BY <1>1, <1>2, <1>3, <1>4, <1>6, <2>1, <2>2, AdvanceStep
<1>8. SettledWithOutcome'
  <2> SUFFICES ASSUME NEW k \in Jobs
               PROVE  /\ status'[k] = "success" => k \in report'
                      /\ status'[k] = "failure" => k \in error'
    BY DEF SettledWithOutcome
  <2> QED
    BY <1>1, <1>3 DEF SettledWithOutcome
<1>9. ResultsMixOnlyIfShared'
  <2>1. j \in shared \/ j \notin report \cup error
    BY <1>0 DEF OneRun
  <2> QED
    BY <1>1, <2>1 DEF ResultsMixOnlyIfShared
<1>10. StuckWithReason'
  <2> SUFFICES ASSUME NEW k \in Jobs, status'[k] = "running", k \notin abandoned
               PROVE  \E q \in Runners : WillSettle(q, k)'
    BY <1>1 DEF StuckWithReason
  <2>1. status[k] = "running"
    BY <1>3
  <2>2. PICK q \in Runners : WillSettle(q, k)
    BY <2>1 DEF StuckWithReason
  <2>3. CASE q # r
    BY <1>2, <2>2, <2>3 DEF WillSettle, Advance, TypeOK
  <2>4. CASE q = r /\ k # j
    <3>1. /\ k \in batch[r] \ {j} /\ batch'[r] = batch[r] \ {j}
          /\ pc'[r] = (IF batch[r] \ {j} = {} THEN "sleep" ELSE "next") /\ job'[r] = Null
      BY <1>2, <2>2, <2>4 DEF WillSettle, Advance, TypeOK
    <3> QED
      BY <2>4, <3>1, NullAssumption DEF WillSettle
  <2>5. CASE q = r /\ k = j
    <3>1. loaded[r] = "running"
      BY <2>2, <2>5 DEF WillSettle, j
    <3> QED
      BY <1>0, <1>1, <2>5, <3>1 DEF TypeOK
  <2> QED BY <2>3, <2>4, <2>5
<1> QED
  BY <1>7, <1>8, <1>9, <1>10

(* A runner that fails abandons its batch.                                 *)
LEMMA GiveUpStep ==
  ASSUME IInv, NEW r \in Runners, NEW label \in {"sleep", "down"},
         Advance(r, {}, label), abandoned' = abandoned \cup batch[r],
         UNCHANGED <<rows, shared>>, failures' \in Nat
  PROVE  IInv'
<1> USE DEF IInv, rows
<1>1. \A k \in report \cup error : k \in Jobs /\ Claimed(status[k])
  BY DEF OneRun, TypeOK
<1>2. TypeOK' /\ SharedOnlyInClaimWindow' /\ OneRun' /\ \A q \in Runners : AtWork(q)'
  BY <1>1, AdvanceStep DEF TypeOK
<1>3. (SettledWithOutcome /\ ResultsMixOnlyIfShared)'
  BY DEF SettledWithOutcome, ResultsMixOnlyIfShared
<1>4. StuckWithReason'
  BY DEF StuckWithReason, WillSettle, Advance, TypeOK
<1> QED
  BY <1>2, <1>3, <1>4

LEMMA FailureStep ==
  ASSUME IInv, NEW r \in Runners, Unsaved(r) \/ DatabaseError(r) \/ Crash(r)
  PROVE  IInv'
<1>1. failures' \in Nat
  BY DEF IInv, TypeOK, Unsaved, DatabaseError, Crash, Fail
<1> QED
  BY <1>1, GiveUpStep DEF Unsaved, DatabaseError, Crash, Fail

LEMMA RestartStep == ASSUME IInv, NEW r \in Runners, Restart(r) PROVE IInv'
<1> USE DEF IInv, Restart, rows, history
<1>1. TypeOK'
  BY DEF TypeOK
<1>2. (SettledWithOutcome /\ ResultsMixOnlyIfShared /\ SharedOnlyInClaimWindow /\ OneRun)'
  BY DEF SettledWithOutcome, ResultsMixOnlyIfShared, SharedOnlyInClaimWindow, OneRun
<1>3. StuckWithReason' /\ \A q \in Runners : AtWork(q)'
  BY DEF StuckWithReason, WillSettle, AtWork, TypeOK
<1> QED
  BY <1>1, <1>2, <1>3

LEMMA NextIInv == IInv /\ [Next]_vars => IInv'
<1> SUFFICES ASSUME IInv, [Next]_vars PROVE IInv'
  OBVIOUS
<1>1. CASE UNCHANGED vars
  BY <1>1 DEF vars, rows, history, IInv, TypeOK, SettledWithOutcome, SharedOnlyInClaimWindow,
              StuckWithReason, WillSettle, ResultsMixOnlyIfShared, OneRun, AtWork
<1>2. CASE \E j \in Jobs : EnqueueJob(j)
  BY <1>2, EnqueueStep
<1>3. ASSUME NEW r \in Runners,
             \/ SelectBatch(r) \/ Claim(r) \/ Load(r)
             \/ \E outcome \in {"success", "failure"} : Finish(r, outcome)
             \/ Unsaved(r) \/ DatabaseError(r) \/ Crash(r) \/ Restart(r)
      PROVE  IInv'
  BY <1>3, SelectStep, ClaimStep, LoadStep, FinishStep, FailureStep, RestartStep
<1> QED
  BY <1>1, <1>2, <1>3 DEF Next

-----------------------------------------------------------------------------
(* The inductive invariant holds in every reachable state.                 *)
THEOREM Invariance == Spec => []IInv
BY InitIInv, NextIInv, PTL DEF Spec

(* Every variable has its type.                                            *)
THEOREM TypeCorrect == Spec => []TypeOK
<1>1. IInv => TypeOK BY DEF IInv
<1> QED BY <1>1, Invariance, PTL

(* A job is left running only by a runner that failed.                     *)
THEOREM RunningHasReason == Spec => []StuckWithReason
<1>1. IInv => StuckWithReason BY DEF IInv
<1> QED BY <1>1, Invariance, PTL

(* Only jobs that several runners ran mix a report with an error.          *)
THEOREM SingleRunsDoNotMix == Spec => []ResultsMixOnlyIfShared
<1>1. IInv => ResultsMixOnlyIfShared BY DEF IInv
<1> QED BY <1>1, Invariance, PTL

(* Runners share a job only when they selected it before its first claim.  *)
THEOREM ClaimsCloseTheWindow == Spec => []SharedOnlyInClaimWindow
<1>1. IInv => SharedOnlyInClaimWindow BY DEF IInv
<1> QED BY <1>1, Invariance, PTL

(* A settled job carries the outcome it is settled with.                   *)
THEOREM OutcomesAreKept == Spec => []SettledWithOutcome
<1>1. IInv => SettledWithOutcome BY DEF IInv
<1> QED BY <1>1, Invariance, PTL
=============================================================================
