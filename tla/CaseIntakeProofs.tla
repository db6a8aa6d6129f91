-------------------------- MODULE CaseIntakeProofs --------------------------
(***************************************************************************)
(* Proofs about CaseIntake, for any organizations, requests, keys and any  *)
(* number of attempts.                                                     *)
(***************************************************************************)
EXTENDS CaseIntake, FiniteSetTheorems, TLAPS

(* A row that is there is a row of the table.                              *)
LEMMA RowsTyped ==
  ASSUME TypeOK, NEW r \in Requests
  PROVE  /\ cases[r] # Null => cases[r] \in CaseRow
         /\ alerts[r] # Null => alerts[r] \in AlertRow
         /\ op[r] # Null => op[r] \in Operation
BY DEF TypeOK

(* The initial state satisfies the invariant: all tables are empty.        *)
LEMMA InitTables == Init => TablesInv
<1> SUFFICES ASSUME Init PROVE TablesInv
  OBVIOUS
<1> USE AttemptsAssumption DEF Init
<1>1. TypeOK
  BY DEF TypeOK
<1>2. UniqueNumbers /\ NoGap /\ TenantLinks
  BY DEF UniqueNumbers, NoGap, TenantLinks
<1>3. \A r \in Requests : Fresh(r) /\ Numbering(r) /\ Linking(r)
  BY DEF Fresh, Numbering, Linking, InFlight
<1> QED
  BY <1>1, <1>2, <1>3 DEF TablesInv

(* Steps that leave both tables alone.                                     *)
LEMMA QuietTables ==
  ASSUME TablesInv, UNCHANGED <<cases, alerts>>
  PROVE  /\ UniqueNumbers' /\ NoGap' /\ TenantLinks'
         /\ \A o : NumbersOf(o)' = NumbersOf(o)
BY DEF TablesInv, UniqueNumbers, NoGap, TenantLinks, NumbersOf

LEMMA BeginStep ==
  ASSUME TablesInv, NEW r \in Requests, NEW operation \in Operation,
         NEW loaded \in SUBSET {a \in Requests : alerts[a] # Null},
         NEW label \in {"number", "write", "findCase", "notFound", "rejected"},
         Begin(r, operation, loaded, label),
         label = "number" => operation.kind \in {"create", "promote"},
         label = "findCase" => operation.kind = "merge",
         operation.kind = "merge" => label # "write",
         operation.kind \in {"promote", "merge"} /\ label \in InFlight =>
           operation.ids \subseteq AlertsOf(operation.org),
         operation.kind = "deleteCase" /\ label = "write" =>
           operation.case \in LiveCasesOf(operation.org),
         operation.kind = "ingest" => operation.ref \in Refs,
         operation.kind \in {"patchAlert", "bulkPatch"} => operation.status \in AlertStatus
  PROVE  TablesInv'
<1> USE DEF Begin, GoTo
<1>1. UniqueNumbers' /\ NoGap' /\ TenantLinks' /\ \A o : NumbersOf(o)' = NumbersOf(o)
  BY QuietTables
<1>2. TypeOK'
  <2>1. {<<a, alerts[a].status>> : a \in loaded} \subseteq Requests \X AlertStatus
    BY RowsTyped DEF TablesInv, AlertRow
  <2>2. Active \subseteq Requests
    BY DEF Active
  <2> QED
    BY <2>1, <2>2 DEF TablesInv, TypeOK, InFlight, Endings
<1>3. ASSUME NEW q \in Requests PROVE (Fresh(q) /\ Numbering(q) /\ Linking(q))'
  <2>1. Fresh(q)'
    BY NullAssumption DEF TablesInv, TypeOK, Fresh
  <2>2. Numbering(q)'
    BY <1>1, AttemptsAssumption DEF TablesInv, TypeOK, Fresh, Numbering
  <2>3. Linking(q)'
    <3>1. CASE q = r
      BY <3>1 DEF TablesInv, TypeOK, Fresh, Linking, InFlight, AlertsOf, LiveCasesOf
    <3>2. CASE q # r
      BY <3>2 DEF TablesInv, TypeOK, Fresh, Linking, InFlight, Operation
    <3> QED BY <3>1, <3>2
  <2> QED BY <2>1, <2>2, <2>3
<1> QED
  BY <1>1, <1>2, <1>3 DEF TablesInv

(* A request in flight that ends without a commit, or starts another       *)
(* attempt, keeps the invariant.                                           *)
LEMMA FailStep ==
  ASSUME TablesInv, NEW r \in Requests, pc[r] \in InFlight,
         NEW ending \in (Endings \ {"done"}) \cup {"number"},
         Fail(r, ending),
         ending = "number" => op[r].kind = "create" /\ tries[r] < MaxAttempts
  PROVE  TablesInv'
<1> USE DEF Fail, GoTo, tables, locals
<1>1. UniqueNumbers' /\ NoGap' /\ TenantLinks' /\ \A o : NumbersOf(o)' = NumbersOf(o)
  BY QuietTables
<1>2. TypeOK'
  BY DEF TablesInv, TypeOK, InFlight
<1>3. ASSUME NEW q \in Requests PROVE (Fresh(q) /\ Numbering(q) /\ Linking(q))'
  <2>1. Fresh(q)'
    BY DEF TablesInv, TypeOK, Fresh, InFlight, Endings
  <2>2. Numbering(q)'
    BY <1>1 DEF TablesInv, TypeOK, Numbering, Endings
  <2>3. Linking(q)'
    BY DEF TablesInv, TypeOK, Linking, InFlight, Endings
  <2> QED BY <2>1, <2>2, <2>3
<1> QED
  BY <1>1, <1>2, <1>3 DEF TablesInv

(* A commit that takes no number back, gives a new case a free number and  *)
(* keeps alerts and their links in their organization keeps the invariant. *)
LEMMA CommitStep ==
  ASSUME TablesInv, NEW r \in Requests, pc[r] \in InFlight,
         NEW types \in SUBSET EventTypes, Commit(r, types),
         cases' \in [Requests -> CaseRow \cup {Null}],
         alerts' \in [Requests -> AlertRow \cup {Null}],
         \A c \in Requests \ {r} :
           /\ cases'[c] = Null <=> cases[c] = Null
           /\ cases[c] # Null => /\ cases'[c].org = cases[c].org
                                 /\ cases'[c].number = cases[c].number,
         \/ cases'[r] = Null
         \/ /\ pc[r] = "insert" /\ ~NumberTaken(r)
            /\ cases'[r].org = op[r].org /\ cases'[r].number = number[r],
         \A a \in Requests \ {r} :
           alerts'[a] # Null => alerts[a] # Null /\ alerts'[a].org = alerts[a].org,
         TenantLinks'
  PROVE  TablesInv'
<1> USE DEF Commit, GoTo, locals
<1>1. cases[r] = Null /\ alerts[r] = Null
  BY DEF TablesInv, Fresh, InFlight
<1>2. \A o : NumbersOf(o) \subseteq NumbersOf(o)'
  BY <1>1 DEF NumbersOf
<1>3. TypeOK'
  <2>1. events' \subseteq [by : Requests, type : EventTypes]
    BY DEF TablesInv, TypeOK, AuditAndEmit
  <2>2. pc' \in [Requests -> {"idle"} \cup InFlight \cup Endings]
    BY DEF TablesInv, TypeOK, Endings
  <2> QED
    BY <2>1, <2>2 DEF TablesInv, TypeOK
<1>4. UniqueNumbers'
  <2> SUFFICES ASSUME NEW c \in Requests, NEW d \in Requests,
                      cases'[c] # Null, cases'[d] # Null,
                      cases'[c].org = cases'[d].org,
                      cases'[c].number = cases'[d].number, c # d
               PROVE  FALSE
    BY DEF UniqueNumbers
  <2>1. CASE c # r /\ d # r
    BY <2>1 DEF TablesInv, UniqueNumbers
  <2>2. CASE c = r \/ d = r
    BY <2>2 DEF NumberTaken, NumbersOf
  <2> QED BY <2>1, <2>2
<1>5. NoGap'
  <2> SUFFICES ASSUME NEW c \in Requests, cases'[c] # Null
               PROVE  (1..cases[c].number \subseteq NumbersOf(cases[c].org))'
    BY DEF NoGap
  <2>1. CASE c # r
    BY <2>1, <1>2 DEF TablesInv, NoGap
  <2>2. CASE c = r
    <3>1. /\ cases'[r].org = op[r].org /\ cases'[r].number = number[r]
          /\ 1..(number[r] - 1) \subseteq NumbersOf(op[r].org)
      BY <2>2 DEF TablesInv, Numbering
    <3>2. number[r] \in NumbersOf(op[r].org)'
      BY <2>2, <3>1 DEF NumbersOf
    <3>3. \A i \in 1..number[r] : i \in 1..(number[r] - 1) \/ i = number[r]
      BY DEF TablesInv, TypeOK
    <3> QED
      BY <2>2, <3>1, <3>2, <3>3, <1>2
  <2> QED BY <2>1, <2>2
<1>6. ASSUME NEW q \in Requests PROVE (Fresh(q) /\ Numbering(q) /\ Linking(q))'
  <2>1. Fresh(q)'
    BY DEF TablesInv, TypeOK, Fresh, InFlight
  <2>2. Numbering(q)'
    BY <1>2 DEF TablesInv, TypeOK, Numbering
  <2>3. Linking(q)'
    BY <1>1 DEF TablesInv, TypeOK, Fresh, Linking, InFlight, Operation
  <2> QED BY <2>1, <2>2, <2>3
<1> QED
  BY <1>3, <1>4, <1>5, <1>6 DEF TablesInv

(* The steps that begin a request.                                         *)
LEMMA CallStep == ASSUME TablesInv, NEW r \in Requests, Call(r) PROVE TablesInv'
<1> USE DEF AlertsOf
<1> PICK o \in Orgs :
      \/ \E b \in Bodies : CreateBegin(r, o, b)
      \/ \E k \in Refs, b \in {"fits", "unfit"} : IngestLoad(r, o, k, b)
      \/ \E a \in {x \in Requests : alerts[x] # Null} :
           \/ \E b \in {"fits", "unfit"} : PromoteLoad(r, o, a, b)
           \/ DeleteAlertLoad(r, o, a)
           \/ \E s \in AlertStatus, b \in {"fits", "unfit"} : PatchAlertLoad(r, o, a, s, b)
           \/ \E c \in {x \in Requests : cases[x] # Null} : MergeLoad(r, o, a, c)
      \/ \E ids \in SUBSET {x \in Requests : alerts[x] # Null}, s \in AlertStatus,
           b \in {"fits", "unfit"} : ids # {} /\ BulkPatchLoad(r, o, ids, s, b)
      \/ \E c \in {x \in Requests : cases[x] # Null} : DeleteCaseLoad(r, o, c)
  BY Zenon DEF Call
<1>1. ASSUME NEW b \in Bodies, CreateBegin(r, o, b) PROVE TablesInv'
  BY <1>1, BeginStep DEF CreateBegin, Operation, Bodies, Kinds, AlertStatus, InFlight
<1>2. ASSUME NEW k \in Refs, NEW b \in {"fits", "unfit"}, IngestLoad(r, o, k, b) PROVE TablesInv'
  BY <1>2, BeginStep DEF IngestLoad, Operation, Bodies, Kinds, AlertStatus, InFlight
<1>3. ASSUME NEW a \in Requests, NEW b \in {"fits", "unfit"}, PromoteLoad(r, o, a, b)
      PROVE  TablesInv'
  BY <1>3, BeginStep DEF PromoteLoad, LinkEntry, Operation, Bodies, Kinds, AlertStatus, InFlight
<1>4. ASSUME NEW a \in Requests, DeleteAlertLoad(r, o, a) PROVE TablesInv'
  BY <1>4, BeginStep DEF DeleteAlertLoad, Operation, Bodies, Kinds, AlertStatus, InFlight
<1>5. ASSUME NEW a \in Requests, NEW s \in AlertStatus, NEW b \in {"fits", "unfit"},
             PatchAlertLoad(r, o, a, s, b)
      PROVE  TablesInv'
  BY <1>5, BeginStep DEF PatchAlertLoad, Operation, Bodies, Kinds, AlertStatus, InFlight
<1>6. ASSUME NEW a \in Requests, NEW c \in Requests, MergeLoad(r, o, a, c) PROVE TablesInv'
  BY <1>6, BeginStep DEF MergeLoad, LinkEntry, Operation, Bodies, Kinds, AlertStatus, InFlight
<1>7. ASSUME NEW ids \in SUBSET Requests, NEW s \in AlertStatus, NEW b \in {"fits", "unfit"},
             BulkPatchLoad(r, o, ids, s, b)
      PROVE  TablesInv'
  BY <1>7, BeginStep DEF BulkPatchLoad, Operation, Bodies, Kinds, AlertStatus, InFlight
<1>8. ASSUME NEW c \in Requests, DeleteCaseLoad(r, o, c) PROVE TablesInv'
  BY <1>8, BeginStep DEF DeleteCaseLoad, Operation, Bodies, Kinds, AlertStatus, InFlight
<1> QED
  BY <1>1, <1>2, <1>3, <1>4, <1>5, <1>6, <1>7, <1>8

(* A call is one of the loads above, and starts a request.                 *)
LEMMA CallBegins ==
  ASSUME NEW r \in Requests, Call(r)
  PROVE  \E operation, loaded :
           \E label \in {"number", "write", "findCase", "notFound", "rejected"} :
             Begin(r, operation, loaded, label)
<1> DEFINE Goal == \E operation, loaded :
             \E label \in {"number", "write", "findCase", "notFound", "rejected"} :
               Begin(r, operation, loaded, label)
<1>1. \A o, b : CreateBegin(r, o, b) => Goal
  BY Zenon DEF CreateBegin
<1>2. \A o, k, b : IngestLoad(r, o, k, b) => Goal
  BY Zenon DEF IngestLoad
<1>3. \A o, a, b : PromoteLoad(r, o, a, b) => Goal
  <2>1. \A o, a : LinkEntry(o, a, "number") \in {"number", "notFound", "rejected"}
    BY DEF LinkEntry
  <2> QED BY Zenon, <2>1 DEF PromoteLoad
<1>4. \A o, a : DeleteAlertLoad(r, o, a) => Goal
  BY Zenon DEF DeleteAlertLoad
<1>5. \A o, a, s, b : PatchAlertLoad(r, o, a, s, b) => Goal
  BY Zenon DEF PatchAlertLoad
<1>6. \A o, a, c : MergeLoad(r, o, a, c) => Goal
  <2>1. \A o, a : LinkEntry(o, a, "findCase") \in {"findCase", "notFound", "rejected"}
    BY DEF LinkEntry
  <2> QED BY Zenon, <2>1 DEF MergeLoad
<1>7. \A o, ids, s, b : BulkPatchLoad(r, o, ids, s, b) => Goal
  BY Zenon DEF BulkPatchLoad
<1>8. \A o, c : DeleteCaseLoad(r, o, c) => Goal
  BY Zenon DEF DeleteCaseLoad
<1> HIDE DEF Goal
<1>9. Goal
  BY Zenon, <1>1, <1>2, <1>3, <1>4, <1>5, <1>6, <1>7, <1>8 DEF Call
<1> QED BY <1>9 DEF Goal

(* The steps that number and insert a case.                                *)
LEMMA NextNumberStep == ASSUME TablesInv, NEW r \in Requests, NextNumber(r) PROVE TablesInv'
<1> USE DEF NextNumber, GoTo
<1>1. UniqueNumbers' /\ NoGap' /\ TenantLinks' /\ \A o : NumbersOf(o)' = NumbersOf(o)
  BY QuietTables
<1> DEFINE Numbers == NumbersOf(op[r].org)
<1>2. PICK m \in {0} \cup Numbers :
        /\ IsLastNumber(m, op[r].org)
        /\ number' = [number EXCEPT ![r] = m + 1]
        /\ first' = [first EXCEPT ![r] = IF @ = 0 THEN m + 1 ELSE @]
  OBVIOUS
<1>3. Numbers \subseteq Nat
  BY DEF NumbersOf, TablesInv, TypeOK, CaseRow
<1>4. 1..m \subseteq Numbers
  <2>1. CASE m = 0
    BY <2>1
  <2>2. CASE m \in Numbers
    <3> PICK d \in Requests : cases[d] # Null /\ cases[d].org = op[r].org
                             /\ cases[d].number = m
      BY <2>2 DEF NumbersOf
    <3> QED
      BY DEF TablesInv, NoGap
  <2> QED BY <1>2, <2>1, <2>2
<1>5. TypeOK'
  BY <1>2, <1>3, AttemptsAssumption DEF TablesInv, TypeOK, Numbering, InFlight
<1>6. ASSUME NEW q \in Requests PROVE (Fresh(q) /\ Numbering(q) /\ Linking(q))'
  <2>1. Fresh(q)'
    BY <1>2 DEF TablesInv, TypeOK, Fresh
  <2>2. Numbering(q)'
    BY <1>1, <1>2, <1>3, <1>4 DEF TablesInv, TypeOK, Numbering
  <2>3. Linking(q)'
    BY DEF TablesInv, TypeOK, Linking, InFlight
  <2> QED BY <2>1, <2>2, <2>3
<1> QED
  BY <1>1, <1>5, <1>6 DEF TablesInv

(* A commit that only deletes alerts or changes columns other than their   *)
(* organization and case.                                                  *)
LEMMA AlertsCommitStep ==
  ASSUME TablesInv, NEW r \in Requests, pc[r] \in InFlight,
         NEW types \in SUBSET EventTypes, Commit(r, types), UNCHANGED cases,
         alerts' \in [Requests -> AlertRow \cup {Null}],
         \A a \in Requests : alerts'[a] # Null =>
           alerts[a] # Null /\ alerts'[a].org = alerts[a].org
                            /\ alerts'[a].case = alerts[a].case
  PROVE  TablesInv'
<1>1. TenantLinks'
  BY DEF TablesInv, TenantLinks
<1>2. cases[r] = Null
  BY DEF TablesInv, Fresh, InFlight
<1>3. cases' \in [Requests -> CaseRow \cup {Null}]
  BY DEF TablesInv, TypeOK
<1> QED
  BY <1>1, <1>2, <1>3, CommitStep

LEMMA WriteStatusStep ==
  ASSUME TablesInv, NEW r \in Requests, pc[r] \in InFlight, op[r].status \in AlertStatus,
         NEW changed \in SUBSET Requests, NEW types \in SUBSET EventTypes,
         WriteStatus(r, changed, types)
  PROVE  TablesInv'
<1>1. CASE Fail(r, "stale")
  BY <1>1, FailStep DEF Endings
<1>2. CASE /\ \A a \in changed : alerts[a] # Null
           /\ alerts' = [a \in Requests |->
                           IF a \in changed THEN [alerts[a] EXCEPT !.status = op[r].status]
                                            ELSE alerts[a]]
           /\ UNCHANGED cases
           /\ Commit(r, types)
  <2>1. \A a \in changed : [alerts[a] EXCEPT !.status = op[r].status] \in AlertRow
    BY <1>2 DEF TablesInv, TypeOK, AlertRow
  <2>2. alerts' \in [Requests -> AlertRow \cup {Null}]
    BY <1>2, <2>1 DEF TablesInv, TypeOK
  <2>3. \A a \in Requests : alerts'[a] # Null =>
           alerts[a] # Null /\ alerts'[a].org = alerts[a].org
                            /\ alerts'[a].case = alerts[a].case
    BY <1>2 DEF TablesInv, TypeOK, AlertRow
  <2> QED
    BY <1>2, <2>2, <2>3, AlertsCommitStep
<1> QED
  BY <1>1, <1>2 DEF WriteStatus

(* A request that is past its call has an operation.                       *)
LEMMA OpTyped ==
  ASSUME TablesInv, NEW r \in Requests, pc[r] \in InFlight
  PROVE  /\ op[r] \in Operation /\ cases[r] = Null /\ alerts[r] = Null
         /\ op[r].org \in Orgs /\ op[r].ids \subseteq Requests
BY DEF TablesInv, TypeOK, Fresh, InFlight, Operation

LEMMA NewCaseTyped ==
  ASSUME TablesInv, NEW r \in Requests, pc[r] = "insert", cases' = NewCase(r)
  PROVE  /\ cases' \in [Requests -> CaseRow \cup {Null}]
         /\ cases'[r] # Null /\ cases'[r].org = op[r].org /\ cases'[r].number = number[r]
         /\ \A c \in Requests \ {r} : cases'[c] = cases[c]
<1>1. [org |-> op[r].org, number |-> number[r], deleted |-> FALSE] \in CaseRow
  BY OpTyped DEF TablesInv, TypeOK, Numbering, InFlight, CaseRow
<1> QED
  BY <1>1, NullAssumption DEF TablesInv, TypeOK, NewCase

LEMMA CreateInsertStep == ASSUME TablesInv, NEW r \in Requests, CreateInsert(r) PROVE TablesInv'
<1> USE DEF InFlight
<1>1. CASE Fail(r, "number") /\ MayRetry(r)
  BY <1>1, FailStep DEF CreateInsert, MayRetry
<1>2. CASE Fail(r, "exhausted")
  BY <1>2, FailStep DEF CreateInsert, Endings
<1>3. CASE ~Violates(r) /\ cases' = NewCase(r) /\ UNCHANGED alerts
           /\ Commit(r, {"case.created"})
  <2>1. pc[r] = "insert" /\ ~NumberTaken(r)
    BY <1>3 DEF CreateInsert, Violates
  <2>2. TenantLinks'
    <3> SUFFICES ASSUME NEW a \in Requests, alerts[a] # Null, alerts[a].case # Null
                 PROVE  /\ cases'[alerts[a].case] # Null
                        /\ cases'[alerts[a].case].org = alerts[a].org
      BY <1>3 DEF TenantLinks
    <3>1. /\ alerts[a].case \in Requests /\ cases[alerts[a].case] # Null
          /\ cases[alerts[a].case].org = alerts[a].org
      BY DEF TablesInv, TypeOK, AlertRow, TenantLinks
    <3> QED
      BY <1>3, <2>1, <3>1, NewCaseTyped, OpTyped
  <2>3. alerts' \in [Requests -> AlertRow \cup {Null}]
    BY <1>3 DEF TablesInv, TypeOK
  <2>4. {"case.created"} \in SUBSET EventTypes
    BY DEF EventTypes
  <2> QED
    BY <1>3, <2>1, <2>2, <2>3, <2>4, NewCaseTyped, CommitStep
<1> QED
  BY <1>1, <1>2, <1>3 DEF CreateInsert

LEMMA DeleteCaseWriteStep ==
  ASSUME TablesInv, NEW r \in Requests, DeleteCaseWrite(r) PROVE TablesInv'
<1> DEFINE c == op[r].case
<1>1. pc[r] \in InFlight /\ {"case.deleted"} \in SUBSET EventTypes
  BY DEF DeleteCaseWrite, InFlight, EventTypes
<1>2. c \in Requests /\ cases[c] \in CaseRow
  BY DEF TablesInv, TypeOK, Linking, DeleteCaseWrite
<1>3. [cases[c] EXCEPT !.deleted = TRUE] \in CaseRow
  BY <1>2 DEF CaseRow
<1>4. cases' = [cases EXCEPT ![c] = [cases[c] EXCEPT !.deleted = TRUE]]
  BY DEF DeleteCaseWrite, WithDeleted
<1>5. /\ cases' \in [Requests -> CaseRow \cup {Null}]
      /\ alerts' \in [Requests -> AlertRow \cup {Null}]
  BY ZenonT(60), <1>3, <1>4 DEF TablesInv, TypeOK, DeleteCaseWrite
<1>6. \A d \in Requests :
        /\ cases'[d] = Null <=> cases[d] = Null
        /\ cases[d] # Null => /\ cases'[d].org = cases[d].org
                              /\ cases'[d].number = cases[d].number
  BY <1>2, <1>3, <1>4, NullAssumption DEF TablesInv, TypeOK, CaseRow
<1>7. TenantLinks'
  BY <1>5, <1>6 DEF TablesInv, TypeOK, AlertRow, TenantLinks, DeleteCaseWrite
<1>8. cases'[r] = Null
  BY <1>1, <1>6, OpTyped
<1> QED
  BY <1>1, <1>5, <1>6, <1>7, <1>8, CommitStep DEF DeleteCaseWrite

LEMMA IngestUpdateStep == ASSUME TablesInv, NEW r \in Requests, IngestUpdate(r) PROVE TablesInv'
<1>1. pc[r] \in InFlight /\ {} \in SUBSET EventTypes
  BY DEF IngestUpdate, InFlight
<1>2. CASE Fail(r, "stale")
  BY <1>1, <1>2, FailStep DEF Endings
<1>3. CASE /\ \A p \in seen[r] : alerts[p[1]] # Null
           /\ alerts' = [a \in Requests |-> IF a \in Flipped(r) THEN Refreshed(a) ELSE alerts[a]]
           /\ UNCHANGED cases
           /\ Commit(r, {})
  <2>1. \A a \in Flipped(r) : a \in Requests /\ alerts[a] \in AlertRow
    BY <1>3 DEF TablesInv, TypeOK, Flipped
  <2>2. \A a \in Flipped(r) : /\ Refreshed(a) \in AlertRow
                              /\ Refreshed(a).org = alerts[a].org
                              /\ Refreshed(a).case = alerts[a].case
    BY <2>1 DEF Refreshed, AlertRow, AlertStatus
  <2>3. /\ alerts' \in [Requests -> AlertRow \cup {Null}]
        /\ \A a \in Requests : alerts'[a] # Null =>
             alerts[a] # Null /\ alerts'[a].org = alerts[a].org
                              /\ alerts'[a].case = alerts[a].case
    BY <1>3, <2>1, <2>2, NullAssumption DEF TablesInv, TypeOK
  <2> QED
    BY <1>1, <1>3, <2>3, AlertsCommitStep
<1> QED
  BY <1>2, <1>3 DEF IngestUpdate

LEMMA IngestInsertStep == ASSUME TablesInv, NEW r \in Requests, IngestInsert(r) PROVE TablesInv'
<1>1. pc[r] \in InFlight /\ {"alert.ingested"} \in SUBSET EventTypes
  BY DEF IngestInsert, InFlight, EventTypes
<1>2. CASE Fail(r, "clash")
  BY <1>1, <1>2, FailStep DEF Endings
<1> DEFINE row == [org |-> op[r].org, ref |-> op[r].ref, status |-> "New", case |-> Null]
<1>3. CASE /\ alerts' = [alerts EXCEPT ![r] = row]
           /\ UNCHANGED cases
           /\ Commit(r, {"alert.ingested"})
  <2>1. op[r].ref \in Refs
    BY DEF TablesInv, Linking, IngestInsert, InFlight
  <2>2. row \in AlertRow
    BY <1>1, <2>1, OpTyped DEF AlertRow, AlertStatus
  <2>3. /\ cases' \in [Requests -> CaseRow \cup {Null}]
        /\ alerts' \in [Requests -> AlertRow \cup {Null}]
        /\ cases'[r] = Null
    BY <1>1, <1>3, <2>2, OpTyped DEF TablesInv, TypeOK
  <2>4. TenantLinks'
    BY <1>3, <2>2 DEF TablesInv, TypeOK, TenantLinks
  <2> QED
    BY <1>1, <1>3, <2>3, <2>4, CommitStep DEF TablesInv, TypeOK
<1> QED
  BY <1>2, <1>3 DEF IngestInsert

LEMMA PatchWriteStep ==
  ASSUME TablesInv, NEW r \in Requests, PatchAlertWrite(r) \/ BulkPatchWrite(r) PROVE TablesInv'
<1>1. pc[r] \in InFlight /\ op[r].status \in AlertStatus
  BY DEF PatchAlertWrite, BulkPatchWrite, InFlight, TablesInv, Linking
<1>2. Dirty(r, op[r].status) \in SUBSET Requests
  BY DEF Dirty, TablesInv, TypeOK
<1> QED
  BY <1>1, <1>2, WriteStatusStep DEF PatchAlertWrite, BulkPatchWrite, EventTypes

LEMMA DeleteAlertWriteStep ==
  ASSUME TablesInv, NEW r \in Requests, DeleteAlertWrite(r) PROVE TablesInv'
<1>1. pc[r] \in InFlight /\ {} \in SUBSET EventTypes
  BY DEF DeleteAlertWrite, InFlight
<1>2. /\ alerts' \in [Requests -> AlertRow \cup {Null}]
      /\ \A a \in Requests : alerts'[a] # Null => alerts'[a] = alerts[a]
  BY DEF DeleteAlertWrite, TablesInv, TypeOK
<1> QED
  BY <1>1, <1>2, AlertsCommitStep DEF DeleteAlertWrite

(* Linking the alert of a request to a case of its organization.           *)
LEMMA LinkedTyped ==
  ASSUME TablesInv, NEW r \in Requests, pc[r] \in InFlight,
         op[r].kind \in {"promote", "merge"}, ~AlertGone(r),
         NEW c \in Requests, alerts' = Linked(r, c)
  PROVE  /\ alerts' \in [Requests -> AlertRow \cup {Null}]
         /\ \A a \in op[r].ids : alerts'[a].org = op[r].org /\ alerts'[a].case = c
         /\ \A a \in Requests \ op[r].ids : alerts'[a] = alerts[a]
         /\ \A a \in Requests : alerts'[a] # Null =>
              alerts[a] # Null /\ alerts'[a].org = alerts[a].org
<1> DEFINE new(a) == [alerts[a] EXCEPT !.case = c,
             !.status = IF a \in Dirty(r, "Imported") THEN "Imported" ELSE @]
<1>1. \A a \in op[r].ids : /\ a \in Requests /\ alerts[a] \in AlertRow
                           /\ alerts[a].org = op[r].org
  BY OpTyped DEF TablesInv, TypeOK, Linking, AlertGone
<1>2. \A a \in op[r].ids : /\ new(a) \in AlertRow /\ new(a).org = op[r].org
                           /\ new(a).case = c
  BY <1>1 DEF AlertRow, AlertStatus
<1>3. alerts' = [a \in Requests |-> IF a \in op[r].ids THEN new(a) ELSE alerts[a]]
  BY DEF Linked
<1> HIDE DEF new
<1> QED
  BY <1>1, <1>2, <1>3, NullAssumption DEF TablesInv, TypeOK

LEMMA MergeWriteStep == ASSUME TablesInv, NEW r \in Requests, MergeWrite(r) PROVE TablesInv'
<1>1. pc[r] \in InFlight /\ {} \in SUBSET EventTypes
  BY DEF MergeWrite, InFlight
<1>2. CASE Fail(r, "stale")
  BY <1>1, <1>2, FailStep DEF Endings
<1>3. CASE ~AlertGone(r) /\ alerts' = Linked(r, op[r].case) /\ UNCHANGED cases /\ Commit(r, {})
  <2>1. /\ op[r].kind = "merge" /\ op[r].case \in Requests
        /\ cases[op[r].case] # Null /\ cases[op[r].case].org = op[r].org
    BY DEF MergeWrite, TablesInv, Linking
  <2>2. TenantLinks'
    BY <1>1, <1>3, <2>1, LinkedTyped DEF TablesInv, TenantLinks
  <2>3. cases' \in [Requests -> CaseRow \cup {Null}] /\ cases'[r] = Null
    BY <1>1, <1>3, OpTyped DEF TablesInv, TypeOK
  <2> QED
    BY <1>1, <1>3, <2>1, <2>2, <2>3, LinkedTyped, CommitStep
<1> QED
  BY <1>2, <1>3 DEF MergeWrite

LEMMA PromoteWriteStep == ASSUME TablesInv, NEW r \in Requests, PromoteWrite(r) PROVE TablesInv'
<1>1. pc[r] \in InFlight /\ pc[r] = "insert" /\ {"alert.promoted"} \in SUBSET EventTypes
  BY DEF PromoteWrite, InFlight, EventTypes
<1>2. CASE Fail(r, "clash") \/ Fail(r, "stale")
  BY <1>1, <1>2, FailStep DEF Endings
<1>3. CASE /\ ~NumberTaken(r) /\ ~AlertGone(r)
           /\ cases' = NewCase(r) /\ alerts' = Linked(r, r)
           /\ Commit(r, {"alert.promoted"})
  <2>1. op[r].kind = "promote"
    BY DEF PromoteWrite
  <2>2. TenantLinks'
    <3> SUFFICES ASSUME NEW a \in Requests, alerts'[a] # Null, alerts'[a].case # Null
                 PROVE  /\ cases'[alerts'[a].case] # Null
                        /\ cases'[alerts'[a].case].org = alerts'[a].org
      BY DEF TenantLinks
    <3>1. CASE a \in op[r].ids
      BY <1>1, <1>3, <2>1, <3>1, LinkedTyped, NewCaseTyped
    <3>2. CASE a \notin op[r].ids
      <4>1. alerts'[a] = alerts[a]
        BY <1>1, <1>3, <2>1, <3>2, LinkedTyped
      <4>2. /\ alerts[a].case \in Requests /\ cases[alerts[a].case] # Null
            /\ cases[alerts[a].case].org = alerts[a].org
        BY <4>1 DEF TablesInv, TypeOK, AlertRow, TenantLinks
      <4> QED
        BY <1>1, <1>3, <4>1, <4>2, NewCaseTyped, OpTyped
    <3> QED BY <3>1, <3>2
  <2> QED
    BY <1>1, <1>3, <2>1, <2>2, LinkedTyped, NewCaseTyped, CommitStep
<1> QED
  BY <1>2, <1>3 DEF PromoteWrite

LEMMA MergeFindCaseStep == ASSUME TablesInv, NEW r \in Requests, MergeFindCase(r) PROVE TablesInv'
<1> USE DEF MergeFindCase, GoTo, tables, locals
<1>1. UniqueNumbers' /\ NoGap' /\ TenantLinks' /\ \A o : NumbersOf(o)' = NumbersOf(o)
  BY QuietTables
<1>2. TypeOK'
  BY DEF TablesInv, TypeOK, InFlight, Endings
<1>3. ASSUME NEW q \in Requests PROVE (Fresh(q) /\ Numbering(q) /\ Linking(q))'
  <2>1. Fresh(q)'
    BY DEF TablesInv, TypeOK, Fresh
  <2>2. Numbering(q)'
    BY <1>1 DEF TablesInv, TypeOK, Numbering
  <2>3. Linking(q)'
    BY DEF TablesInv, TypeOK, Linking, InFlight, LiveCasesOf
  <2> QED BY <2>1, <2>2, <2>3
<1> QED
  BY <1>1, <1>2, <1>3 DEF TablesInv

-----------------------------------------------------------------------------
(* What the tables satisfy is inductive.                                   *)
LEMMA NextTables == TablesInv /\ [Next]_vars => TablesInv'
<1> SUFFICES ASSUME TablesInv, [Next]_vars PROVE TablesInv'
  OBVIOUS
<1>1. CASE UNCHANGED vars
  BY <1>1 DEF vars, TablesInv, TypeOK, UniqueNumbers, NoGap, NumbersOf, TenantLinks, Fresh,
              Numbering, Linking
<1>2. ASSUME NEW r \in Requests, Abort(r) PROVE TablesInv'
  BY <1>2, FailStep DEF Abort, Endings
<1>3. ASSUME NEW r \in Requests, RefusedWrite(r) PROVE TablesInv'
  BY <1>3, FailStep DEF RefusedWrite, InFlight, Endings
<1> QED
  BY <1>1, <1>2, <1>3, CallStep, NextNumberStep, CreateInsertStep, DeleteCaseWriteStep,
     IngestUpdateStep, IngestInsertStep, PatchWriteStep, DeleteAlertWriteStep,
     PromoteWriteStep, MergeFindCaseStep, MergeWriteStep
  DEF Next

-----------------------------------------------------------------------------
(* Requests and their reasons.  A step of a request leaves what the others *)
(* were asked, loaded and met; if it is not its call, its own too.         *)
Acts(r) ==
  /\ \A q \in Requests \ {r} : /\ pc'[q] = pc[q] /\ number'[q] = number[q]
                               /\ tries'[q] = tries[q] /\ first'[q] = first[q]
  /\ pc[r] \in InFlight /\ UNCHANGED <<op, seen, met>>
Onward(r) ==
  /\ Acts(r) /\ UNCHANGED tables
  /\ pc'[r] \in InFlight \cup (Endings \ {"done"})
(* A request of the same organization overlapped this one and committed.   *)
HasRival(r) ==
  \E q \in Requests : pc[q] = "done" /\ Overlap(r, q) /\ op[q].org = op[r].org
(* A step that goes on, or ends the request for a reason.                  *)
Tries(r) ==
  /\ Onward(r) /\ Attempts(r)'
  /\ pc'[r] = "insert" =>
       \A c \in Requests : cases[c] # Null /\ cases[c].org = op[r].org
                             /\ cases[c].number >= number'[r] => Overlap(r, c)
  /\ pc'[r] \in {"clash", "exhausted", "stale", "unfit"} /\ op[r].body = "fits" => HasRival(r)
(* What a commit does to the tables and the outbox.                        *)
KeepsCases(r) ==
  /\ \A c \in Requests \ {r} : /\ cases'[c] = Null <=> cases[c] = Null
                               /\ cases[c] # Null => /\ cases'[c].org = cases[c].org
                                                     /\ cases'[c].number = cases[c].number
  /\ cases'[r] # Null => cases'[r].org = op[r].org
KeepsAlerts(r) ==
  /\ \A a \in Requests \ {r} : alerts'[a] # Null =>
       /\ alerts[a] # Null /\ alerts'[a].org = alerts[a].org /\ alerts'[a].ref = alerts[a].ref
       /\ \/ alerts'[a].case = alerts[a].case
          \/ /\ r \in Linkers /\ a \in op[r].ids /\ alerts'[a].case # Null
             /\ op[r].kind = "promote" => alerts'[a].case = r
  /\ alerts'[r] # Null => /\ alerts'[r].org = op[r].org /\ alerts'[r].ref = op[r].ref
                          /\ alerts'[r].case = Null /\ ~KeyTaken(r)
  /\ \A a \in Requests : alerts[a] # Null /\ alerts'[a] = Null =>
       op[r].kind = "deleteAlert" /\ a \in op[r].ids
  /\ r \in Linkers => \A a \in op[r].ids : alerts'[a] # Null => alerts'[a].case # Null
Emits(r, types) ==
  /\ types \subseteq EventTypes
  /\ cases'[r] # Null <=> types \cap {"case.created", "alert.promoted"} # {}
  /\ alerts'[r] # Null => "alert.ingested" \in types
  /\ "case.deleted" \in types => op[r].case \in Requests /\ cases[op[r].case] # Null
  /\ \A c \in Requests \ {r} : cases[c] # Null =>
       (cases'[c].deleted <=> cases[c].deleted \/ ("case.deleted" \in types /\ op[r].case = c))
  /\ cases'[r] # Null => ~cases'[r].deleted
Fits(r, types) ==
  pc[r] \in InFlight /\ Commit(r, types) /\ KeepsCases(r) /\ KeepsAlerts(r) /\ Emits(r, types)

LEMMA InitHistory == Init => HistoryInv /\ Deduplicated /\ TransactionalOutbox
<1> SUFFICES ASSUME Init PROVE HistoryInv /\ Deduplicated /\ TransactionalOutbox
  OBVIOUS
<1> USE DEF Init
<1>1. RowsOfRequests /\ Meeting /\ LinksHaveAuthors /\ EventsStand
  BY DEF RowsOfRequests, Meeting, Active, InFlight, LinksHaveAuthors, Linkers, EventsStand
<1>2. {r \in Requests : pc[r] # "idle"} = {}
  OBVIOUS
<1>3. FinitelyMany
  BY <1>2, FS_EmptySet DEF FinitelyMany
<1>4. \A r \in Requests : Loading(r) /\ Attempts(r)
  BY DEF Loading, Attempts, InFlight
<1>5. Deduplicated /\ TransactionalOutbox
  BY DEF Deduplicated, TransactionalOutbox
<1> QED
  BY <1>1, <1>3, <1>4, <1>5 DEF HistoryInv

(* A request that was asked stays so.                                      *)
LEMMA FinitelyManyStay ==
  ASSUME FinitelyMany, NEW r \in Requests, \A q \in Requests \ {r} : pc'[q] = pc[q]
  PROVE  FinitelyMany'
<1> DEFINE S == {q \in Requests : pc[q] # "idle"}
           T == {q \in Requests : pc'[q] # "idle"}
<1>1. IsFiniteSet(S \cup {r})
  BY FS_AddElement DEF FinitelyMany
<1>2. T \in SUBSET (S \cup {r})
  OBVIOUS
<1> QED
  BY <1>1, <1>2, FS_Subset DEF FinitelyMany

LEMMA LinkerTyped ==
  ASSUME TypeOK, NEW q \in Linkers
  PROVE  /\ q \in Requests /\ op[q] \in Operation /\ op[q].ids \subseteq Requests
         /\ op[q].kind \in {"promote", "merge"}
BY DEF TypeOK, Linkers, Operation

LEMMA OnwardHistory ==
  ASSUME TypeOK, HistoryInv, NEW r \in Requests, Tries(r)
  PROVE  HistoryInv'
<1> USE DEF Tries, Onward, Acts, tables
<1>1. \A q, s : Overlap(q, s)' = Overlap(q, s)
  BY DEF Overlap
<1>2. /\ \A q \in Requests : pc'[q] = "done" <=> pc[q] = "done"
      /\ \A q \in Requests : pc'[q] \in InFlight => pc[q] \in InFlight
  BY DEF InFlight, Endings
<1>3. RowsOfRequests' /\ EventsStand'
  BY <1>2 DEF HistoryInv, RowsOfRequests, EventsStand, TypeOK
<1>4. Meeting'
  BY <1>1, <1>2 DEF HistoryInv, Meeting, Active
<1>5. LinksHaveAuthors'
  <2>1. Linkers' = Linkers /\ \A q \in Linkers : q \in Requests /\ op'[q] = op[q]
    BY DEF Linkers
  <2>2. \A q \in Linkers : \A a \in op[q].ids : a \in Requests
    BY LinkerTyped
  <2> QED BY <1>1, <1>2, <2>1, <2>2 DEF HistoryInv, LinksHaveAuthors
<1>6. FinitelyMany'
  BY FinitelyManyStay DEF HistoryInv
<1>7. ASSUME NEW q \in Requests PROVE Loading(q)' /\ Attempts(q)'
  <2>1. Attempts(q)'
    BY DEF HistoryInv, Attempts, Violates, NumberTaken, NumbersOf
  <2>2. ASSUME pc'[q] \in InFlight
        PROVE  /\ \A p \in seen[q] :
                    /\ pc'[p[1]] = "done" /\ op[p[1]].org = op[q].org
                    /\ alerts[p[1]] = Null => \E s \in Requests :
                         pc'[s] = "done" /\ Overlap(q, s) /\ op[s].org = op[q].org
               /\ op[q].kind \in {"promote", "merge", "deleteAlert"} =>
                    \A a \in op[q].ids : \E p \in seen[q] : p[1] = a
               /\ op[q].kind = "ingest" /\ seen[q] = {} =>
                    \A a \in AlertsOf(op[q].org) : alerts[a].ref = op[q].ref => Overlap(q, a)
               /\ pc'[q] = "insert" =>
                    \A c \in Requests : cases[c] # Null /\ cases[c].org = op[q].org
                                          /\ cases[c].number >= number'[q] => Overlap(q, c)
    BY <1>2, <2>2 DEF HistoryInv, Loading, TypeOK
  <2>3. Loading(q)'
    BY <1>1, <2>2 DEF Loading, AlertsOf
  <2> QED BY <2>1, <2>3
<1> QED
  BY <1>3, <1>4, <1>5, <1>6, <1>7 DEF HistoryInv

(* What a request looks for in the tables is of its organization.          *)
LEMMA BeginHistory ==
  ASSUME TablesInv, HistoryInv, NEW r \in Requests, NEW operation \in Operation,
         NEW loaded \in SUBSET AlertsOf(operation.org), NEW label,
         Begin(r, operation, loaded, label),
         label \in {"number", "write", "findCase", "notFound", "rejected"},
         label \in InFlight /\ operation.kind \in {"promote", "merge", "deleteAlert"} =>
           operation.ids \subseteq loaded,
         label \in InFlight /\ operation.kind \in {"promote", "merge"} =>
           \A a \in operation.ids : alerts[a].case = Null,
         operation.kind = "ingest" =>
           loaded = {a \in AlertsOf(operation.org) : alerts[a].ref = operation.ref}
  PROVE  HistoryInv'
<1>1. /\ pc[r] = "idle" /\ pc'[r] = label /\ op'[r] = operation /\ met'[r] = Active
      /\ seen'[r] = {<<a, alerts[a].status>> : a \in loaded}
      /\ UNCHANGED <<cases, alerts, events, number, tries, first>>
      /\ \A q \in Requests \ {r} : /\ pc'[q] = pc[q] /\ op'[q] = op[q] /\ met'[q] = met[q]
                                   /\ seen'[q] = seen[q]
  BY DEF Begin, GoTo, TablesInv, TypeOK
<1>2. cases[r] = Null /\ alerts[r] = Null /\ tries[r] = 0 /\ first[r] = 0 /\ operation # Null
  BY <1>1, NullAssumption DEF TablesInv, Fresh, HistoryInv, Attempts
<1>3. label \notin {"done", "idle", "insert", "exhausted"}
  OBVIOUS
<1>4. \A q \in Requests : pc'[q] = "done" <=> pc[q] = "done" /\ q # r
  BY <1>1, <1>3
<1>5. \A q, s \in Requests \ {r} : Overlap(q, s)' <=> Overlap(q, s)
  BY <1>1 DEF Overlap
<1>6. RowsOfRequests'
  BY <1>1, <1>2 DEF HistoryInv, RowsOfRequests
<1>7. Meeting'
  <2> SUFFICES ASSUME NEW q \in Requests, NEW s \in Requests, q # s,
                      pc'[q] \in InFlight, pc'[s] \in InFlight
               PROVE  Overlap(q, s)'
    BY DEF Meeting, Active
  <2>1. CASE q # r /\ s # r
    BY <1>1, <1>5, <2>1 DEF HistoryInv, Meeting, Active
  <2>2. CASE q = r \/ s = r
    BY <1>1, <2>2 DEF Active, Overlap
  <2> QED BY <2>1, <2>2
<1>8. LinksHaveAuthors'
  <2>1. /\ \A q \in Linkers : pc[q] = "done" => q \in Linkers' /\ q # r
        /\ \A q \in Requests : pc'[q] = "done" /\ q \in Linkers' => q \in Linkers /\ q # r
        /\ \A q \in Requests \ {r} : q \in Linkers' => q \in Linkers
        /\ Linkers' \subseteq Requests
    BY <1>1, <1>4 DEF Linkers
  <2>2. ASSUME NEW a \in Requests, alerts[a] # Null, alerts[a].case # Null
        PROVE  \E q \in Linkers' : /\ pc'[q] = "done" /\ a \in op'[q].ids
                                   /\ op'[q].kind = "promote" => alerts[a].case = q
    <3>1. PICK q \in Linkers : /\ pc[q] = "done" /\ a \in op[q].ids
                               /\ op[q].kind = "promote" => alerts[a].case = q
      BY <2>2 DEF HistoryInv, LinksHaveAuthors
    <3> QED
      BY <1>1, <2>1, <3>1 DEF Linkers
  <2>3. ASSUME NEW s \in Requests, s \in Linkers', pc'[s] = "done"
        PROVE  /\ \A a \in op'[s].ids : /\ pc'[a] = "done"
                                        /\ alerts[a] # Null => alerts[a].case # Null
               /\ \A q \in Linkers' : /\ q # s /\ pc'[q] \in InFlight \cup {"done"}
                                      /\ op'[s].ids \cap op'[q].ids # {}
                                      => Overlap(s, q)'
    <3>1. s \in Linkers /\ s # r /\ pc[s] = "done" /\ op'[s] = op[s]
      BY <1>1, <2>1, <2>3
    <3>2. \A a \in op[s].ids : /\ pc[a] = "done"
                               /\ alerts[a] # Null => alerts[a].case # Null
      BY <3>1 DEF HistoryInv, LinksHaveAuthors
    <3>4. op[s].ids \subseteq Requests
      BY <3>1, LinkerTyped DEF TablesInv
    <3>3. ASSUME NEW q \in Linkers', q # s, pc'[q] \in InFlight \cup {"done"},
                 op'[s].ids \cap op'[q].ids # {}
          PROVE  Overlap(s, q)'
      <4>1. CASE q = r
        <5>1. label \in InFlight /\ operation.kind \in {"promote", "merge"}
          BY <1>1, <1>3, <3>3, <4>1 DEF Linkers
        <5>2. \A a \in operation.ids : alerts[a] # Null /\ alerts[a].case = Null
          BY <5>1 DEF AlertsOf
        <5> QED
          BY <1>1, <3>1, <3>2, <3>3, <4>1, <5>2
      <4>2. CASE q # r
        <5>1. q \in Requests /\ q \in Linkers /\ pc[q] = pc'[q] /\ op'[q] = op[q]
          BY <1>1, <2>1, <4>2
        <5>2. Overlap(s, q)
          BY <3>1, <3>3, <5>1 DEF HistoryInv, LinksHaveAuthors
        <5>3. s \in Requests \ {r} /\ q \in Requests \ {r}
          BY <3>1, <4>2, <5>1
        <5> QED BY <1>5, <5>2, <5>3
      <4> QED BY <4>1, <4>2
    <3> QED BY <1>1, <1>4, <3>1, <3>2, <3>3, <3>4
  <2> QED BY <1>1, <2>1, <2>2, <2>3 DEF LinksHaveAuthors
<1>9. EventsStand'
  BY <1>1 DEF HistoryInv, EventsStand, TablesInv, TypeOK
<1>10. FinitelyMany'
  BY <1>1, FinitelyManyStay DEF HistoryInv
<1>11. ASSUME NEW q \in Requests PROVE Attempts(q)'
  BY <1>1, <1>2, <1>3 DEF HistoryInv, Attempts, Violates, NumberTaken, NumbersOf
<1>12. Loading(r)'
  <2> SUFFICES ASSUME label \in InFlight
      PROVE  /\ \A p \in seen'[r] : pc'[p[1]] = "done" /\ op'[p[1]].org = operation.org
                                    /\ alerts[p[1]] # Null
             /\ operation.kind \in {"promote", "merge", "deleteAlert"} =>
                  \A a \in operation.ids : \E p \in seen'[r] : p[1] = a
             /\ operation.kind = "ingest" /\ seen'[r] = {} =>
                  \A a \in AlertsOf(operation.org) : alerts[a].ref # operation.ref
    BY <1>1, <1>3 DEF Loading, AlertsOf
  <2>1. ASSUME NEW a \in loaded
        PROVE  pc'[a] = "done" /\ op'[a].org = operation.org /\ alerts[a] # Null /\ a # r
    BY <1>1, <1>2 DEF AlertsOf, TablesInv, Fresh, HistoryInv, RowsOfRequests
  <2>2. \A p \in seen'[r] : p[1] \in loaded
    BY <1>1
  <2>3. ASSUME NEW a \in loaded PROVE \E p \in seen'[r] : p[1] = a
    <3>1. <<a, alerts[a].status>> \in seen'[r]
      BY <1>1
    <3> QED BY <3>1
  <2> QED BY <2>1, <2>2, <2>3
<1>13. ASSUME NEW q \in Requests \ {r} PROVE Loading(q)'
  <2> SUFFICES ASSUME pc[q] \in InFlight
      PROVE  /\ \A p \in seen[q] :
                  /\ pc'[p[1]] = "done" /\ op'[p[1]].org = op[q].org
                  /\ alerts[p[1]] = Null => \E s \in Requests :
                       pc'[s] = "done" /\ Overlap(q, s)' /\ op'[s].org = op[q].org
             /\ op[q].kind \in {"promote", "merge", "deleteAlert"} =>
                  \A a \in op[q].ids : \E p \in seen[q] : p[1] = a
             /\ op[q].kind = "ingest" /\ seen[q] = {} =>
                  \A a \in AlertsOf(op[q].org) : alerts[a].ref = op[q].ref => Overlap(q, a)'
             /\ pc[q] = "insert" =>
                  \A c \in Requests : cases[c] # Null /\ cases[c].org = op[q].org
                                        /\ cases[c].number >= number[q] => Overlap(q, c)'
    BY <1>1 DEF Loading, AlertsOf
  <2>1. ASSUME NEW p \in seen[q]
        PROVE  /\ pc'[p[1]] = "done" /\ op'[p[1]].org = op[q].org
               /\ alerts[p[1]] = Null => \E s \in Requests :
                    pc'[s] = "done" /\ Overlap(q, s)' /\ op'[s].org = op[q].org
    <3>1. /\ p[1] \in Requests /\ pc[p[1]] = "done" /\ op[p[1]].org = op[q].org
          /\ alerts[p[1]] = Null => \E s \in Requests :
               pc[s] = "done" /\ Overlap(q, s) /\ op[s].org = op[q].org
      BY <2>1 DEF HistoryInv, Loading, TablesInv, TypeOK
    <3> QED BY <1>1, <1>4, <1>5, <3>1
  <2>2. \A a \in AlertsOf(op[q].org) : a # r
    BY <1>2 DEF AlertsOf
  <2> QED BY <1>2, <1>5, <2>1, <2>2 DEF HistoryInv, Loading, AlertsOf
<1> QED
  BY <1>6, <1>7, <1>8, <1>9, <1>10, <1>11, <1>12, <1>13 DEF HistoryInv

LEMMA CommitHistory ==
  ASSUME TablesInv, HistoryInv, NEW r \in Requests, NEW types, Fits(r, types)
  PROVE  HistoryInv'
<1>1. /\ pc[r] \in InFlight /\ pc'[r] = "done"
      /\ \A q \in Requests \ {r} : pc'[q] = pc[q]
      /\ UNCHANGED <<op, number, tries, seen, met, first>>
      /\ events' = events \cup {[by |-> r, type |-> t] : t \in types}
  BY DEF Fits, Commit, GoTo, AuditAndEmit, locals, TablesInv, TypeOK
<1>2. cases[r] = Null /\ alerts[r] = Null /\ op[r] # Null
  BY <1>1, OpTyped, NullAssumption
<1>3. \A q, s : Overlap(q, s)' = Overlap(q, s)
  BY <1>1 DEF Overlap
<1>4. /\ \A q \in Requests : pc'[q] = "done" <=> pc[q] = "done" \/ q = r
      /\ \A q \in Requests : pc'[q] \in InFlight <=> pc[q] \in InFlight /\ q # r
      /\ Linkers' = Linkers /\ pc[r] # "done" /\ pc[r] # "idle"
  BY <1>1 DEF InFlight, Linkers
<1>5. RowsOfRequests'
  BY <1>1 DEF Fits, KeepsCases, KeepsAlerts, HistoryInv, RowsOfRequests
<1>6. Meeting'
  BY <1>3, <1>4 DEF HistoryInv, Meeting, Active
<1>7. LinksHaveAuthors'
  <2>1. ASSUME NEW a \in Requests, alerts'[a] # Null, alerts'[a].case # Null
        PROVE  \E q \in Linkers : /\ pc'[q] = "done" /\ a \in op[q].ids
                                  /\ op[q].kind = "promote" => alerts'[a].case = q
    <3>1. a # r
      BY <2>1 DEF Fits, KeepsAlerts
    <3>2. CASE alerts'[a].case = alerts[a].case
      <4>1. alerts[a] # Null /\ alerts[a].case # Null
        BY <2>1, <3>1, <3>2 DEF Fits, KeepsAlerts
      <4>2. PICK q \in Linkers : /\ pc[q] = "done" /\ a \in op[q].ids
                                 /\ op[q].kind = "promote" => alerts[a].case = q
        BY <4>1 DEF HistoryInv, LinksHaveAuthors
      <4> QED BY <1>4, <3>2, <4>2 DEF Linkers
    <3>3. CASE alerts'[a].case # alerts[a].case
      BY <1>1, <2>1, <3>1, <3>3 DEF Fits, KeepsAlerts
    <3> QED BY <3>2, <3>3
  <2>2. ASSUME NEW s \in Linkers, pc'[s] = "done", NEW a \in op[s].ids
        PROVE  pc'[a] = "done" /\ (alerts'[a] # Null => alerts'[a].case # Null)
    <3>1. s \in Requests /\ a \in Requests /\ op[s].kind \in {"promote", "merge"}
      BY <2>2, LinkerTyped DEF TablesInv
    <3>2. CASE s = r
      <4>1. pc[a] = "done"
        BY <1>1, <3>1, <3>2 DEF TablesInv, Linking
      <4> QED BY <1>4, <3>1, <3>2, <4>1 DEF Fits, KeepsAlerts
    <3>3. CASE s # r
      <4>1. pc[s] = "done"
        BY <1>4, <2>2, <3>1, <3>3
      <4>2. pc[a] = "done" /\ (alerts[a] # Null => alerts[a].case # Null)
        BY <2>2, <4>1 DEF HistoryInv, LinksHaveAuthors
      <4> QED BY <1>4, <3>1, <4>2 DEF Fits, KeepsAlerts
    <3> QED BY <3>2, <3>3
  <2>3. ASSUME NEW s \in Linkers, pc'[s] = "done", NEW q \in Linkers, q # s,
               pc'[q] \in InFlight \cup {"done"}, op[s].ids \cap op[q].ids # {}
        PROVE  Overlap(s, q)
    <3>1. s \in Requests /\ q \in Requests /\ op[q].ids \cap op[s].ids # {}
      BY <2>3 DEF Linkers
    <3>5. pc[s] \in InFlight \cup {"done"} /\ pc[q] \in InFlight \cup {"done"}
      BY <1>1, <1>4, <2>3, <3>1
    <3>2. CASE pc[s] = "done"
      BY <2>3, <3>2, <3>5 DEF HistoryInv, LinksHaveAuthors
    <3>3. CASE pc[q] = "done"
      <4>1. Overlap(q, s)
        BY <2>3, <3>1, <3>3, <3>5 DEF HistoryInv, LinksHaveAuthors
      <4> QED BY <4>1 DEF Overlap
    <3>4. CASE pc[s] # "done" /\ pc[q] # "done"
      BY <2>3, <3>1, <3>4, <3>5 DEF HistoryInv, Meeting, Active
    <3> QED BY <3>2, <3>3, <3>4
  <2> QED BY <1>1, <1>3, <1>4, <2>1, <2>2, <2>3 DEF LinksHaveAuthors
<1>8. EventsStand'
  <2> SUFFICES ASSUME NEW e \in events'
               PROVE  /\ pc'[e.by] = "done"
                      /\ e.type = "case.deleted" =>
                           op[e.by].case \in Requests /\ cases'[op[e.by].case] # Null
    BY <1>1 DEF EventsStand
  <2>1. CASE e \in events
    BY <1>2, <1>4, <2>1 DEF HistoryInv, EventsStand, TablesInv, TypeOK, Fits, KeepsCases
  <2>2. CASE e \in {[by |-> r, type |-> t] : t \in types}
    BY <1>1, <1>2, <2>2 DEF Fits, Emits, KeepsCases
  <2> QED BY <1>1, <2>1, <2>2
<1>9. FinitelyMany'
  BY <1>1, FinitelyManyStay DEF HistoryInv
<1>10. ASSUME NEW q \in Requests PROVE Attempts(q)'
  <2>1. \A o : NumbersOf(o) \subseteq NumbersOf(o)'
    BY <1>2 DEF NumbersOf, Fits, KeepsCases
  <2> QED BY <1>1, <1>4, <2>1 DEF HistoryInv, Attempts, Violates, NumberTaken
<1>11. ASSUME NEW q \in Requests PROVE Loading(q)'
  <2> SUFFICES ASSUME pc[q] \in InFlight, q # r
      PROVE  /\ \A p \in seen[q] :
                  /\ pc'[p[1]] = "done" /\ op[p[1]].org = op[q].org
                  /\ alerts'[p[1]] = Null => \E s \in Requests :
                       pc'[s] = "done" /\ Overlap(q, s) /\ op[s].org = op[q].org
             /\ op[q].kind \in {"promote", "merge", "deleteAlert"} =>
                  \A a \in op[q].ids : \E p \in seen[q] : p[1] = a
             /\ op[q].kind = "ingest" /\ seen[q] = {} =>
                  \A a \in AlertsOf(op[q].org)' : alerts'[a].ref = op[q].ref => Overlap(q, a)
             /\ pc[q] = "insert" =>
                  \A c \in Requests : cases'[c] # Null /\ cases'[c].org = op[q].org
                                        /\ cases'[c].number >= number[q] => Overlap(q, c)
    BY <1>1, <1>3, <1>4 DEF Loading
  <2>1. Overlap(q, r)
    BY <1>1 DEF HistoryInv, Meeting, Active
  <2>2. ASSUME NEW p \in seen[q]
        PROVE  /\ pc'[p[1]] = "done" /\ op[p[1]].org = op[q].org
               /\ alerts'[p[1]] = Null => \E s \in Requests :
                    pc'[s] = "done" /\ Overlap(q, s) /\ op[s].org = op[q].org
    <3>1. /\ p[1] \in Requests /\ pc[p[1]] = "done" /\ op[p[1]].org = op[q].org
          /\ alerts[p[1]] = Null => \E s \in Requests :
               pc[s] = "done" /\ Overlap(q, s) /\ op[s].org = op[q].org
      BY <2>2 DEF HistoryInv, Loading, TablesInv, TypeOK
    <3>2. CASE alerts[p[1]] # Null /\ alerts'[p[1]] = Null
      <4>1. op[r].kind = "deleteAlert" /\ p[1] \in op[r].ids
        BY <3>1, <3>2 DEF Fits, KeepsAlerts
      <4>2. op[p[1]].org = op[r].org
        BY <1>1, <4>1 DEF HistoryInv, Loading
      <4> QED BY <1>4, <2>1, <3>1, <4>2
    <3> QED BY <1>4, <3>1, <3>2
  <2>3. ASSUME op[q].kind = "ingest", seen[q] = {}, NEW a \in AlertsOf(op[q].org)',
               alerts'[a].ref = op[q].ref
        PROVE  Overlap(q, a)
    <3>1. a \in Requests /\ alerts'[a] # Null /\ alerts'[a].org = op[q].org
      BY <1>1, <2>3 DEF AlertsOf
    <3>2. CASE a # r
      <4>1. a \in AlertsOf(op[q].org) /\ alerts[a].ref = op[q].ref
        BY <2>3, <3>1, <3>2 DEF AlertsOf, Fits, KeepsAlerts
      <4> QED BY <2>3, <4>1 DEF HistoryInv, Loading
    <3> QED BY <2>1, <3>2
  <2>4. ASSUME pc[q] = "insert", NEW c \in Requests, cases'[c] # Null,
               cases'[c].org = op[q].org, cases'[c].number >= number[q]
        PROVE  Overlap(q, c)
    <3>1. CASE c # r
      BY <2>4, <3>1 DEF Fits, KeepsCases, HistoryInv, Loading
    <3> QED BY <2>1, <3>1
  <2>5. op[q].kind \in {"promote", "merge", "deleteAlert"} =>
          \A a \in op[q].ids : \E p \in seen[q] : p[1] = a
    BY DEF HistoryInv, Loading
  <2> QED BY <2>2, <2>3, <2>4, <2>5
<1> QED
  BY <1>5, <1>6, <1>7, <1>8, <1>9, <1>10, <1>11 DEF HistoryInv

-----------------------------------------------------------------------------
(* Every step is a call, goes on, or commits.                              *)
LEMMA CallHistory ==
  ASSUME TablesInv, HistoryInv, NEW r \in Requests, Call(r) PROVE HistoryInv'
<1> USE DEF AlertsOf
<1> PICK o \in Orgs :
      \/ \E b \in Bodies : CreateBegin(r, o, b)
      \/ \E k \in Refs, b \in {"fits", "unfit"} : IngestLoad(r, o, k, b)
      \/ \E a \in {x \in Requests : alerts[x] # Null} :
           \/ \E b \in {"fits", "unfit"} : PromoteLoad(r, o, a, b)
           \/ DeleteAlertLoad(r, o, a)
           \/ \E s \in AlertStatus, b \in {"fits", "unfit"} : PatchAlertLoad(r, o, a, s, b)
           \/ \E c \in {x \in Requests : cases[x] # Null} : MergeLoad(r, o, a, c)
      \/ \E ids \in SUBSET {x \in Requests : alerts[x] # Null}, s \in AlertStatus,
           b \in {"fits", "unfit"} : ids # {} /\ BulkPatchLoad(r, o, ids, s, b)
      \/ \E c \in {x \in Requests : cases[x] # Null} : DeleteCaseLoad(r, o, c)
  BY Zenon DEF Call
<1>1. ASSUME NEW b \in Bodies, CreateBegin(r, o, b) PROVE HistoryInv'
  BY <1>1, BeginHistory DEF CreateBegin, Operation, Bodies, Kinds, AlertStatus, InFlight
<1>2. ASSUME NEW k \in Refs, NEW b \in {"fits", "unfit"}, IngestLoad(r, o, k, b) PROVE HistoryInv'
  BY <1>2, BeginHistory DEF IngestLoad, Operation, Bodies, Kinds, AlertStatus, InFlight
<1>3. ASSUME NEW a \in Requests, NEW b \in {"fits", "unfit"}, PromoteLoad(r, o, a, b)
      PROVE  HistoryInv'
  BY <1>3, BeginHistory DEF PromoteLoad, LinkEntry, Operation, Bodies, Kinds, AlertStatus, InFlight
<1>4. ASSUME NEW a \in Requests, DeleteAlertLoad(r, o, a) PROVE HistoryInv'
  BY <1>4, BeginHistory DEF DeleteAlertLoad, Operation, Bodies, Kinds, AlertStatus, InFlight
<1>5. ASSUME NEW a \in Requests, NEW s \in AlertStatus, NEW b \in {"fits", "unfit"},
             PatchAlertLoad(r, o, a, s, b)
      PROVE  HistoryInv'
  BY <1>5, BeginHistory DEF PatchAlertLoad, Operation, Bodies, Kinds, AlertStatus, InFlight
<1>6. ASSUME NEW a \in Requests, NEW c \in Requests, MergeLoad(r, o, a, c) PROVE HistoryInv'
  BY <1>6, BeginHistory DEF MergeLoad, LinkEntry, Operation, Bodies, Kinds, AlertStatus, InFlight
<1>7. ASSUME NEW ids \in SUBSET Requests, NEW s \in AlertStatus, NEW b \in {"fits", "unfit"},
             BulkPatchLoad(r, o, ids, s, b)
      PROVE  HistoryInv'
  BY <1>7, BeginHistory DEF BulkPatchLoad, Operation, Bodies, Kinds, AlertStatus, InFlight
<1>8. ASSUME NEW c \in Requests, DeleteCaseLoad(r, o, c) PROVE HistoryInv'
  BY <1>8, BeginHistory DEF DeleteCaseLoad, Operation, Bodies, Kinds, AlertStatus, InFlight
<1> QED
  BY <1>1, <1>2, <1>3, <1>4, <1>5, <1>6, <1>7, <1>8

(* Whose row refuses a number or a key, and who deleted an alert.          *)
LEMMA NumberRival ==
  ASSUME TablesInv, HistoryInv, NEW r \in Requests, pc[r] = "insert", NumberTaken(r)
  PROVE  HasRival(r)
<1>1. PICK c \in Requests : cases[c] # Null /\ cases[c].org = op[r].org
                            /\ cases[c].number = number[r]
  BY DEF NumberTaken, NumbersOf
<1>2. Overlap(r, c)
  BY <1>1 DEF HistoryInv, Loading, InFlight, TablesInv, TypeOK
<1>3. pc[c] = "done" /\ op[c].org = op[r].org
  BY <1>1 DEF TablesInv, Fresh, HistoryInv, RowsOfRequests
<1> QED BY <1>2, <1>3 DEF HasRival

LEMMA KeyRival ==
  ASSUME TablesInv, HistoryInv, NEW r \in Requests, pc[r] \in InFlight,
         op[r].kind = "ingest", seen[r] = {}, KeyTaken(r)
  PROVE  HasRival(r)
<1>1. PICK a \in AlertsOf(op[r].org) : alerts[a].ref = op[r].ref
  BY DEF KeyTaken
<1>2. a \in Requests /\ pc[a] = "done" /\ op[a].org = op[r].org
  BY <1>1 DEF AlertsOf, TablesInv, Fresh, HistoryInv, RowsOfRequests
<1>3. Overlap(r, a)
  BY <1>1 DEF HistoryInv, Loading
<1> QED BY <1>2, <1>3 DEF HasRival

LEMMA AlertRival ==
  ASSUME HistoryInv, NEW r \in Requests, pc[r] \in InFlight,
         NEW p \in seen[r], alerts[p[1]] = Null
  PROVE  HasRival(r)
BY DEF HistoryInv, Loading, HasRival

LEMMA GoneRival ==
  ASSUME HistoryInv, NEW r \in Requests, pc[r] \in InFlight,
         op[r].kind \in {"promote", "merge"}, AlertGone(r)
  PROVE  HasRival(r)
<1>1. PICK a \in op[r].ids : alerts[a] = Null
  BY DEF AlertGone
<1>2. PICK p \in seen[r] : p[1] = a
  BY DEF HistoryInv, Loading
<1> QED BY <1>1, <1>2, AlertRival

(* The steps that do not commit.                                           *)
LEMMA FailTries ==
  ASSUME TablesInv, HistoryInv, NEW r \in Requests, pc[r] \in InFlight,
         NEW ending \in (Endings \ {"done"}) \cup {"number"}, Fail(r, ending),
         ending \in {"number", "exhausted"} => pc[r] = "insert" /\ Violates(r),
         ending = "exhausted" => ~MayRetry(r),
         ending \in {"clash", "exhausted", "stale", "unfit"} /\ op[r].body = "fits" => HasRival(r)
  PROVE  Tries(r)
<1> USE DEF Fail, GoTo, tables, locals
<1>1. Onward(r)
  BY DEF Onward, Acts, TablesInv, TypeOK, InFlight
<1>2. pc'[r] = ending /\ ending \notin {"idle", "insert"}
  BY DEF TablesInv, TypeOK, Endings
<1>3. \A o : NumbersOf(o)' = NumbersOf(o)
  BY DEF NumbersOf
<1>4. /\ tries[r] \in 0..MaxAttempts
      /\ ending = "exhausted" => tries[r] = MaxAttempts
  BY AttemptsAssumption DEF MayRetry, TablesInv, TypeOK
<1>5. Attempts(r)'
  BY <1>2, <1>3, <1>4 DEF HistoryInv, Attempts, Violates, NumberTaken
<1> QED
  BY <1>1, <1>2, <1>5 DEF Tries

LEMMA NumberTries ==
  ASSUME TablesInv, HistoryInv, NEW r \in Requests, NextNumber(r) PROVE Tries(r)
<1> USE DEF NextNumber, GoTo
<1> DEFINE Numbers == NumbersOf(op[r].org)
<1>1. PICK m \in {0} \cup Numbers :
        /\ IsLastNumber(m, op[r].org)
        /\ number' = [number EXCEPT ![r] = m + 1]
        /\ first' = [first EXCEPT ![r] = IF @ = 0 THEN m + 1 ELSE @]
  OBVIOUS
<1>2. Numbers \subseteq Nat /\ \A n \in Numbers : n <= m
  BY <1>1 DEF NumbersOf, TablesInv, TypeOK, CaseRow, IsLastNumber
<1>3. Onward(r)
  BY <1>1 DEF Onward, Acts, TablesInv, TypeOK, InFlight, tables
<1>4. /\ pc'[r] = "insert" /\ number'[r] = m + 1 /\ tries'[r] = tries[r] + 1
      /\ first'[r] = IF first[r] = 0 THEN m + 1 ELSE first[r]
      /\ m \in Nat /\ tries[r] \in Nat /\ first[r] \in Nat /\ number[r] \in Nat
  BY <1>1, <1>2 DEF TablesInv, TypeOK
<1>5. Attempts(r)'
  <2>1. tries[r] # 0 =>
          /\ first[r] > 0
          /\ op[r].body # "dangling" => number[r] <= m /\ number[r] + 1 >= first[r] + tries[r]
    BY <1>2, <1>4 DEF HistoryInv, Attempts, Violates, NumberTaken
  <2>2. tries[r] = 0 => first[r] = 0
    BY DEF HistoryInv, Attempts
  <2>3. /\ first'[r] > 0 /\ tries'[r] > 0
        /\ op[r].body # "dangling" => number'[r] + 1 >= first'[r] + tries'[r]
    BY <1>4, <2>1, <2>2
  <2> QED BY <1>4, <2>3 DEF Attempts, NextNumber
<1>6. \A c \in Requests : cases[c] # Null /\ cases[c].org = op[r].org =>
        ~ (cases[c].number >= number'[r])
  <2> SUFFICES ASSUME NEW c \in Requests, cases[c] # Null, cases[c].org = op[r].org
      PROVE  ~ (cases[c].number >= number'[r])
    OBVIOUS
  <2>1. cases[c].number \in Numbers
    BY DEF NumbersOf
  <2> QED BY <1>2, <1>4, <2>1
<1> QED
  BY <1>3, <1>4, <1>5, <1>6 DEF Tries

LEMMA FindCaseTries ==
  ASSUME TablesInv, HistoryInv, NEW r \in Requests, MergeFindCase(r) PROVE Tries(r)
<1>1. Onward(r) /\ pc'[r] \in {"write", "notFound"}
  BY DEF MergeFindCase, GoTo, tables, locals, Onward, Acts, TablesInv, TypeOK, InFlight, Endings
<1> QED
  BY <1>1 DEF Tries, Attempts

(* The steps that commit.                                                  *)
Explained(r) == Tries(r) \/ \E types : Fits(r, types)

LEMMA CasesStay ==
  ASSUME TablesInv, NEW r \in Requests, pc[r] \in InFlight, UNCHANGED cases
  PROVE  KeepsCases(r) /\ cases'[r] = Null
BY OpTyped DEF KeepsCases

LEMMA AlertsStay ==
  ASSUME TablesInv, NEW r \in Requests, pc[r] \in InFlight, r \notin Linkers,
         alerts'[r] = Null,
         \A a \in Requests : alerts'[a] # Null =>
           /\ alerts[a] # Null /\ alerts'[a].org = alerts[a].org
           /\ alerts'[a].ref = alerts[a].ref /\ alerts'[a].case = alerts[a].case,
         \A a \in Requests : alerts[a] # Null /\ alerts'[a] = Null =>
           op[r].kind = "deleteAlert" /\ a \in op[r].ids
  PROVE  KeepsAlerts(r)
BY DEF KeepsAlerts

(* A row whose status is set keeps its other columns.                      *)
LEMMA StatusRow ==
  ASSUME TablesInv, NEW a \in Requests, alerts[a] # Null, NEW s
  PROVE  /\ [alerts[a] EXCEPT !.status = s].org = alerts[a].org
         /\ [alerts[a] EXCEPT !.status = s].ref = alerts[a].ref
         /\ [alerts[a] EXCEPT !.status = s].case = alerts[a].case
         /\ s \in AlertStatus => [alerts[a] EXCEPT !.status = s] # Null
BY NullAssumption DEF TablesInv, TypeOK, AlertRow

(* A commit that leaves the case table alone.                              *)
LEMMA AlertsFit ==
  ASSUME TablesInv, NEW r \in Requests, pc[r] \in InFlight,
         NEW types \in SUBSET {"alert.ingested", "alert.bulk_updated"}, Commit(r, types),
         alerts'[r] # Null => "alert.ingested" \in types, UNCHANGED cases, KeepsAlerts(r)
  PROVE  Explained(r)
<1>1. Emits(r, types)
  BY CasesStay DEF Emits, EventTypes
<1> QED
  BY <1>1, CasesStay DEF Fits, Explained

LEMMA WriteStatusFits ==
  ASSUME TablesInv, HistoryInv, NEW r \in Requests, pc[r] \in InFlight, r \notin Linkers,
         NEW changed \in SUBSET Requests, \A a \in changed : \E p \in seen[r] : p[1] = a,
         op[r].status \in AlertStatus,
         NEW types \in SUBSET {"alert.bulk_updated"}, WriteStatus(r, changed, types)
  PROVE  Explained(r)
<1>1. CASE (\E a \in changed : alerts[a] = Null) /\ Fail(r, "stale")
  <2>1. HasRival(r)
    BY <1>1, AlertRival
  <2> QED
    BY <1>1, <2>1, FailTries DEF Endings, Explained
<1>2. CASE /\ \A a \in changed : alerts[a] # Null
           /\ alerts' = [a \in Requests |->
                           IF a \in changed THEN [alerts[a] EXCEPT !.status = op[r].status]
                                            ELSE alerts[a]]
           /\ UNCHANGED cases
           /\ Commit(r, types)
  <2>1. \A a \in changed : /\ [alerts[a] EXCEPT !.status = op[r].status].org = alerts[a].org
                           /\ [alerts[a] EXCEPT !.status = op[r].status].ref = alerts[a].ref
                           /\ [alerts[a] EXCEPT !.status = op[r].status].case = alerts[a].case
                           /\ [alerts[a] EXCEPT !.status = op[r].status] # Null
    BY <1>2, StatusRow
  <2>2. alerts'[r] = Null /\ r \notin changed
    BY <1>2, OpTyped
  <2>3. \A a \in Requests : alerts'[a] # Null =>
           /\ alerts[a] # Null /\ alerts'[a].org = alerts[a].org
           /\ alerts'[a].ref = alerts[a].ref /\ alerts'[a].case = alerts[a].case
    BY <1>2, <2>1
  <2>4. \A a \in Requests : alerts[a] # Null => alerts'[a] # Null
    BY <1>2, <2>1
  <2>5. KeepsAlerts(r)
    BY <2>2, <2>3, <2>4, AlertsStay
  <2> QED
    BY <1>2, <2>2, <2>5, AlertsFit
<1> QED
  BY <1>1, <1>2 DEF WriteStatus

LEMMA PatchFits ==
  ASSUME TablesInv, HistoryInv, NEW r \in Requests, PatchAlertWrite(r) \/ BulkPatchWrite(r)
  PROVE  Explained(r)
<1>1. pc[r] \in InFlight /\ r \notin Linkers /\ op[r].status \in AlertStatus
  BY DEF PatchAlertWrite, BulkPatchWrite, InFlight, Linkers, TablesInv, Linking
<1>2. Dirty(r, op[r].status) \subseteq Requests
  BY DEF Dirty, TablesInv, TypeOK
<1>3. \A a \in Dirty(r, op[r].status) : \E p \in seen[r] : p[1] = a
  BY DEF Dirty
<1> QED
  BY <1>1, <1>2, <1>3, WriteStatusFits DEF PatchAlertWrite, BulkPatchWrite

LEMMA DeleteAlertFits ==
  ASSUME TablesInv, HistoryInv, NEW r \in Requests, DeleteAlertWrite(r) PROVE Explained(r)
<1>1. pc[r] \in InFlight /\ r \notin Linkers
  BY DEF DeleteAlertWrite, InFlight, Linkers
<1>2. KeepsAlerts(r) /\ alerts'[r] = Null
  BY <1>1, AlertsStay, OpTyped DEF DeleteAlertWrite
<1> QED
  BY <1>1, <1>2, AlertsFit DEF DeleteAlertWrite

LEMMA IngestUpdateFits ==
  ASSUME TablesInv, HistoryInv, NEW r \in Requests, IngestUpdate(r) PROVE Explained(r)
<1>1. pc[r] \in InFlight /\ r \notin Linkers
  BY DEF IngestUpdate, InFlight, Linkers
<1>2. CASE (\E p \in seen[r] : alerts[p[1]] = Null) /\ Fail(r, "stale")
  <2>1. HasRival(r)
    BY <1>1, <1>2, AlertRival
  <2> QED
    BY <1>1, <1>2, <2>1, FailTries DEF Endings, Explained
<1>3. CASE /\ \A p \in seen[r] : alerts[p[1]] # Null
           /\ alerts' = [a \in Requests |-> IF a \in Flipped(r) THEN Refreshed(a) ELSE alerts[a]]
           /\ UNCHANGED cases
           /\ Commit(r, {})
  <2>1. \A a \in Flipped(r) : a \in Requests /\ alerts[a] # Null
    BY <1>3 DEF Flipped, TablesInv, TypeOK
  <2>2. \A a \in Flipped(r) : /\ Refreshed(a).org = alerts[a].org
                              /\ Refreshed(a).ref = alerts[a].ref
                              /\ Refreshed(a).case = alerts[a].case
                              /\ Refreshed(a) # Null
    BY <2>1, StatusRow DEF Refreshed, AlertStatus
  <2>3. alerts'[r] = Null
    BY <1>1, <1>3, <2>1, OpTyped
  <2>4. KeepsAlerts(r)
    BY <1>1, <1>3, <2>1, <2>2, <2>3, AlertsStay
  <2> QED
    BY <1>1, <1>3, <2>3, <2>4, AlertsFit
<1> QED
  BY <1>2, <1>3 DEF IngestUpdate

LEMMA IngestInsertFits ==
  ASSUME TablesInv, HistoryInv, NEW r \in Requests, IngestInsert(r) PROVE Explained(r)
<1>1. /\ pc[r] \in InFlight /\ r \notin Linkers /\ op[r].kind = "ingest" /\ seen[r] = {}
  BY DEF IngestInsert, InFlight, Linkers
<1>2. CASE KeyTaken(r) /\ Fail(r, "clash")
  <2>1. HasRival(r)
    BY <1>1, <1>2, KeyRival
  <2> QED
    BY <1>1, <1>2, <2>1, FailTries DEF Endings, Explained
<1> DEFINE row == [org |-> op[r].org, ref |-> op[r].ref, status |-> "New", case |-> Null]
<1>3. CASE /\ ~KeyTaken(r) /\ alerts' = [alerts EXCEPT ![r] = row]
           /\ UNCHANGED cases
           /\ Commit(r, {"alert.ingested"})
  <2>1. alerts'[r] = row /\ \A a \in Requests \ {r} : alerts'[a] = alerts[a]
    BY <1>3 DEF TablesInv, TypeOK
  <2>2. row.org = op[r].org /\ row.ref = op[r].ref /\ row.case = Null
    OBVIOUS
  <2>3. alerts[r] = Null
    BY <1>1, OpTyped
  <2> HIDE DEF row
  <2>4. KeepsAlerts(r)
    BY <1>1, <1>3, <2>1, <2>2, <2>3 DEF KeepsAlerts
  <2> QED
    BY <1>1, <1>3, <2>4, AlertsFit
<1> QED
  BY <1>1, <1>2, <1>3 DEF IngestInsert

LEMMA CreateInsertFits ==
  ASSUME TablesInv, HistoryInv, NEW r \in Requests, CreateInsert(r) PROVE Explained(r)
<1>1. pc[r] \in InFlight /\ pc[r] = "insert" /\ r \notin Linkers
  BY DEF CreateInsert, InFlight, Linkers
<1>2. CASE Violates(r) /\ (Fail(r, "number") \/ (~MayRetry(r) /\ Fail(r, "exhausted")))
  BY <1>1, <1>2, NumberRival, FailTries DEF Violates, Endings, Explained
<1>3. CASE ~Violates(r) /\ cases' = NewCase(r) /\ UNCHANGED alerts
           /\ Commit(r, {"case.created"})
  <2>1. KeepsCases(r) /\ cases'[r] # Null /\ \A c \in Requests \ {r} : cases'[c] = cases[c]
    BY <1>1, <1>3, NewCaseTyped DEF KeepsCases
  <2>2. KeepsAlerts(r) /\ alerts'[r] = Null
    BY <1>1, <1>3, OpTyped, AlertsStay
  <2>3. ~cases'[r].deleted
    BY <1>3 DEF NewCase, TablesInv, TypeOK
  <2>4. Emits(r, {"case.created"})
    BY <2>1, <2>2, <2>3 DEF Emits, EventTypes
  <2> QED
    BY <1>1, <1>3, <2>1, <2>2, <2>4 DEF Fits, Explained
<1> QED
  BY <1>2, <1>3 DEF CreateInsert

LEMMA DeleteCaseFits ==
  ASSUME TablesInv, HistoryInv, NEW r \in Requests, DeleteCaseWrite(r) PROVE Explained(r)
<1> DEFINE c == op[r].case
<1>1. pc[r] \in InFlight /\ r \notin Linkers /\ c \in Requests /\ cases[c] # Null /\ UNCHANGED alerts
  BY DEF DeleteCaseWrite, InFlight, Linkers, TablesInv, Linking
<1>2. cases[r] = Null /\ cases[c] \in CaseRow /\ c # r
  BY <1>1, OpTyped DEF TablesInv, TypeOK
<1>3. cases' = [cases EXCEPT ![c] = [cases[c] EXCEPT !.deleted = TRUE]]
  BY DEF DeleteCaseWrite, WithDeleted
<1> DEFINE row == [cases[c] EXCEPT !.deleted = TRUE]
<1>4. row \in CaseRow /\ row.deleted /\ row.org = cases[c].org /\ row.number = cases[c].number
  BY <1>2 DEF CaseRow
<1>5. cases'[c] = row /\ \A d \in Requests \ {c} : cases'[d] = cases[d]
  BY <1>1, <1>3 DEF TablesInv, TypeOK
<1> HIDE DEF row
<1>6. KeepsCases(r) /\ cases'[r] = Null
  BY <1>1, <1>2, <1>4, <1>5, NullAssumption DEF KeepsCases
<1>7. KeepsAlerts(r) /\ alerts'[r] = Null
  BY <1>1, OpTyped, AlertsStay
<1>8. Emits(r, {"case.deleted"})
  BY <1>1, <1>2, <1>4, <1>5, <1>6, <1>7 DEF Emits, EventTypes
<1> QED
  BY <1>1, <1>6, <1>7, <1>8 DEF Fits, Explained, DeleteCaseWrite

(* The row of a linked alert keeps its key.                                *)
LEMMA LinkedKeeps ==
  ASSUME TablesInv, HistoryInv, NEW r \in Requests, pc[r] \in InFlight,
         op[r].kind \in {"promote", "merge"}, ~AlertGone(r),
         NEW c \in Requests, alerts' = Linked(r, c), op[r].kind = "promote" => c = r
  PROVE  KeepsAlerts(r) /\ alerts'[r] = Null
<1>1. r \in Linkers /\ op[r].ids \subseteq Requests /\ r \notin op[r].ids
  BY OpTyped, NullAssumption DEF Linkers, AlertGone
<1>2. alerts[r] = Null /\ alerts'[r] = Null
  BY <1>1, OpTyped DEF Linked
<1>3. ASSUME NEW a \in op[r].ids
      PROVE  /\ alerts[a] # Null /\ alerts'[a].org = alerts[a].org
             /\ alerts'[a].ref = alerts[a].ref /\ alerts'[a].case = c
             /\ alerts'[a] # Null
  <2>1. a \in Requests /\ alerts[a] \in AlertRow
    BY <1>1 DEF TablesInv, TypeOK, AlertGone
  <2> DEFINE new == [alerts[a] EXCEPT !.case = c,
             !.status = IF a \in Dirty(r, "Imported") THEN "Imported" ELSE @]
  <2>2. new \in AlertRow /\ new.org = alerts[a].org /\ new.ref = alerts[a].ref /\ new.case = c
    BY <2>1 DEF AlertRow, AlertStatus
  <2>3. alerts'[a] = new
    BY <2>1 DEF Linked
  <2> HIDE DEF new
  <2> QED BY <2>1, <2>2, <2>3, NullAssumption
<1>4. \A a \in Requests \ op[r].ids : alerts'[a] = alerts[a]
  BY DEF Linked
<1>5. c # Null
  BY NullAssumption
<1> QED
  BY <1>1, <1>2, <1>3, <1>4, <1>5 DEF KeepsAlerts

LEMMA PromoteFits ==
  ASSUME TablesInv, HistoryInv, NEW r \in Requests, PromoteWrite(r) PROVE Explained(r)
<1>1. pc[r] \in InFlight /\ pc[r] = "insert" /\ op[r].kind = "promote"
  BY DEF PromoteWrite, InFlight
<1>2. CASE (NumberTaken(r) /\ Fail(r, "clash")) \/ (AlertGone(r) /\ Fail(r, "stale"))
  <2>1. HasRival(r)
    BY <1>1, <1>2, NumberRival, GoneRival
  <2> QED BY <1>1, <1>2, <2>1, FailTries DEF Endings, Explained
<1>3. CASE /\ ~NumberTaken(r) /\ ~AlertGone(r)
           /\ cases' = NewCase(r) /\ alerts' = Linked(r, r)
           /\ Commit(r, {"alert.promoted"})
  <2>1. KeepsCases(r) /\ cases'[r] # Null /\ \A c \in Requests \ {r} : cases'[c] = cases[c]
    BY <1>1, <1>3, NewCaseTyped DEF KeepsCases
  <2>2. KeepsAlerts(r) /\ alerts'[r] = Null
    BY <1>1, <1>3, LinkedKeeps
  <2>3. ~cases'[r].deleted
    BY <1>3 DEF NewCase, TablesInv, TypeOK
  <2>4. Emits(r, {"alert.promoted"})
    BY <2>1, <2>2, <2>3 DEF Emits, EventTypes
  <2> QED
    BY <1>1, <1>3, <2>1, <2>2, <2>4 DEF Fits, Explained
<1> QED
  BY <1>2, <1>3 DEF PromoteWrite

LEMMA MergeFits ==
  ASSUME TablesInv, HistoryInv, NEW r \in Requests, MergeWrite(r) PROVE Explained(r)
<1>1. pc[r] \in InFlight /\ op[r].kind = "merge" /\ op[r].case \in Requests
  BY DEF MergeWrite, InFlight, TablesInv, Linking
<1>2. CASE AlertGone(r) /\ Fail(r, "stale")
  <2>1. HasRival(r)
    BY <1>1, <1>2, GoneRival
  <2> QED BY <1>1, <1>2, <2>1, FailTries DEF Endings, Explained
<1>3. CASE ~AlertGone(r) /\ alerts' = Linked(r, op[r].case) /\ UNCHANGED cases /\ Commit(r, {})
  <2>1. KeepsAlerts(r) /\ alerts'[r] = Null
    BY <1>1, <1>3, LinkedKeeps
  <2> QED BY <1>1, <1>3, <2>1, AlertsFit
<1> QED
  BY <1>2, <1>3 DEF MergeWrite

(* Every step but a call goes on, fails for a reason, or commits.          *)
LEMMA StepExplained ==
  ASSUME IInv, Next
  PROVE  \E r \in Requests : Call(r) \/ Explained(r)
<1>1. TablesInv /\ HistoryInv
  BY DEF IInv
<1>2. PICK r \in Requests :
        \/ Call(r) \/ NextNumber(r) \/ CreateInsert(r) \/ DeleteCaseWrite(r)
        \/ IngestUpdate(r) \/ IngestInsert(r) \/ PatchAlertWrite(r) \/ BulkPatchWrite(r)
        \/ DeleteAlertWrite(r) \/ PromoteWrite(r) \/ MergeFindCase(r) \/ MergeWrite(r)
        \/ RefusedWrite(r) \/ Abort(r)
  BY Zenon DEF Next
<1>3. Abort(r) => Tries(r)
  BY <1>1, FailTries DEF Abort, Endings
<1>4. RefusedWrite(r) => Tries(r)
  BY <1>1, FailTries DEF RefusedWrite, InFlight, Endings
<1> QED
  BY <1>1, <1>2, <1>3, <1>4, NumberTries, FindCaseTries, CreateInsertFits, DeleteCaseFits,
     IngestUpdateFits, IngestInsertFits, PatchFits, DeleteAlertFits, PromoteFits, MergeFits
  DEF Explained

LEMMA InitIInv == Init => IInv
BY InitTables, InitHistory DEF IInv
LEMMA NextIInv == IInv /\ [Next]_vars => IInv'
<1> SUFFICES ASSUME IInv, [Next]_vars PROVE IInv'
  OBVIOUS
<1>1. TablesInv /\ HistoryInv /\ TablesInv'
  BY NextTables DEF IInv
<1>2. CASE UNCHANGED vars
  <2>1. HistoryInv'
    BY <1>1, <1>2 DEF vars, HistoryInv, RowsOfRequests, Meeting, Active, Overlap, LinksHaveAuthors,
       Linkers, EventsStand, FinitelyMany, Loading, AlertsOf, Attempts, Violates, NumberTaken, NumbersOf
  <2> QED BY <1>1, <2>1 DEF IInv
<1>3. CASE Next
  <2>1. PICK r \in Requests : Call(r) \/ Explained(r)
    BY <1>3, StepExplained
  <2>2. HistoryInv'
    BY <1>1, <2>1, CallHistory, OnwardHistory, CommitHistory DEF Explained, TablesInv
  <2> QED BY <1>1, <2>2 DEF IInv
<1> QED
  BY <1>2, <1>3
(* The invariant holds in every reachable state.                           *)
THEOREM Invariance == Spec => []IInv
<1>1. Init => IInv
  BY InitIInv
<1>2. IInv /\ [Next]_vars => IInv'
  BY NextIInv
<1> QED
  BY <1>1, <1>2, PTL DEF Spec

(* Every variable keeps its type: in particular no create_case makes more  *)
(* than MaxAttempts attempts.                                              *)
THEOREM TypeCorrect == Spec => []TypeOK
<1>1. IInv => TypeOK
  BY DEF IInv, TablesInv
<1> QED
  BY <1>1, Invariance, PTL

(* Whatever the interleaving of creates and promotions, the cases of an    *)
(* organization are numbered 1, 2, ..., n.                                 *)
THEOREM NumbersAreDense == Spec => []DenseNumbers
<1>1. IInv => DenseNumbers
  BY DEF IInv, TablesInv, DenseNumbers
<1> QED
  BY <1>1, Invariance, PTL

(* No interleaving links an alert to a case of another organization.       *)
THEOREM LinksStayInTenant == Spec => []TenantLinks
<1>1. IInv => TenantLinks
  BY DEF IInv, TablesInv
<1> QED
  BY <1>1, Invariance, PTL

-----------------------------------------------------------------------------

-----------------------------------------------------------------------------
(* The properties of the tables that need no more than the invariant, and  *)
(* those a commit has to keep.                                             *)
Kept == Deduplicated /\ TransactionalOutbox /\ FailureNeedsOverlap

LEMMA DedupKept ==
  ASSUME TablesInv, Deduplicated, NEW r \in Requests, NEW types, Fits(r, types)
  PROVE  Deduplicated'
<1>1. \A a \in Requests \ {r} : alerts'[a] # Null =>
        /\ alerts[a] # Null /\ alerts'[a].org = alerts[a].org /\ alerts'[a].ref = alerts[a].ref
  BY DEF Fits, KeepsAlerts
<1>2. alerts'[r] # Null => /\ alerts'[r].org = op[r].org /\ alerts'[r].ref = op[r].ref
                           /\ \A a \in Requests : alerts[a] # Null /\ alerts[a].org = op[r].org
                                => alerts[a].ref # op[r].ref
  BY DEF Fits, KeepsAlerts, KeyTaken, AlertsOf
<1> QED
  BY <1>1, <1>2 DEF Deduplicated

LEMMA OutboxKept ==
  ASSUME TablesInv, HistoryInv, TransactionalOutbox, NEW r \in Requests, NEW types,
         Fits(r, types)
  PROVE  TransactionalOutbox'
<1>1. /\ events' = events \cup {[by |-> r, type |-> t] : t \in types}
      /\ pc[r] # "done" /\ UNCHANGED op /\ cases[r] = Null /\ alerts[r] = Null
  BY OpTyped DEF Fits, Commit, AuditAndEmit, locals, InFlight
<1>2. \A e \in events : e.by # r
  BY <1>1 DEF HistoryInv, EventsStand
<1>3. \A e \in events' : e \in events \/ (e.by = r /\ e.type \in types)
  BY <1>1
<1>4. \A t \in types : /\ [by |-> r, type |-> t] \in events'
                       /\ [by |-> r, type |-> t].by = r /\ [by |-> r, type |-> t].type = t
  BY <1>1
<1>5. events \subseteq events'
  BY <1>1
<1> SUFFICES ASSUME NEW c \in Requests
      PROVE  /\ cases'[c] # Null <=>
                  \E e \in events' : e.by = c /\ e.type \in {"case.created", "alert.promoted"}
             /\ cases'[c] # Null =>
                  (cases'[c].deleted <=>
                     \E e \in events' : e.type = "case.deleted" /\ op'[e.by].case = c)
             /\ alerts'[c] # Null => [by |-> c, type |-> "alert.ingested"] \in events'
  BY DEF TransactionalOutbox
<1>6. cases'[c] # Null <=>
        \E e \in events' : e.by = c /\ e.type \in {"case.created", "alert.promoted"}
  <2>1. CASE c = r
    BY ZenonT(60), <1>2, <1>3, <1>4, <2>1 DEF Fits, Emits
  <2>2. CASE c # r
    BY <1>3, <1>5, <2>2 DEF TransactionalOutbox, Fits, KeepsCases
  <2> QED BY <2>1, <2>2
<1>7. ASSUME cases'[c] # Null
      PROVE  cases'[c].deleted <=>
               \E e \in events' : e.type = "case.deleted" /\ op[e.by].case = c
  <2>1. CASE c = r
    <3>1. \A e \in events : e.type = "case.deleted" => op[e.by].case # c
      BY <1>1, <2>1 DEF HistoryInv, EventsStand
    <3>2. "case.deleted" \in types => op[r].case # c
      BY <1>1, <2>1 DEF Fits, Emits
    <3> QED BY <1>3, <1>7, <2>1, <3>1, <3>2 DEF Fits, Emits
  <2>2. CASE c # r
    <3>1. cases[c] # Null
      BY <1>7, <2>2 DEF Fits, KeepsCases
    <3>2. cases'[c].deleted <=> cases[c].deleted \/ ("case.deleted" \in types /\ op[r].case = c)
      BY <2>2, <3>1 DEF Fits, Emits
    <3>3. cases[c].deleted <=> \E e \in events : e.type = "case.deleted" /\ op[e.by].case = c
      BY <3>1 DEF TransactionalOutbox
    <3> QED BY <1>3, <1>4, <1>5, <3>2, <3>3
  <2> QED BY <2>1, <2>2
<1>8. alerts'[c] # Null => [by |-> c, type |-> "alert.ingested"] \in events'
  BY <1>4, <1>5 DEF TransactionalOutbox, Fits, KeepsAlerts, Emits
<1> QED BY <1>1, <1>6, <1>7, <1>8

LEMMA FailuresKept ==
  ASSUME TablesInv, FailureNeedsOverlap, NEW r \in Requests,
         Call(r) \/ Tries(r) \/ \E types : Fits(r, types)
  PROVE  FailureNeedsOverlap'
<1> USE DEF Overlap
<1>1. CASE Call(r)
  <2>1. /\ pc[r] = "idle" /\ pc'[r] \in {"number", "write", "findCase", "notFound", "rejected"}
        /\ \A q \in Requests \ {r} : pc'[q] = pc[q] /\ op'[q] = op[q] /\ met'[q] = met[q]
    BY <1>1, CallBegins DEF Begin, GoTo, TablesInv, TypeOK
  <2> QED BY <2>1 DEF FailureNeedsOverlap
<1>2. CASE Tries(r)
  BY <1>2 DEF Tries, Onward, Acts, HasRival, FailureNeedsOverlap, InFlight, Endings
<1>3. CASE \E types : Fits(r, types)
  BY <1>3 DEF Fits, Commit, GoTo, locals, FailureNeedsOverlap, InFlight, TablesInv, TypeOK
<1> QED BY <1>1, <1>2, <1>3

LEMMA NextKept == IInv /\ Kept /\ [Next]_vars => Kept'
<1> SUFFICES ASSUME IInv, Kept, [Next]_vars PROVE Kept'
  OBVIOUS
<1>1. TablesInv /\ HistoryInv
  BY DEF IInv
<1>2. CASE UNCHANGED vars
  BY <1>2 DEF vars, Kept, Deduplicated, TransactionalOutbox, FailureNeedsOverlap, Overlap
<1>3. CASE Next
  <2>1. PICK r \in Requests : Call(r) \/ Explained(r)
    BY <1>3, StepExplained
  <2>2. FailureNeedsOverlap'
    BY <1>1, <2>1, FailuresKept DEF Explained, Kept
  <2>3. CASE \E types : Fits(r, types)
    BY <1>1, <2>2, <2>3, DedupKept, OutboxKept DEF Kept
  <2>4. CASE Call(r) \/ Tries(r)
    <3>1. UNCHANGED <<cases, alerts, events>>
      BY <2>4 DEF Call, Begin, CreateBegin, IngestLoad, PromoteLoad, DeleteAlertLoad,
         PatchAlertLoad, MergeLoad, BulkPatchLoad, DeleteCaseLoad, Tries, Onward, tables
    <3>2. \A e \in events : op'[e.by] = op[e.by]
      BY <1>1, <2>4 DEF HistoryInv, EventsStand, Tries, Onward, Acts, Call, Begin, CreateBegin,
         IngestLoad, PromoteLoad, DeleteAlertLoad, PatchAlertLoad, MergeLoad, BulkPatchLoad,
         DeleteCaseLoad, TablesInv, TypeOK
    <3> QED BY <2>2, <3>1, <3>2 DEF Kept, Deduplicated, TransactionalOutbox
  <2> QED BY <2>1, <2>3, <2>4 DEF Explained
<1> QED BY <1>2, <1>3

(* create_case has seen each number it tried taken by another case, or its *)
(* assignee is no user.                                                    *)
LEMMA ConflictsExplained == IInv => ConflictHasWinners
<1> SUFFICES ASSUME IInv, NEW r \in Requests, pc[r] = "exhausted", op[r].body # "dangling"
             PROVE  Cardinality({c \in Requests : /\ cases[c] # Null
                                                  /\ cases[c].org = op[r].org
                                                  /\ cases[c].number >= first[r]}) >= MaxAttempts
  BY DEF ConflictHasWinners
<1> USE DEF IInv, TablesInv
<1> DEFINE W == {c \in Requests : /\ cases[c] # Null /\ cases[c].org = op[r].org
                                  /\ cases[c].number >= first[r]}
           I == first[r] .. number[r]
           row(n) == CHOOSE c \in Requests : /\ cases[c] # Null /\ cases[c].org = op[r].org
                                             /\ cases[c].number = n
           f == [n \in I |-> row(n)]
<1>1. /\ first[r] \in Nat /\ number[r] \in Nat /\ MaxAttempts \in Nat \ {0}
      /\ number[r] \in NumbersOf(op[r].org) /\ tries[r] = MaxAttempts
  BY AttemptsAssumption DEF TypeOK, HistoryInv, Attempts, Violates, NumberTaken
<1>2. first[r] > 0 /\ number[r] + 1 >= first[r] + MaxAttempts
  BY <1>1 DEF HistoryInv, Attempts
<1>3. PICK d \in Requests : cases[d] # Null /\ cases[d].org = op[r].org
                            /\ cases[d].number = number[r]
  BY <1>1 DEF NumbersOf
<1>4. I \subseteq NumbersOf(op[r].org)
  BY <1>1, <1>2, <1>3 DEF NoGap
<1>5. ASSUME NEW n \in I
      PROVE  row(n) \in Requests /\ cases[row(n)] # Null
             /\ cases[row(n)].org = op[r].org /\ cases[row(n)].number = n
  <2>1. \E c \in Requests : /\ cases[c] # Null /\ cases[c].org = op[r].org
                            /\ cases[c].number = n
    BY <1>4 DEF NumbersOf
  <2> QED BY <2>1
<1>6. \A n \in I : n \in Nat /\ n >= first[r]
  BY <1>1
<1> HIDE DEF row
<1>7. f \in Injection(I, W)
  <2>1. \A n \in I : f[n] \in W
    BY <1>5, <1>6
  <2>2. \A m, n \in I : f[m] = f[n] => m = n
    BY <1>5
  <2> QED BY <2>1, <2>2 DEF Injection, IsInjective
<1>8. IsFiniteSet(W)
  <2>1. W \subseteq {q \in Requests : pc[q] # "idle"}
    BY DEF Fresh
  <2> QED BY <2>1, FS_Subset DEF HistoryInv, FinitelyMany
<1>9. Cardinality(I) <= Cardinality(W)
  BY <1>7, <1>8, FS_Injection DEF ExistsInjection
<1>10. Cardinality(I) = number[r] - first[r] + 1
  BY <1>1, <1>2, FS_Interval
<1>11. Cardinality(W) \in Nat
  BY <1>8, FS_CardinalityType
<1> QED
  BY <1>1, <1>2, <1>9, <1>10, <1>11

(* An alert that is linked elsewhere was linked by a request that ran      *)
(* together with the promotion.                                            *)
LEMMA OrphansExplained == IInv => OrphanNeedsOverlap
<1> SUFFICES ASSUME IInv, NEW r \in Requests, NEW a \in Requests, pc[r] = "done",
                    op[r].kind = "promote", a \in op[r].ids, alerts[a] # Null,
                    alerts[a].case # r
             PROVE  \E q \in Requests : /\ q # r /\ pc[q] = "done" /\ Overlap(r, q)
                                        /\ op[q].kind \in {"promote", "merge"} /\ a \in op[q].ids
  BY DEF OrphanNeedsOverlap
<1>1. r \in Linkers
  BY DEF IInv, TablesInv, Fresh, Linkers
<1>2. alerts[a].case # Null
  BY <1>1 DEF IInv, HistoryInv, LinksHaveAuthors
<1>3. PICK q \in Linkers : /\ pc[q] = "done" /\ a \in op[q].ids
                           /\ op[q].kind = "promote" => alerts[a].case = q
  BY <1>2 DEF IInv, HistoryInv, LinksHaveAuthors
<1>4. q # r /\ op[r].ids \cap op[q].ids # {}
  BY <1>3
<1>5. Overlap(r, q)
  BY <1>1, <1>3, <1>4 DEF IInv, HistoryInv, LinksHaveAuthors
<1> QED
  BY <1>3, <1>4, <1>5 DEF Linkers

(* What a commit keeps holds in every reachable state, with the invariant. *)
THEOREM InvarianceKept == Spec => [](IInv /\ Kept)
<1>1. Init => IInv /\ Kept
  <2>1. Init => FailureNeedsOverlap
    BY DEF Init, FailureNeedsOverlap
  <2> QED BY <2>1, InitIInv, InitHistory DEF Kept
<1>2. IInv /\ Kept /\ [Next]_vars => (IInv /\ Kept)'
  BY NextIInv, NextKept
<1> QED
  BY <1>1, <1>2, PTL DEF Spec

(* No interleaving of lookups and inserts leaves two alerts of an          *)
(* organization with one dedup key.                                        *)
THEOREM Deduplication == Spec => []Deduplicated
<1>1. IInv /\ Kept => Deduplicated
  BY DEF Kept
<1> QED
  BY <1>1, InvarianceKept, PTL

(* A row is there exactly when the event of its insertion is, and a case   *)
(* is deleted exactly when the event of its deletion is there.             *)
THEOREM OutboxAgrees == Spec => []TransactionalOutbox
<1>1. IInv /\ Kept => TransactionalOutbox
  BY DEF Kept
<1> QED
  BY <1>1, InvarianceKept, PTL

(* A create gives up only when MaxAttempts numbers were taken under it or  *)
(* its assignee is no user, and a request whose body fits the tables is    *)
(* refused, or its work lost, only by a request that overlapped it.        *)
THEOREM FailuresExplained == Spec => []FailuresHaveReasons
<1>1. IInv /\ Kept => FailuresHaveReasons
  BY ConflictsExplained, OrphansExplained DEF Kept, FailuresHaveReasons
<1> QED
  BY <1>1, InvarianceKept, PTL

(* What a step may not do to a link or to a deletion.                      *)
StickyRow(x) ==
  /\ alerts[x] # Null /\ alerts'[x] # Null /\ alerts[x].case # Null => alerts'[x].case # Null
  /\ cases[x] # Null /\ cases[x].deleted => cases'[x].deleted

(* No step takes a link back to "no case" or revives a deleted case.       *)
THEOREM LinksStick == Spec => LinksAndDeletionsStick
<1>1. ASSUME IInv, [Next]_vars PROVE [\A x \in Requests : StickyRow(x)]_vars
  <2> SUFFICES ASSUME NEW x \in Requests, Next PROVE StickyRow(x)
    BY <1>1
  <2>1. PICK r \in Requests : Call(r) \/ Explained(r)
    BY <1>1, StepExplained
  <2>2. CASE Call(r) \/ Tries(r)
    <3>1. UNCHANGED <<cases, alerts>>
      BY <2>2 DEF Call, Begin, CreateBegin, IngestLoad, PromoteLoad, DeleteAlertLoad,
         PatchAlertLoad, MergeLoad, BulkPatchLoad, DeleteCaseLoad, Tries, Onward, tables
    <3> QED BY <3>1 DEF StickyRow
  <2>3. CASE \E types : Fits(r, types)
    <3>1. cases[r] = Null /\ alerts[r] = Null
      BY <1>1, <2>3, OpTyped DEF IInv, Fits
    <3> QED
      BY <2>3, <3>1 DEF Fits, KeepsAlerts, Emits, StickyRow
  <2> QED BY <2>1, <2>2, <2>3 DEF Explained
<1> QED
  BY <1>1, Invariance, PTL DEF Spec, LinksAndDeletionsStick, StickyRow
(* The case table implements the register.                                 *)

(* Rows that keep their organization and number keep their entry.          *)
LEMMA KeptEntries ==
  ASSUME \A c \in Requests : EntryOf(c)' = EntryOf(c)
  PROVE  UNCHANGED entries
BY DEF entries

LEMMA TakenNumbers ==
  ASSUME TablesInv, NEW o
  PROVE  Register!Taken(o) = NumbersOf(o)
<1>1. \A c \in Requests : /\ cases[c] # Null =>
                               /\ EntryOf(c) # Null
                               /\ EntryOf(c).org = cases[c].org
                               /\ EntryOf(c).number = cases[c].number
                          /\ cases[c] = Null => EntryOf(c) = Null
  BY NullAssumption DEF TablesInv, TypeOK, CaseRow, EntryOf
<1>2. \A c \in Requests : entries[c] = EntryOf(c)
  BY DEF entries
<1>3. {d \in Requests : entries[d] # Null /\ entries[d].org = o}
        = {d \in Requests : cases[d] # Null /\ cases[d].org = o}
  BY <1>1, <1>2
<1> QED
  BY <1>1, <1>2, <1>3 DEF Register!Taken, NumbersOf

LEMMA InsertRegister ==
  ASSUME TablesInv, NEW r \in Requests, pc[r] = "insert", ~NumberTaken(r), cases' = NewCase(r)
  PROVE  Register!RegisterNext
<1> DEFINE e == [org |-> op[r].org, number |-> number[r]]
<1>1. cases[r] = Null /\ op[r].org \in Orgs
  BY OpTyped DEF InFlight
<1>2. number[r] \in Nat \ {0} /\ 1..(number[r] - 1) \subseteq NumbersOf(op[r].org)
  BY DEF TablesInv, TypeOK, Numbering
<1>3. Register!Taken(op[r].org) = NumbersOf(op[r].org)
  BY TakenNumbers
<1>4. e \in Register!Entry
  BY <1>1, <1>2 DEF Register!Entry
<1>5. EntryOf(r) = Null /\ EntryOf(r)' = e /\ \A c \in Requests \ {r} : EntryOf(c)' = EntryOf(c)
  BY <1>1, NewCaseTyped DEF EntryOf
<1>6. entries[r] = Null /\ entries'[r] = e /\ entries' = [entries EXCEPT ![r] = e]
  BY <1>5 DEF entries
<1>7. Register!Assign(r, e)
  BY <1>2, <1>3, <1>4, <1>6 DEF Register!Assign, NumberTaken
<1> QED
  BY <1>6, <1>7 DEF Register!RegisterNext

(* Every step of the intake is a step of the register or leaves it alone.  *)
LEMMA RegisterStep ==
  ASSUME TablesInv, [Next]_vars PROVE [Register!RegisterNext]_entries
<1> SUFFICES ASSUME UNCHANGED cases \/ \E r \in Requests :
                      CreateInsert(r) \/ PromoteWrite(r) \/ DeleteCaseWrite(r)
             PROVE  [Register!RegisterNext]_entries
  BY CallBegins DEF Next, vars, Begin, NextNumber, IngestUpdate, IngestInsert, PatchAlertWrite, BulkPatchWrite, WriteStatus,
         DeleteAlertWrite, MergeFindCase, MergeWrite, RefusedWrite, Abort, Fail, tables
<1>1. CASE UNCHANGED cases
  BY <1>1, KeptEntries DEF EntryOf
<1>2. ASSUME NEW r \in Requests, CreateInsert(r) \/ PromoteWrite(r)
      PROVE  [Register!RegisterNext]_entries
  BY <1>1, <1>2, InsertRegister DEF CreateInsert, Violates, PromoteWrite, Fail, tables
<1>3. ASSUME NEW r \in Requests, DeleteCaseWrite(r) PROVE [Register!RegisterNext]_entries
  <2>1. op[r].case \in Requests /\ cases[op[r].case] \in CaseRow
    BY <1>3 DEF TablesInv, TypeOK, Linking, DeleteCaseWrite
  <2>2. cases' = [cases EXCEPT ![op[r].case] = [cases[op[r].case] EXCEPT !.deleted = TRUE]]
    BY <1>3 DEF DeleteCaseWrite, WithDeleted
  <2>3. \A c \in Requests :
          /\ cases'[c] = Null <=> cases[c] = Null
          /\ cases[c] # Null => cases'[c].org = cases[c].org /\ cases'[c].number = cases[c].number
    BY <2>1, <2>2, NullAssumption DEF TablesInv, TypeOK, CaseRow
  <2> QED
    BY <2>3, KeptEntries DEF EntryOf
<1> QED
  BY <1>1, <1>2, <1>3

(* The intake implements the abstract register, for any number of          *)
(* concurrent requests.                                                    *)
THEOREM IntakeImplementsRegister == Spec => ImplementsRegister
<1>1. Init => Register!RegisterInit
  BY DEF Init, Register!RegisterInit, entries, EntryOf
<1>2. IInv /\ [Next]_vars => [Register!RegisterNext]_entries
  BY RegisterStep DEF IInv
<1> QED
  BY <1>1, <1>2, Invariance, PTL DEF Spec, ImplementsRegister, Register!RegisterSpec
=============================================================================
