----------------------------- MODULE CaseIntake -----------------------------
(***************************************************************************)
(* The intake side of the platform: alerts are ingested, patched, deleted, *)
(* promoted to a case or merged into one, and cases are created and        *)
(* soft-deleted (backend/adhkar/api/v1/alerts.py and cases.py).            *)
(*                                                                         *)
(* A request is one HTTP call, served in one PostgreSQL transaction at     *)
(* READ COMMITTED: every statement sees what was committed when it runs,   *)
(* and the handler awaits between statements, so requests interleave       *)
(* there.  The last step of a request stands for its remaining writes, its *)
(* audit row and the commit of get_db: while they run, a request that      *)
(* needs the same row or the same unique key only waits.  An identity (the *)
(* UUID of a row) is the request that inserted the row.                    *)
(***************************************************************************)
EXTENDS Naturals, FiniteSets

CONSTANTS Orgs,         \* organizations (tenants)
          Requests,     \* the HTTP requests of a behaviour
          Refs,         \* dedup keys (type, source, source_ref) of alerts
          MaxAttempts,  \* tries of create_case to get a number
          Null

ASSUME AttemptsAssumption == MaxAttempts \in Nat \ {0}

VARIABLES cases,   \* committed rows of table cases
          alerts,  \* committed rows of table alerts
          events,  \* committed audit/outbox rows
          pc,      \* where each request is
          op,      \* what each request was asked
          number,  \* the case number a request has computed, 0 before
          tries,   \* attempts a create_case has started
          seen,    \* the alert rows a request has loaded, with their status
          met,     \* history: requests in flight when this one began
          first    \* history: the first number a request computed

tables == <<cases, alerts, events>>
locals == <<op, number, tries, seen, met, first>>
vars == <<cases, alerts, events, pc, op, number, tries, seen, met, first>>

AlertStatus == {"New", "Updated", "Ignored", "Imported"}

CaseRow == [org : Orgs, number : Nat \ {0}, deleted : BOOLEAN]
AlertRow == [org : Orgs, ref : Refs, status : AlertStatus,
             case : Requests \cup {Null}]

Kinds == {"create", "deleteCase", "ingest", "patchAlert", "bulkPatch",
          "deleteAlert", "promote", "merge"}

(* What the tables make of the body of a call, which the schemas let       *)
(* through: its values fit; a case is assigned to a user that does not     *)
(* exist, which breaks a foreign key; or a column refuses a value: a null  *)
(* sent where it takes none, a text longer than the column or with a NUL   *)
(* character.                                                              *)
Bodies == {"fits", "dangling", "unfit"}

Operation == [kind : Kinds, org : Orgs, ids : SUBSET Requests,
              case : Requests \cup {Null}, ref : Refs \cup {Null},
              status : AlertStatus \cup {Null}, body : Bodies]

ASSUME NullAssumption ==
  /\ Null \notin Requests /\ Null \notin Refs
  /\ Null \notin CaseRow /\ Null \notin AlertRow /\ Null \notin Operation
  /\ Null \notin [org : Orgs, number : Nat \ {0}]

(* Endings: 2xx, 404, 409 already linked, 409 out of attempts, 500 from a  *)
(* unique violation, 500 from an UPDATE that found no row, 500 from a      *)
(* value a column refuses, and a request whose process or connection died. *)
Endings == {"done", "notFound", "rejected", "exhausted", "clash", "stale",
            "unfit", "aborted"}
EventTypes == {"case.created", "case.deleted", "alert.ingested",
               "alert.bulk_updated", "alert.promoted"}
InFlight == {"number", "insert", "findCase", "write"}
Active == {r \in Requests : pc[r] \in InFlight}

Init ==
  /\ cases = [r \in Requests |-> Null]
  /\ alerts = [r \in Requests |-> Null]
  /\ events = {}
  /\ pc = [r \in Requests |-> "idle"]
  /\ op = [r \in Requests |-> Null]
  /\ number = [r \in Requests |-> 0]
  /\ tries = [r \in Requests |-> 0]
  /\ seen = [r \in Requests |-> {}]
  /\ met = [r \in Requests |-> {}]
  /\ first = [r \in Requests |-> 0]

-----------------------------------------------------------------------------
(* Shared steps.                                                           *)

GoTo(r, label) == pc' = [pc EXCEPT ![r] = label]

(* The request ends without a commit: its transaction leaves no row.       *)
Fail(r, ending) == GoTo(r, ending) /\ UNCHANGED tables /\ UNCHANGED locals

(* Rows of another organization are not found.                             *)
AlertsOf(o) == {a \in Requests : alerts[a] # Null /\ alerts[a].org = o}
LiveCases(o) == {c \in Requests : cases[c] # Null /\ ~cases[c].deleted}
LiveCasesOf(o) ==
  {c \in Requests : cases[c] # Null /\ cases[c].org = o /\ ~cases[c].deleted}
NumbersOf(o) ==
  {cases[c].number : c \in {d \in Requests : cases[d] # Null /\ cases[d].org = o}}

(* An endpoint is called: it loads the alerts `loaded` with the status     *)
(* they have now, and goes on to `label` (or answers at once).             *)
Begin(r, operation, loaded, label) ==
  /\ pc[r] = "idle"
  /\ GoTo(r, label)
  /\ op' = [op EXCEPT ![r] = operation]
  /\ seen' = [seen EXCEPT ![r] = {<<a, alerts[a].status>> : a \in loaded}]
  /\ met' = [met EXCEPT ![r] = Active]
  /\ UNCHANGED <<cases, alerts, events, number, tries, first>>

(* The loaded rows whose status the ORM will send in an UPDATE: it skips a *)
(* column that is set to the value it was loaded with.                     *)
Dirty(r, status) == {p[1] : p \in {q \in seen[r] : q[2] # status}}

(* audit_and_emit: the audit row and the outbox row of a mutation join the *)
(* transaction that makes it.                                              *)
ForgetToEmit(r, types) == UNCHANGED events
AuditAndEmit(r, types) == events' = events \cup {[by |-> r, type |-> t] : t \in types}

(* The transaction of r commits; r answers 2xx.                            *)
Commit(r, types) == GoTo(r, "done") /\ AuditAndEmit(r, types) /\ UNCHANGED locals

-----------------------------------------------------------------------------
(* CaseRepository.next_number: coalesce(max(number), 0) + 1 over the       *)
(* committed cases of the organization, soft-deleted ones included.        *)
IsLastLiveNumber(m, o) ==
  /\ m \in {0} \cup {cases[c].number : c \in LiveCasesOf(o)}
  /\ \A c \in LiveCasesOf(o) : cases[c].number <= m
IsLastNumber(m, o) ==
  /\ m \in {0} \cup NumbersOf(o)
  /\ \A n \in NumbersOf(o) : n <= m

NextNumber(r) ==
  /\ pc[r] = "number"
  /\ \E m \in {0} \cup NumbersOf(op[r].org) :
       /\ IsLastNumber(m, op[r].org)
       /\ number' = [number EXCEPT ![r] = m + 1]
       /\ first' = [first EXCEPT ![r] = IF @ = 0 THEN m + 1 ELSE @]
  /\ tries' = [tries EXCEPT ![r] = @ + 1]
  /\ GoTo(r, "insert")
  /\ UNCHANGED <<cases, alerts, events, op, seen, met>>

(* The unique constraint on (organization_id, number) refuses the row.     *)
NumberTaken(r) == number[r] \in NumbersOf(op[r].org)

NewCase(r) == [cases EXCEPT ![r] = [org |-> op[r].org, number |-> number[r],
                                    deleted |-> FALSE]]

CreateBegin(r, o, b) ==
  Begin(r, [kind |-> "create", org |-> o, ids |-> {}, case |-> Null,
            ref |-> Null, status |-> Null, body |-> b], {}, "number")

(* The loop of create_case: another attempt is left.                       *)
MayRetry(r) == tries[r] < MaxAttempts

(* Any IntegrityError of the insert, not only that of the number.          *)
Violates(r) == NumberTaken(r) \/ op[r].body = "dangling"

(* create_case: insert, or roll back and compute the number again, or give *)
(* up after the last attempt.                                              *)
CreateInsert(r) ==
  /\ pc[r] = "insert" /\ op[r].kind = "create" /\ op[r].body # "unfit"
  /\ \/ /\ ~Violates(r)
        /\ cases' = NewCase(r)
        /\ UNCHANGED alerts
        /\ Commit(r, {"case.created"})
     \/ /\ Violates(r) /\ MayRetry(r)
        /\ Fail(r, "number")
     \/ /\ Violates(r) /\ ~MayRetry(r)
        /\ Fail(r, "exhausted")

(* delete_case: the case is found alive, then marked deleted.              *)
WithoutCase(c) == [cases EXCEPT ![c] = Null]
WithDeleted(c) == [cases EXCEPT ![c].deleted = TRUE]

DeleteCaseLoad(r, o, c) ==
  Begin(r, [kind |-> "deleteCase", org |-> o, ids |-> {}, case |-> c,
            ref |-> Null, status |-> Null, body |-> "fits"], {},
        IF c \in LiveCasesOf(o) THEN "write" ELSE "notFound")

DeleteCaseWrite(r) ==
  /\ pc[r] = "write" /\ op[r].kind = "deleteCase"
  /\ cases' = WithDeleted(op[r].case)
  /\ UNCHANGED alerts
  /\ Commit(r, {"case.deleted"})

-----------------------------------------------------------------------------
(* ingest_alert: look the dedup key up, then update the row found or       *)
(* insert one.  The call brings new content: some other column of a row    *)
(* found is always sent.                                                   *)
IngestLoad(r, o, k, b) ==
  Begin(r, [kind |-> "ingest", org |-> o, ids |-> {}, case |-> Null,
            ref |-> k, status |-> Null, body |-> b],
        {a \in AlertsOf(o) : alerts[a].ref = k}, "write")

(* Only a status loaded as New or Updated is flipped.                      *)
Flipped(r) == {p[1] : p \in {q \in seen[r] : q[2] = "New"}}

(* The row after the update: its status is flipped, its link is kept.      *)
Overwritten(a) == [alerts[a] EXCEPT !.status = "Updated", !.case = Null]
Refreshed(a) == [alerts[a] EXCEPT !.status = "Updated"]

IngestUpdate(r) ==
  /\ pc[r] = "write" /\ op[r].kind = "ingest" /\ op[r].body = "fits" /\ seen[r] # {}
  /\ \/ /\ \A p \in seen[r] : alerts[p[1]] # Null
        /\ alerts' = [a \in Requests |->
                        IF a \in Flipped(r) THEN Refreshed(a) ELSE alerts[a]]
        /\ UNCHANGED cases
        /\ Commit(r, {})
     \/ /\ \E p \in seen[r] : alerts[p[1]] = Null
        /\ Fail(r, "stale")

(* The unique constraint on (organization_id, type, source, source_ref).   *)
NoKey(r) == FALSE
KeyTaken(r) == \E a \in AlertsOf(op[r].org) : alerts[a].ref = op[r].ref

IngestInsert(r) ==
  /\ pc[r] = "write" /\ op[r].kind = "ingest" /\ op[r].body = "fits" /\ seen[r] = {}
  /\ \/ /\ ~KeyTaken(r)
        /\ alerts' = [alerts EXCEPT ![r] = [org |-> op[r].org, ref |-> op[r].ref,
                                            status |-> "New", case |-> Null]]
        /\ UNCHANGED cases
        /\ Commit(r, {"alert.ingested"})
     \/ /\ KeyTaken(r)
        /\ Fail(r, "clash")

(* The UPDATE of the status column of the rows in `changed`, or the ORM's  *)
(* error when one of them is gone.                                         *)
WriteStatus(r, changed, types) ==
  \/ /\ \A a \in changed : alerts[a] # Null
     /\ alerts' = [a \in Requests |->
                     IF a \in changed THEN [alerts[a] EXCEPT !.status = op[r].status]
                                      ELSE alerts[a]]
     /\ UNCHANGED cases
     /\ Commit(r, types)
  \/ /\ \E a \in changed : alerts[a] = Null
     /\ Fail(r, "stale")

(* patch_alert, a patch of the status; it writes no audit row.             *)
PatchAlertLoad(r, o, a, s, b) ==
  Begin(r, [kind |-> "patchAlert", org |-> o, ids |-> {a}, case |-> Null,
            ref |-> Null, status |-> s, body |-> b],
        {a} \cap AlertsOf(o), IF a \in AlertsOf(o) THEN "write" ELSE "notFound")

PatchAlertWrite(r) ==
  /\ pc[r] = "write" /\ op[r].kind = "patchAlert" /\ op[r].body = "fits"
  /\ WriteStatus(r, Dirty(r, op[r].status), {})

(* bulk_patch_alerts: ids of other organizations are dropped silently.     *)
BulkPatchLoad(r, o, ids, s, b) ==
  Begin(r, [kind |-> "bulkPatch", org |-> o, ids |-> ids, case |-> Null,
            ref |-> Null, status |-> s, body |-> b],
        ids \cap AlertsOf(o), "write")

BulkPatchWrite(r) ==
  /\ pc[r] = "write" /\ op[r].kind = "bulkPatch"
  /\ op[r].body = "fits" \/ seen[r] = {}
  /\ WriteStatus(r, Dirty(r, op[r].status),
                 IF seen[r] = {} THEN {} ELSE {"alert.bulk_updated"})

(* delete_alert: a row another request deleted first is no error.          *)
DeleteAlertLoad(r, o, a) ==
  Begin(r, [kind |-> "deleteAlert", org |-> o, ids |-> {a}, case |-> Null,
            ref |-> Null, status |-> Null, body |-> "fits"],
        {a} \cap AlertsOf(o), IF a \in AlertsOf(o) THEN "write" ELSE "notFound")

DeleteAlertWrite(r) ==
  /\ pc[r] = "write" /\ op[r].kind = "deleteAlert"
  /\ alerts' = [a \in Requests |-> IF a \in op[r].ids THEN Null ELSE alerts[a]]
  /\ UNCHANGED cases
  /\ Commit(r, {})

-----------------------------------------------------------------------------
(* Where an alert goes that is to be linked to a case: 404 if it is not    *)
(* there, 409 if it has a case.                                            *)
LinkEntry(o, a, label) ==
  IF a \notin AlertsOf(o) THEN "notFound"
  ELSE IF alerts[a].case # Null THEN "rejected" ELSE label

(* alerts.case_id, status and imported_at are set on the alert of r; a     *)
(* status loaded as Imported is not sent.                                  *)
Linked(r, c) ==
  [a \in Requests |->
     IF a \in op[r].ids
       THEN [alerts[a] EXCEPT !.case = c,
                              !.status = IF a \in Dirty(r, "Imported") THEN "Imported" ELSE @]
       ELSE alerts[a]]

AlertGone(r) == \E a \in op[r].ids : alerts[a] = Null

PromoteLoad(r, o, a, b) ==
  Begin(r, [kind |-> "promote", org |-> o, ids |-> {a}, case |-> Null,
            ref |-> Null, status |-> Null, body |-> b],
        {a} \cap AlertsOf(o), LinkEntry(o, a, "number"))

(* promote_alert inserts the case without a retry, then links the alert.   *)
PromoteWrite(r) ==
  /\ pc[r] = "insert" /\ op[r].kind = "promote" /\ op[r].body = "fits"
  /\ \/ /\ ~NumberTaken(r) /\ ~AlertGone(r)
        /\ cases' = NewCase(r)
        /\ alerts' = Linked(r, r)
        /\ Commit(r, {"alert.promoted"})
     \/ /\ NumberTaken(r)
        /\ Fail(r, "clash")
     \/ /\ ~NumberTaken(r) /\ AlertGone(r)
        /\ Fail(r, "stale")

(* merge_alert_into_case: the alert, then the case, then the link; it      *)
(* writes no audit row.                                                    *)
MergeLoad(r, o, a, c) ==
  Begin(r, [kind |-> "merge", org |-> o, ids |-> {a}, case |-> c,
            ref |-> Null, status |-> Null, body |-> "fits"],
        {a} \cap AlertsOf(o), LinkEntry(o, a, "findCase"))

MergeFindCase(r) ==
  /\ pc[r] = "findCase"
  /\ GoTo(r, IF op[r].case \in LiveCasesOf(op[r].org) THEN "write" ELSE "notFound")
  /\ UNCHANGED tables /\ UNCHANGED locals

MergeWrite(r) ==
  /\ pc[r] = "write" /\ op[r].kind = "merge"
  /\ \/ /\ ~AlertGone(r)
        /\ alerts' = Linked(r, op[r].case)
        /\ UNCHANGED cases
        /\ Commit(r, {})
     \/ /\ AlertGone(r)
        /\ Fail(r, "stale")

-----------------------------------------------------------------------------
(* The INSERT or UPDATE of a handler is refused, and the handler does not  *)
(* catch it; a bulk patch that found no alert sends none.                  *)
RefusedWrite(r) ==
  /\ pc[r] \in {"insert", "write"} /\ op[r].body = "unfit"
  /\ op[r].kind = "bulkPatch" => seen[r] # {}
  /\ Fail(r, "unfit")

(* A worker process, its connection or the client's dies: the open         *)
(* transaction is rolled back.                                             *)
Abort(r) == pc[r] \in InFlight /\ Fail(r, "aborted")

Call(r) ==
  \E o \in Orgs :
    \/ \E b \in Bodies : CreateBegin(r, o, b)
    \/ \E k \in Refs, b \in {"fits", "unfit"} : IngestLoad(r, o, k, b)
    \/ \E a \in {x \in Requests : alerts[x] # Null} :
         \/ \E b \in {"fits", "unfit"} : PromoteLoad(r, o, a, b)
         \/ DeleteAlertLoad(r, o, a)
         \/ \E s \in AlertStatus, b \in {"fits", "unfit"} : PatchAlertLoad(r, o, a, s, b)
         \/ \E c \in {x \in Requests : cases[x] # Null} : MergeLoad(r, o, a, c)
    \/ \E ids \in SUBSET {x \in Requests : alerts[x] # Null}, s \in AlertStatus,
         b \in {"fits", "unfit"} : ids # {} /\ BulkPatchLoad(r, o, ids, s, b)
    \/ \E c \in {x \in Requests : cases[x] # Null} : DeleteCaseLoad(r, o, c)

Next ==
  \E r \in Requests :
    \/ Call(r)
    \/ NextNumber(r)
    \/ CreateInsert(r)
    \/ DeleteCaseWrite(r)
    \/ IngestUpdate(r)
    \/ IngestInsert(r)
    \/ PatchAlertWrite(r)
    \/ BulkPatchWrite(r)
    \/ DeleteAlertWrite(r)
    \/ PromoteWrite(r)
    \/ MergeFindCase(r)
    \/ MergeWrite(r)
    \/ RefusedWrite(r)
    \/ Abort(r)

Spec == Init /\ [][Next]_vars

-----------------------------------------------------------------------------
(* Properties.                                                             *)

(* Every variable has its type.                                            *)
TypeOK ==
  /\ cases \in [Requests -> CaseRow \cup {Null}]
  /\ alerts \in [Requests -> AlertRow \cup {Null}]
  /\ events \subseteq [by : Requests, type : EventTypes]
  /\ pc \in [Requests -> {"idle"} \cup InFlight \cup Endings]
  /\ op \in [Requests -> Operation \cup {Null}]
  /\ number \in [Requests -> Nat]
  /\ tries \in [Requests -> 0..MaxAttempts]
  /\ seen \in [Requests -> SUBSET (Requests \X AlertStatus)]
  /\ met \in [Requests -> SUBSET Requests]
  /\ first \in [Requests -> Nat]

(* The cases of an organization are numbered 1, 2, ..., n: no number twice *)
(* and no gap, deleted cases included, though max()+1 is read in another   *)
(* statement than the insert that uses it (next_number, create_case,       *)
(* promote_alert).                                                         *)
UniqueNumbers ==
  \A c, d \in Requests :
    cases[c] # Null /\ cases[d] # Null /\ cases[c].org = cases[d].org
      /\ cases[c].number = cases[d].number => c = d
NoGap ==
  \A c \in Requests :
    cases[c] # Null => 1..cases[c].number \subseteq NumbersOf(cases[c].org)
DenseNumbers == UniqueNumbers /\ NoGap

(* An alert is linked to a case that exists, of its own organization: the  *)
(* handlers filter both rows by organization before they link them         *)
(* (promote_alert, merge_alert_into_case).                                 *)
TenantLinks ==
  \A a \in Requests :
    alerts[a] # Null /\ alerts[a].case # Null =>
      /\ cases[alerts[a].case] # Null
      /\ cases[alerts[a].case].org = alerts[a].org

(* Two alerts of one organization never have the same dedup key, though    *)
(* ingest_alert looks the key up and inserts in two statements.            *)
Deduplicated ==
  \A a, b \in Requests :
    alerts[a] # Null /\ alerts[b] # Null /\ alerts[a].org = alerts[b].org
      /\ alerts[a].ref = alerts[b].ref => a = b

(* create_case answers case_number_assignment_failed only when at least    *)
(* MaxAttempts cases of its organization were committed since it computed  *)
(* its first number, or when the assignee it was given is no user, which   *)
(* its retry takes for a lost race each time: with an assignee that exists *)
(* it never gives up on a quiet organization.                              *)
ConflictHasWinners ==
  \A r \in Requests :
    pc[r] = "exhausted" /\ op[r].body # "dangling" =>
      Cardinality({c \in Requests : /\ cases[c] # Null
                                    /\ cases[c].org = op[r].org
                                    /\ cases[c].number >= first[r]}) >= MaxAttempts

Overlap(r, q) == q \in met[r] \/ r \in met[q]

(* A promoted case whose alert is linked to another case is the work of    *)
(* two overlapping requests that both found the alert unlinked; calls made *)
(* one after the other never leave such an orphan (promote_alert's and     *)
(* merge_alert_into_case's alert_already_promoted test).                   *)
OrphanNeedsOverlap ==
  \A r, a \in Requests :
    pc[r] = "done" /\ op[r].kind = "promote" /\ a \in op[r].ids
      /\ alerts[a] # Null /\ alerts[a].case # r =>
      \E q \in Requests : /\ q # r /\ pc[q] = "done" /\ Overlap(r, q)
                          /\ op[q].kind \in {"promote", "merge"} /\ a \in op[q].ids

(* A request whose body fits the tables fails with a conflict or a server  *)
(* error only if a request of the same organization that overlapped it     *)
(* committed: the unique keys and the ORM's row count never reject a call  *)
(* that ran alone.  A body that does not fit is the only other reason.     *)
FailureNeedsOverlap ==
  \A r \in Requests :
    pc[r] \in {"clash", "exhausted", "stale", "unfit"} /\ op[r].body = "fits" =>
      \E q \in Requests : pc[q] = "done" /\ Overlap(r, q) /\ op[q].org = op[r].org

(* A call that fails, or whose work is lost, does so for one of the        *)
(* reasons above (cases.py:502-536, alerts.py:380-410, 498-545).           *)
FailuresHaveReasons == ConflictHasWinners /\ OrphanNeedsOverlap /\ FailureNeedsOverlap

(* The tables and the outbox agree: a case or an alert row exists exactly  *)
(* when the event of its insertion does (unless the alert was deleted), a  *)
(* case is marked deleted exactly when a case.deleted event says so, and   *)
(* no event survives the rollback of its mutation (audit_and_emit).        *)
TransactionalOutbox ==
  \A c \in Requests :
    /\ cases[c] # Null <=>
         \E e \in events : e.by = c /\ e.type \in {"case.created", "alert.promoted"}
    /\ cases[c] # Null =>
         (cases[c].deleted <=>
            \E e \in events : e.type = "case.deleted" /\ op[e.by].case = c)
    /\ alerts[c] # Null => [by |-> c, type |-> "alert.ingested"] \in events

(* The case table implements the numbered register: an insert gives the    *)
(* next free number, and no other step touches an entry.                   *)
EntryOf(c) == IF cases[c] = Null THEN Null
              ELSE [org |-> cases[c].org, number |-> cases[c].number]
entries == [c \in Requests |-> EntryOf(c)]
Register == INSTANCE CaseRegister WITH CaseIds <- Requests, register <- entries
ImplementsRegister == Register!RegisterSpec

(* No step takes the link of an alert back to "no case": re-ingesting,     *)
(* patching or a late writer never unlinks an alert, and no later call     *)
(* revives a deleted case (ingest_alert, patch_alert, bulk_patch_alerts).  *)
LinksAndDeletionsStick ==
  [][\A x \in Requests :
       /\ alerts[x] # Null /\ alerts'[x] # Null /\ alerts[x].case # Null
            => alerts'[x].case # Null
       /\ cases[x] # Null /\ cases[x].deleted => cases'[x].deleted]_vars

(* Why the numbers are dense and the links stay inside a tenant: a request *)
(* about to insert has seen all the numbers below its own (and numbers are *)
(* never taken back); a request about to link holds rows of its own        *)
(* organization; the identity of a row is free until its request commits.  *)
Fresh(r) ==
  /\ pc[r] = "idle" => number[r] = 0 /\ tries[r] = 0 /\ op[r] = Null
  /\ pc[r] # "idle" => op[r] # Null
  /\ pc[r] # "done" => cases[r] = Null /\ alerts[r] = Null
Numbering(r) ==
  /\ pc[r] = "number" => /\ op[r].kind \in {"create", "promote"}
                         /\ tries[r] < MaxAttempts
  /\ pc[r] = "insert" => /\ number[r] # 0
                         /\ 1..(number[r] - 1) \subseteq NumbersOf(op[r].org)
Linking(r) ==
  /\ pc[r] = "findCase" => op[r].kind = "merge"
  /\ pc[r] \in InFlight /\ op[r].kind = "ingest" => op[r].ref \in Refs
  /\ pc[r] \in InFlight /\ op[r].kind \in {"patchAlert", "bulkPatch"} =>
       op[r].status \in AlertStatus
  /\ pc[r] \in InFlight /\ op[r].kind \in {"promote", "merge"} =>
       \A a \in op[r].ids : /\ pc[a] = "done"
                            /\ alerts[a] # Null => alerts[a].org = op[r].org
  /\ pc[r] = "write" /\ op[r].kind \in {"deleteCase", "merge"} =>
       /\ op[r].case \in Requests
       /\ cases[op[r].case] # Null
       /\ cases[op[r].case].org = op[r].org
TablesInv ==
  /\ TypeOK /\ UniqueNumbers /\ NoGap /\ TenantLinks
  /\ \A r \in Requests : Fresh(r) /\ Numbering(r) /\ Linking(r)

(* Why failures and lost links have reasons.  Requests that are in flight  *)
(* together overlap, and what a request loaded or counted is as it was, or *)
(* a request that overlaps it has changed it; a row is of the organization *)
(* of the request that inserted it.                                        *)
Linkers == {r \in Requests : op[r] # Null /\ op[r].kind \in {"promote", "merge"}}
RowsOfRequests ==
  \A r \in Requests : /\ cases[r] # Null => cases[r].org = op[r].org
                      /\ alerts[r] # Null => alerts[r].org = op[r].org
Meeting == \A r, q \in Active : r # q => Overlap(r, q)
Loading(r) ==
  pc[r] \in InFlight =>
    /\ \A p \in seen[r] :
         /\ pc[p[1]] = "done" /\ op[p[1]].org = op[r].org
         /\ alerts[p[1]] = Null =>
              \E q \in Requests : pc[q] = "done" /\ Overlap(r, q) /\ op[q].org = op[r].org
    /\ op[r].kind \in {"promote", "merge", "deleteAlert"} =>
         \A a \in op[r].ids : \E p \in seen[r] : p[1] = a
    /\ op[r].kind = "ingest" /\ seen[r] = {} =>
         \A a \in AlertsOf(op[r].org) : alerts[a].ref = op[r].ref => Overlap(r, a)
    /\ pc[r] = "insert" =>
         \A c \in Requests : cases[c] # Null /\ cases[c].org = op[r].org
                               /\ cases[c].number >= number[r] => Overlap(r, c)
LinksHaveAuthors ==
  /\ \A a \in Requests : alerts[a] # Null /\ alerts[a].case # Null =>
       \E q \in Linkers : /\ pc[q] = "done" /\ a \in op[q].ids
                          /\ op[q].kind = "promote" => alerts[a].case = q
  /\ \A r \in Linkers : pc[r] = "done" =>
       /\ \A a \in op[r].ids : /\ pc[a] = "done"
                               /\ alerts[a] # Null => alerts[a].case # Null
       /\ \A q \in Linkers : q # r /\ pc[q] \in InFlight \cup {"done"}
                              /\ op[r].ids \cap op[q].ids # {} => Overlap(r, q)

(* Why create_case gives up only after MaxAttempts numbers were taken,     *)
(* unless its assignee is no user: it has seen each of its numbers taken,  *)
(* and each is above the one before.                                       *)
Attempts(r) ==
  /\ pc[r] = "idle" => first[r] = 0
  /\ pc[r] = "number" => IF tries[r] = 0 THEN first[r] = 0
                         ELSE Violates(r)
  /\ pc[r] = "exhausted" => Violates(r) /\ tries[r] = MaxAttempts
  /\ pc[r] \in {"number", "insert", "exhausted"} /\ tries[r] > 0 =>
       /\ first[r] > 0
       /\ op[r].body # "dangling" => number[r] + 1 >= first[r] + tries[r]
  /\ pc[r] = "insert" => tries[r] > 0
FinitelyMany == IsFiniteSet({r \in Requests : pc[r] # "idle"})

(* Why the outbox agrees with the tables: an event is of a request that is *)
(* done, and what it deleted stays in its table.                           *)
EventsStand ==
  \A e \in events :
    /\ pc[e.by] = "done"
    /\ e.type = "case.deleted" => op[e.by].case \in Requests /\ cases[op[e.by].case] # Null
HistoryInv ==
  /\ RowsOfRequests /\ Meeting /\ LinksHaveAuthors /\ EventsStand /\ FinitelyMany
  /\ \A r \in Requests : Loading(r) /\ Attempts(r)
IInv == TablesInv /\ HistoryInv

-----------------------------------------------------------------------------
(* What documents and comments say, and the code does not do.              *)

(* A promoted alert is never promoted again: each promoted case keeps its  *)
(* linked alert (phase10-closeout: "case + linked alert + 1 audit row";    *)
(* alerts.py: alert_already_promoted).                                     *)
OnePromotionPerAlert ==
  \A r, q \in Requests :
    pc[r] = "done" /\ pc[q] = "done" /\ op[r].kind = "promote"
      /\ op[q].kind = "promote" /\ op[r].ids = op[q].ids => r = q

(* Ingesting is an upsert (alerts.py): a key that another request inserts  *)
(* first makes an update, not an error.                                    *)
IngestIsUpsert ==
  \A r \in Requests : pc[r] = "clash" => op[r].kind # "ingest"
=============================================================================
