------------------------------ MODULE CaseWork ------------------------------
(***************************************************************************)
(* What analysts and invited outsiders do inside the cases of one          *)
(* organization: closing and dating a case, its tasks (cases.py), its      *)
(* files and shares (attachments.py), observables (observables.py,         *)
(* case_observables.py, observable_import.py), comments and links          *)
(* (case_comments.py) and the portal (portal.py), all under                *)
(* backend/adhkar/api/v1.                                                  *)
(*                                                                         *)
(* A request checks the case in its path, reads the rows it is about, and  *)
(* writes and commits them in one step.  Other requests may commit between *)
(* these steps.  The ORM sends the columns that differ from what it read,  *)
(* so a write that changes nothing does not reach the database.  A row is  *)
(* named after the request that inserts it.                                *)
(***************************************************************************)
EXTENDS Naturals, Sequences, FiniteSets, Functions

CONSTANTS Requests,     \* HTTP requests, each sent once
          Cases,        \* cases of the organization
          Tasks, Files, Observables,          \* rows there are at the start,
          FirstCase, FirstIndex,              \*   in this case, in this order,
          FirstKey, FirstValue,               \*   under this key, of this value
          FirstShares,  \* shares there are at the start, with comments
          Users,        \* members and outsiders
          Keys, Values, \* storage keys; observables by data type and data
          Stored,       \* what the columns hold of a value: it, or its beginning
          AuditedIds,   \* ids that an audit record holds
          Traffic,      \* bound: sets of calls that are made together
          Null          \* no row, no case, no task

ASSUME NamesAssumption ==
  /\ Requests \cap (Tasks \cup Files \cup Observables) = {}
  /\ Null \notin Requests \cup Tasks \cup Cases \cup Keys \cup Values
ASSUME FirstAssumption ==
  /\ FirstCase \in Cases /\ FirstKey \in Keys /\ FirstValue \in Values
  /\ FirstIndex \in [Tasks -> Nat]
  /\ FirstShares \subseteq Cases \X Users
ASSUME AuditAssumption == AuditedIds \in Nat \ {0}
ASSUME StoredAssumption ==
  Stored \in [Values -> Values] /\ \A v \in Values : Stored[Stored[v]] = Stored[v]

VARIABLES db,          \* the committed rows
          call,        \* what a request asks
          pc,          \* where it is, or what it was answered
          seen,        \* the rows as it read them
          log,         \* history: requests in the order of their commits
          checkedAt,   \* history: commits when it checked the case
          readAt       \* history: commits when it read the rows

vars == <<db, call, pc, seen, log, checkedAt, readAt>>

TaskIds == Tasks \cup Requests
FileIds == Files \cup Requests
ObsIds == Observables \cup Requests

(* What can be asked; "same" is a field that a patch does not set.  A link *)
(* of a case to itself is not a call: 400, before anything is read.  A     *)
(* body need not fit its columns: nothing but the database looks for an    *)
(* assignee who is no user (cases.py:83, 794, 805), a null for a column    *)
(* that must be set (cases.py:80, 807), a text or a number that is too     *)
(* long (cases.py:791, attachments.py:154, observables.py:45), or a NUL in *)
(* a text.  An import cuts a value that is too long.                       *)
Stages == {"open", "in_progress", "closed"}
Verdicts == {"clean", "infected", "skipped"}
Calls ==
       [op : {"patchCase"}, case : Cases, stage : Stages \cup {"same"},
        date : {"same", "clear", "set"}, fits : BOOLEAN]
  \cup [op : {"bulkPatchCases"}, ids : SUBSET Cases, stage : Stages \cup {"same"},
        date : {"same", "clear", "set"}, fits : BOOLEAN]
  \cup [op : {"deleteCase"}, case : Cases]
  \cup [op : {"createTask"}, case : Cases, index : Nat, fits : BOOLEAN]
  \cup [op : {"reorder"}, case : Cases, list : Seq(TaskIds)]
  \cup [op : {"patchTask"}, id : TaskIds, index : Nat, fits : BOOLEAN]
  \cup [op : {"bulkPatchTasks"}, ids : SUBSET TaskIds, index : Nat, fits : BOOLEAN]
  \cup [op : {"deleteTask"}, id : TaskIds]
  \cup [op : {"addLog"}, id : TaskIds, fits : BOOLEAN]
  \cup [op : {"registerFile"}, case : Cases, key : Keys, quarantined : BOOLEAN, fits : BOOLEAN]
  \cup [op : {"registerTaskFile"}, id : TaskIds, key : Keys, quarantined : BOOLEAN, fits : BOOLEAN]
  \cup [op : {"verdict", "scan"}, id : FileIds, av : Verdicts]
  \cup [op : {"verdictByKey"}, key : Keys, av : Verdicts, fits : BOOLEAN]
  \cup [op : {"deleteFile"}, id : FileIds]
  \cup {c \in [op : {"createObservable"}, value : Values, fits : BOOLEAN] :
          c.fits => Stored[c.value] = c.value}
  \cup [op : {"import"}, case : Cases \cup {Null}, value : Values, fits : BOOLEAN]
  \cup [op : {"attach"}, case : Cases, ids : {S \in SUBSET ObsIds : IsFiniteSet(S)}]
  \cup [op : {"detach"}, case : Cases, id : ObsIds]
  \cup [op : {"deleteObservable"}, id : ObsIds]
  \cup [op : {"comment", "portalComment"}, case : Cases, user : Users, fits : BOOLEAN]
  \cup [op : {"revoke"}, case : Cases, user : Users]
  \cup [op : {"patchComment"}, id : Requests, user : Users, fits : BOOLEAN]
  \cup [op : {"deleteComment"}, id : Requests, user : Users]
  \cup [op : {"grant"}, case : Cases, user : Users, may : BOOLEAN]
  \cup {l \in [op : {"link"}, case : Cases, id : Cases, fits : BOOLEAN] : l.case # l.id}
  \cup [op : {"unlink"}, id : Requests]
Fits(c) == "fits" \in DOMAIN c => c.fits
ASSUME TrafficAssumption == \A calls \in Traffic : \A c \in calls : c \in Calls

(* The rows.  A case or an observable is deleted by its deleted_at, any    *)
(* other row by its absence; an end_date is named after the request that   *)
(* set it.  trail is what the audit log says of the cases of observables.  *)
NoRows(S) == [s \in S |-> Null]
FirstRows(quarantined) ==
  [gone |-> {}, stage |-> [c \in Cases |-> "open"], date |-> NoRows(Cases),
   taskOf |-> [t \in TaskIds |-> IF t \in Tasks THEN FirstCase ELSE Null],
   index |-> [t \in TaskIds |-> IF t \in Tasks THEN FirstIndex[t] ELSE 0],
   notes |-> [t \in TaskIds |-> {}],
   key |-> [f \in FileIds |-> IF f \in Files THEN FirstKey ELSE Null],
   fileTask |-> NoRows(FileIds),
   av |-> [f \in FileIds |-> "pending"], quarantined |-> quarantined,
   value |-> [o \in ObsIds |-> IF o \in Observables THEN FirstValue ELSE Null],
   place |-> NoRows(ObsIds), dropped |-> {}, trail |-> <<>>,
   said |-> NoRows(Requests),
   share |-> [s \in Cases \X Users |-> IF s \in FirstShares THEN "active" ELSE "none"],
   mayComment |-> FirstShares,
   link |-> NoRows(Cases \X Cases)]

Idle == [op |-> "none"]

Init ==
  /\ \E Q \in SUBSET Files : db = FirstRows([f \in FileIds |-> f \in Q])
  /\ call = [r \in Requests |-> Idle]
  /\ pc = [r \in Requests |-> "idle"]
  /\ seen = [r \in Requests |-> db]
  /\ log = <<>>
  /\ checkedAt = [r \in Requests |-> 0]
  /\ readAt = [r \in Requests |-> 0]

-----------------------------------------------------------------------------
(* The case in the path, if a call has one, is checked before the rows.    *)
(* The handlers below write bodies that fit; RefusedBody has the others.   *)
UnderCase == {"createTask", "reorder", "registerFile", "import", "attach", "detach",
              "grant", "comment", "link"}
Of(r, op) == pc[r] = "write" /\ call[r].op = op /\ Fits(call[r])
Answer(r, code) == pc' = [pc EXCEPT ![r] = code]

Send(r) ==
  /\ pc[r] = "idle"
  /\ \E calls \in Traffic : \E c \in calls :
       /\ \A q \in Requests : pc[q] # "idle" => call[q] \in calls
       /\ call' = [call EXCEPT ![r] = c]
       /\ Answer(r, IF c.op \in UnderCase /\ c.case # Null THEN "check" ELSE "read")
  /\ UNCHANGED <<db, seen, log, checkedAt, readAt>>

(* _load_case, _load_case_or_404: the case is there and not deleted.       *)
DeletedToo(c) == TRUE
Live(c) == c \notin db.gone
CheckCase(r) ==
  /\ pc[r] = "check"
  /\ Answer(r, IF Live(call[r].case) THEN "read" ELSE "404")
  /\ checkedAt' = [checkedAt EXCEPT ![r] = Len(log)]
  /\ UNCHANGED <<db, call, seen, log, readAt>>

(* The row a call is about, if it is about one: what 404, 403 and 409 of   *)
(* its handler say, or "write" if none of them does.                       *)
Wanted(c) ==
  CASE c.op \in {"patchCase", "deleteCase"} -> IF Live(c.case) THEN "write" ELSE "404"
    [] c.op \in {"patchTask", "deleteTask", "addLog", "registerTaskFile"} ->
         IF db.taskOf[c.id] # Null THEN "write" ELSE "404"
    [] c.op \in {"verdict", "scan", "deleteFile"} ->
         IF db.key[c.id] # Null THEN "write" ELSE "404"
    [] c.op = "verdictByKey" ->
         LET F == {f \in FileIds : db.key[f] = c.key}
         IN  IF ~c.fits THEN "500" ELSE IF F = {} THEN "404"
             ELSE IF \E f \in F : F = {f} THEN "write" ELSE "500"
    [] c.op = "deleteObservable" ->
         IF db.value[c.id] # Null /\ c.id \notin db.dropped THEN "write" ELSE "404"
    [] c.op = "detach" ->
         IF db.place[c.id] = c.case /\ c.id \notin db.dropped THEN "write" ELSE "404"
    [] c.op = "revoke" -> IF db.share[c.case, c.user] # "none" THEN "write" ELSE "404"
    [] c.op \in {"patchComment", "deleteComment"} ->
         IF db.said[c.id] = Null THEN "404"
         ELSE IF call[c.id].user # c.user THEN "403" ELSE "write"
    [] c.op = "portalComment" ->
         IF db.share[c.case, c.user] # "active" THEN "404"
         ELSE IF <<c.case, c.user>> \notin db.mayComment THEN "403" ELSE "write"
    [] c.op = "link" -> IF Live(c.id) THEN "write" ELSE "404"
    [] c.op = "unlink" ->
         IF \E p \in DOMAIN db.link : db.link[p] = c.id THEN "write" ELSE "404"
    [] OTHER -> "write"

Read(r) ==
  /\ pc[r] = "read"
  /\ Answer(r, Wanted(call[r]))
  /\ seen' = [seen EXCEPT ![r] = db]
  /\ readAt' = [readAt EXCEPT ![r] = Len(log)]
  /\ checkedAt' = [checkedAt EXCEPT ![r] = IF call[r].op \in UnderCase THEN @ ELSE Len(log)]
  /\ UNCHANGED <<db, call, log>>

(* The transaction of r commits, or a constraint refuses it.               *)
Commit(r, rows) ==
  /\ db' = rows
  /\ Answer(r, "200")
  /\ log' = Append(log, r)
  /\ UNCHANGED <<call, seen, checkedAt, readAt>>
Refuse(r, code) == Answer(r, code) /\ UNCHANGED <<db, call, seen, log, checkedAt, readAt>>

(* What the ORM sends: the columns whose new value is not the one it read. *)
Changed(old, new) == {x \in DOMAIN new : new[x] # old[x]}
Updated(f, old, new) == [x \in DOMAIN f |-> IF x \in Changed(old, new) THEN new[x] ELSE f[x]]

(* An UPDATE that finds no row is an error of the ORM if it is about one   *)
(* row; of a batch of rows not every driver tells.                         *)
Batch(r, lost, size, rows) ==
  \/ (lost = {} \/ size > 1) /\ Commit(r, rows)
  \/ lost # {} /\ Refuse(r, "500")

-----------------------------------------------------------------------------
(* patch_case and bulk_patch_cases: closing dates the cases that have no   *)
(* end_date, unless the patch says what it is.                             *)
NotYetBegun(r, S) == {c \in S : seen[r].date[c] = Null /\ seen[r].stage[c] = "in_progress"}
Undated(r, S) == {c \in S : seen[r].date[c] = Null}
NewStage(c, S) == IF c.stage = "same" THEN <<>> ELSE [x \in S |-> c.stage]
NewDate(r, S) ==
  CASE call[r].date = "clear" -> [x \in S |-> Null]
    [] call[r].date = "set" -> [x \in S |-> r]
    [] call[r].date = "same" /\ call[r].stage = "closed" -> [x \in Undated(r, S) |-> r]
    [] OTHER -> <<>>
Patch(r, S) ==
  Commit(r, [db EXCEPT !.stage = Updated(@, seen[r].stage, NewStage(call[r], S)),
                       !.date = Updated(@, seen[r].date, NewDate(r, S))])

PatchCase(r) == Of(r, "patchCase") /\ Patch(r, {call[r].case})
BulkPatchCases(r) == Of(r, "bulkPatchCases") /\ Patch(r, call[r].ids \ seen[r].gone)
DeleteCase(r) ==
  Of(r, "deleteCase") /\ Commit(r, [db EXCEPT !.gone = @ \cup {call[r].case}])

-----------------------------------------------------------------------------
(* Tasks and their logs.  Nothing but the path of create_task and          *)
(* reorder_tasks looks at the case.                                        *)
CreateTask(r) ==
  Of(r, "createTask") /\ Commit(r, [db EXCEPT !.taskOf[r] = call[r].case,
                                              !.index[r] = call[r].index])

Reindex(r, new) ==
  LET moved == Changed(seen[r].index, new)
  IN  Batch(r, {t \in moved : db.taskOf[t] = Null}, Cardinality(moved),
            [db EXCEPT !.index = Updated(@, seen[r].index, new)])

(* reorder_tasks: the last position of a task in the list, for the listed  *)
(* tasks that are of this case.                                            *)
FirstAt(list, t, i) == list[i + 1] = t /\ \A j \in 1..i : list[j] # t
LastAt(list, t, i) == list[i + 1] = t /\ \A j \in i + 2..Len(list) : list[j] # t
ReorderTasks(r) ==
  LET list == call[r].list
      S == {t \in Range(list) : seen[r].taskOf[t] = call[r].case}
  IN  /\ Of(r, "reorder")
      /\ \E position \in [S -> 0..Len(list) - 1] :
           /\ \A t \in S : LastAt(list, t, position[t])
           /\ Reindex(r, position)
PatchTask(r) == Of(r, "patchTask") /\ Reindex(r, [t \in {call[r].id} |-> call[r].index])
FoundTasks(r) == {t \in call[r].ids : seen[r].taskOf[t] # Null}
BulkPatchTasks(r) ==
  Of(r, "bulkPatchTasks") /\ Reindex(r, [t \in FoundTasks(r) |-> call[r].index])

(* The foreign keys of logs and files on their task.                       *)
NotReferenced(t) == TRUE
Unreferenced(t) == db.notes[t] = {} /\ \A f \in FileIds : db.fileTask[f] # t
DeleteTask(r) ==
  /\ Of(r, "deleteTask")
  /\ IF Unreferenced(call[r].id) THEN Commit(r, [db EXCEPT !.taskOf[call[r].id] = Null])
                                 ELSE Refuse(r, "500")
AddTaskLog(r) ==
  /\ Of(r, "addLog")
  /\ IF db.taskOf[call[r].id] # Null
     THEN Commit(r, [db EXCEPT !.notes[call[r].id] = @ \cup {r}])
     ELSE Refuse(r, "500")

-----------------------------------------------------------------------------
(* Files.  A storage key may be registered again.                          *)
Registered(r, t) ==
  [db EXCEPT !.key[r] = call[r].key, !.fileTask[r] = t,
             !.quarantined[r] = call[r].quarantined]
RegisterCaseAttachment(r) == Of(r, "registerFile") /\ Commit(r, Registered(r, Null))
RegisterTaskAttachment(r) ==
  /\ Of(r, "registerTaskFile")
  /\ IF db.taskOf[call[r].id] # Null THEN Commit(r, Registered(r, call[r].id))
                                     ELSE Refuse(r, "500")

(* av_scan_webhook quarantines what is infected; set_av_scan, the manual   *)
(* verdict, does not.  Both release what is clean.                         *)
OnlyRelease(r, f) == IF call[r].av = "clean" THEN [x \in {f} |-> FALSE] ELSE <<>>
Quarantine(r, f) ==
  CASE call[r].av = "clean" -> [x \in {f} |-> FALSE]
    [] call[r].av = "infected" /\ call[r].op # "scan" -> [x \in {f} |-> TRUE]
    [] OTHER -> <<>>
Judge(r, f) ==
  LET status == [x \in {f} |-> call[r].av]
      changed == Changed(seen[r].av, status) \cup Changed(seen[r].quarantined, Quarantine(r, f))
  IN  Batch(r, {x \in changed : db.key[x] = Null}, 1,
            [db EXCEPT !.av = Updated(@, seen[r].av, status),
                       !.quarantined = Updated(@, seen[r].quarantined, Quarantine(r, f))])
AvScanWebhook(r) ==
  \/ Of(r, "verdict") /\ Judge(r, call[r].id)
  \/ Of(r, "verdictByKey") /\ \E f \in FileIds : seen[r].key[f] = call[r].key /\ Judge(r, f)
SetAvScan(r) == Of(r, "scan") /\ Judge(r, call[r].id)
DeleteAttachment(r) ==
  Of(r, "deleteFile") /\ Commit(r, [db EXCEPT !.key[call[r].id] = Null,
                                              !.fileTask[call[r].id] = Null])

-----------------------------------------------------------------------------
(* Observables and the audit records of where they are; only the first     *)
(* ids of a longer list are in the record.                                 *)
Audited(S) ==
  IF Cardinality(S) <= AuditedIds THEN {S} ELSE {T \in SUBSET S : Cardinality(T) = AuditedIds}
CaseNamed(r, T, to) == [ids |-> T, to |-> call[r].case, by |-> r]
Moved(r, T, to) == [ids |-> T, to |-> to, by |-> r]
Move(r, S, to) ==
  \E T \in Audited(S) :
    Commit(r, [db EXCEPT !.place = Updated(@, seen[r].place, [o \in S |-> to]),
                         !.trail = Append(@, Moved(r, T, to))])

CreateObservable(r) ==
  Of(r, "createObservable") /\ Commit(r, [db EXCEPT !.value[r] = call[r].value])

(* import_observables_csv, one row: not if the observable is in the case,  *)
(* or anywhere when no case is given.  It looks for the whole value, but   *)
(* stores what the columns hold of it.                                     *)
NoTwins(r) == {}
Twins(r) == {o \in ObsIds \ seen[r].dropped :
               /\ seen[r].value[o] = call[r].value
               /\ call[r].case = Null \/ seen[r].place[o] = call[r].case}
ImportObservables(r) ==
  /\ Of(r, "import")
  /\ Commit(r, IF Twins(r) # {} THEN db ELSE
                [db EXCEPT !.value[r] = Stored[call[r].value], !.place[r] = call[r].case,
                           !.trail = Append(@, Moved(r, {r}, call[r].case))])

(* attach_observables_to_case also takes observables from other cases.     *)
AttachObservables(r) ==
  LET S == {o \in call[r].ids \ seen[r].dropped :
              seen[r].value[o] # Null /\ seen[r].place[o] # call[r].case}
  IN  /\ Of(r, "attach")
      /\ IF S = {} THEN Commit(r, db) ELSE Move(r, S, call[r].case)
DetachObservable(r) == Of(r, "detach") /\ Move(r, {call[r].id}, Null)
DeleteObservable(r) ==
  Of(r, "deleteObservable") /\ Commit(r, [db EXCEPT !.dropped = @ \cup {call[r].id}])

-----------------------------------------------------------------------------
(* Comments, of members and through the portal, and links between cases.   *)
CreateComment(r) ==
  (Of(r, "comment") \/ Of(r, "portalComment")) /\ Commit(r, [db EXCEPT !.said[r] = r])
PatchComment(r) ==
  /\ Of(r, "patchComment")
  /\ IF db.said[call[r].id] # Null THEN Commit(r, [db EXCEPT !.said[call[r].id] = r])
                                   ELSE Refuse(r, "500")
DeleteComment(r) ==
  Of(r, "deleteComment") /\ Commit(r, [db EXCEPT !.said[call[r].id] = Null])

(* The unique keys of links and shares; a revoked share keeps its row.     *)
NotLinked(c) == db.link[c.case, c.id] = Null /\ db.link[c.id, c.case] = Null
LinkFree(c) == db.link[c.case, c.id] = Null
ShareInactive(c) == db.share[c.case, c.user] # "active"
ShareFree(c) == db.share[c.case, c.user] = "none"
CreateLink(r) ==
  /\ Of(r, "link")
  /\ IF LinkFree(call[r]) THEN Commit(r, [db EXCEPT !.link[<<call[r].case, call[r].id>>] = r])
                          ELSE Refuse(r, "409")
DeleteLink(r) ==
  Of(r, "unlink") /\ Commit(r, [db EXCEPT !.link =
    [p \in Cases \X Cases |-> IF db.link[p] = call[r].id THEN Null ELSE db.link[p]]])

GrantShare(r) ==
  LET s == <<call[r].case, call[r].user>>
  IN  /\ Of(r, "grant")
      /\ IF ShareFree(call[r])
         THEN Commit(r, [db EXCEPT !.share[s] = "active",
                                   !.mayComment = IF call[r].may THEN @ \cup {s} ELSE @])
         ELSE Refuse(r, "409")
RevokeShare(r) ==
  Of(r, "revoke") /\ Commit(r, [db EXCEPT !.share[<<call[r].case, call[r].user>>] = "revoked"])

-----------------------------------------------------------------------------
(* A body that does not fit fails at the flush, which no handler catches   *)
(* but create_case_link and grant_share, and these only a broken           *)
(* constraint (case_comments.py:267, attachments.py:416).  It passes when  *)
(* no row gets it: a bulk patch finds none, or its rows are deleted before *)
(* it writes and the driver does not tell, or an import finds a twin.      *)
Unfit(r) == pc[r] = "write" /\ ~Fits(call[r])
RefusedBody(r) ==
  /\ Unfit(r)
  /\ call[r].op = "bulkPatchCases" => call[r].ids \ seen[r].gone # {}
  /\ call[r].op = "bulkPatchTasks" => FoundTasks(r) # {}
  /\ Refuse(r, "500")
UnwrittenBody(r) ==
  /\ Unfit(r)
  /\ \/ call[r].op = "bulkPatchCases" /\ call[r].ids \ seen[r].gone = {}
     \/ /\ call[r].op = "bulkPatchTasks" /\ Cardinality(FoundTasks(r)) # 1
        /\ \A t \in FoundTasks(r) : db.taskOf[t] = Null
     \/ call[r].op = "import" /\ Twins(r) # {}
  /\ Commit(r, db)

-----------------------------------------------------------------------------
CaseCall(r) == PatchCase(r) \/ BulkPatchCases(r) \/ DeleteCase(r)
TaskCall(r) ==
  \/ CreateTask(r) \/ ReorderTasks(r) \/ PatchTask(r) \/ BulkPatchTasks(r)
  \/ DeleteTask(r) \/ AddTaskLog(r)
FileCall(r) ==
  \/ RegisterCaseAttachment(r) \/ RegisterTaskAttachment(r)
  \/ AvScanWebhook(r) \/ SetAvScan(r) \/ DeleteAttachment(r)
ObservableCall(r) ==
  \/ CreateObservable(r) \/ ImportObservables(r) \/ AttachObservables(r)
  \/ DetachObservable(r) \/ DeleteObservable(r)
TalkCall(r) ==
  \/ CreateComment(r) \/ PatchComment(r) \/ DeleteComment(r)
  \/ CreateLink(r) \/ DeleteLink(r) \/ GrantShare(r) \/ RevokeShare(r)
UnfitCall(r) == RefusedBody(r) \/ UnwrittenBody(r)
Next == \E r \in Requests :
  \/ Send(r) \/ CheckCase(r) \/ Read(r)
  \/ CaseCall(r) \/ TaskCall(r) \/ FileCall(r) \/ ObservableCall(r) \/ TalkCall(r)
  \/ UnfitCall(r)
Spec == Init /\ [][Next]_vars

-----------------------------------------------------------------------------
(* Words of the properties.                                                *)
Done(r) == pc[r] = "200"
Nth(r) == CHOOSE i \in 1..Len(log) : log[i] = r
Before(r, s) == Done(r) /\ Done(s) /\ Nth(r) < Nth(s)
After(s, commits) == Done(s) /\ Nth(s) > commits
Overtook(r, s) == Before(r, s) /\ Nth(r) > readAt[s]
Overlap(r, s) == Overtook(r, s) \/ Overtook(s, r)
By(r, ops) == call[r].op \in ops

Codes == {"200", "403", "404", "409", "500"}
Database ==
  [gone : SUBSET Cases, stage : [Cases -> Stages], date : [Cases -> Requests \cup {Null}],
   taskOf : [TaskIds -> Cases \cup {Null}], index : [TaskIds -> Nat],
   notes : [TaskIds -> SUBSET Requests],
   key : [FileIds -> Keys \cup {Null}], fileTask : [FileIds -> TaskIds \cup {Null}],
   av : [FileIds -> Verdicts \cup {"pending"}], quarantined : [FileIds -> BOOLEAN],
   value : [ObsIds -> Values \cup {Null}], place : [ObsIds -> Cases \cup {Null}],
   dropped : SUBSET ObsIds,
   trail : Seq([ids : SUBSET ObsIds, to : Cases \cup {Null}, by : Requests]),
   said : [Requests -> Requests \cup {Null}],
   share : [Cases \X Users -> {"none", "active", "revoked"}], mayComment : SUBSET (Cases \X Users),
   link : [Cases \X Cases -> Requests \cup {Null}]]
TypeOK ==
  /\ db \in Database
  /\ call \in [Requests -> Calls \cup {Idle}]
  /\ pc \in [Requests -> {"idle", "check", "read", "write"} \cup Codes]
  /\ seen \in [Requests -> Database]
  /\ log \in Seq(Requests)
  /\ checkedAt \in [Requests -> Nat] /\ readAt \in [Requests -> Nat]

(* Logs and files are of a task that exists, whatever was deleted while    *)
(* they were being added (the foreign keys under delete_task).             *)
Referenced(rows) ==
  /\ \A t \in TaskIds : rows.notes[t] # {} => rows.taskOf[t] # Null
  /\ \A f \in FileIds : rows.fileTask[f] # Null => rows.taskOf[rows.fileTask[f]] # Null
ReferencesHold == Referenced(db)

(* A closed case has an end date, unless a call cleared the date after the *)
(* case was closed, or while a call was closing it that had read the old   *)
(* date (patch_case, bulk_patch_cases).                                    *)
Patched(r, c) ==
  /\ Done(r)
  /\ \/ By(r, {"patchCase"}) /\ call[r].case = c
     \/ By(r, {"bulkPatchCases"}) /\ c \in call[r].ids \ seen[r].gone
ClosedIsDated ==
  \A c \in Cases : db.stage[c] = "closed" /\ db.date[c] = Null =>
    \E r \in Requests :
      /\ Patched(r, c) /\ call[r].date = "clear"
      /\ \A s \in Requests \ {r} : Patched(s, c) /\ call[s].stage = "closed" =>
           Before(s, r) \/ Overtook(r, s) \/ call[s].date = "clear"

(* An infected file is quarantined, unless the last to call it infected    *)
(* was a person, or two verdicts were written at once (av_scan_webhook,    *)
(* set_av_scan).                                                           *)
Judged(r, f, verdict) ==
  /\ Done(r) /\ By(r, {"verdict", "verdictByKey", "scan"}) /\ call[r].av = verdict
  /\ IF call[r].op = "verdictByKey" THEN seen[r].key[f] = call[r].key ELSE call[r].id = f
InfectedIsQuarantined ==
  \A f \in FileIds : db.av[f] = "infected" /\ ~db.quarantined[f] =>
    \/ \E r \in Requests :
         /\ Judged(r, f, "infected") /\ call[r].op = "scan"
         /\ \A s \in Requests : Judged(s, f, "infected") /\ call[s].op # "scan" => Before(s, r)
    \/ \E r, s \in Requests :
         Judged(r, f, "infected") /\ Judged(s, f, "clean") /\ Overlap(r, s)

(* After a reorder that no other change of an index overtook or followed,  *)
(* the tasks it lists are in the order of their last places in the list    *)
(* (reorder_tasks, which skips tasks whose index it believes right).       *)
IndexWriters == {"reorder", "patchTask", "bulkPatchTasks"}
ReorderIsKept ==
  \A r \in Requests : Done(r) /\ By(r, {"reorder"})
      /\ (\A s \in Requests \ {r} : Done(s) /\ By(s, IndexWriters) => Before(s, r) /\ ~Overtook(s, r))
    => \A i, j \in 1..Len(call[r].list) :
         LET t == call[r].list[i]
             u == call[r].list[j]
         IN  /\ i < j /\ \A k \in i + 1..Len(call[r].list) : call[r].list[k] # t
             /\ \A k \in j + 1..Len(call[r].list) : call[r].list[k] # u
             /\ \A x \in {t, u} : seen[r].taskOf[x] = call[r].case /\ db.taskOf[x] # Null
             => db.index[t] < db.index[u]

(* Where an observable is, is what the audit log last says of it, unless   *)
(* it was in a list too long for the record; and a record that takes it    *)
(* out of a case follows one that put it in that case, unless it was moved *)
(* while the call was under way (attach_observables_to_case,               *)
(* detach_observable_from_case, import_observables_csv).                   *)
Records(o) == {i \in 1..Len(db.trail) : o \in db.trail[i].ids}
IsLastOf(i, I) == i \in I /\ \A j \in I : j <= i
TooLong(o) == \E r \in Requests : /\ Done(r) /\ By(r, {"attach"}) /\ o \in call[r].ids
                                  /\ Cardinality(call[r].ids) > AuditedIds
PlacementFollowsAudit ==
  \A o \in ObsIds : TooLong(o) \/
    /\ IF Records(o) = {} THEN db.place[o] = Null
       ELSE \E i \in Records(o) : IsLastOf(i, Records(o)) /\ db.place[o] = db.trail[i].to
    /\ \A i \in Records(o) : db.trail[i].to = Null /\ By(db.trail[i].by, {"detach"}) =>
         \E j \in Records(o) :
           /\ IsLastOf(j, {k \in Records(o) : k < i})
           /\ \/ db.trail[j].to = call[db.trail[i].by].case
              \/ Overtook(db.trail[j].by, db.trail[i].by)

(* An import does not repeat an observable of its case, unless the two     *)
(* imports ran at once, or the observable was moved since, or the later    *)
(* import is of a value that is longer than its column: that one never     *)
(* finds what an earlier import stored of it (import_observables_csv,      *)
(* which looks first and then inserts).                                    *)
Unmoved(r) == /\ \A q \in Requests : Done(q) /\ By(q, {"attach"}) => r \notin call[q].ids
              /\ \A q \in Requests : Done(q) /\ By(q, {"detach"}) => r # call[q].id
Lasting(r) == Done(r) /\ By(r, {"import"}) /\ db.value[r] # Null /\ Unmoved(r)
TooLongValue(r) == Stored[call[r].value] # call[r].value
Imported(r) == Lasting(r) /\ r \notin db.dropped
ImportsDoNotRepeat ==
  \A r, s \in Requests :
    /\ Imported(r) /\ Imported(s) /\ Before(r, s)
    /\ call[r].case = call[s].case /\ db.value[r] = db.value[s]
    => Overtook(r, s) \/ TooLongValue(s)

(* Nothing is added to a deleted case, unless the call had found the case  *)
(* before it was deleted (_load_case and its likes).  Task routes and the  *)
(* portal do not look at the case.                                         *)
Joining == {"createTask", "registerFile", "import", "attach", "comment", "grant", "link"}
NothingJoinsADeletedCase ==
  \A d, r \in Requests :
    /\ Before(d, r) /\ By(d, {"deleteCase"}) /\ By(r, Joining)
    => /\ call[r].case = call[d].case => checkedAt[r] < Nth(d)
       /\ By(r, {"link"}) /\ call[r].id = call[d].case => readAt[r] < Nth(d)

(* Who comments through the portal was granted to comment on the case      *)
(* before, and no share of theirs in the case was revoked before the check *)
(* of the share: revocation is for good (_verify_share, grant_share).      *)
SameShare(r, s) == call[r].case = call[s].case /\ call[r].user = call[s].user
Invited(r) ==
  /\ \/ <<call[r].case, call[r].user>> \in FirstShares
     \/ \E g \in Requests : /\ Done(g) /\ By(g, {"grant"}) /\ SameShare(g, r)
                             /\ call[g].may /\ Nth(g) <= readAt[r]
  /\ \A v \in Requests : By(v, {"revoke"}) /\ SameShare(v, r) /\ Done(v) => Nth(v) > readAt[r]
OutsidersAreInvited ==
  \A r \in Requests : Done(r) /\ By(r, {"portalComment"}) => Invited(r)

(* A call fails with 500 or 409 for a reason: the row went away while it   *)
(* was under way, the task it deletes was used, two files have one key, or *)
(* there is or was such a link or share (IntegrityError and the rows that  *)
(* an UPDATE misses).  Only a body that does not fit fails alone.          *)
Deletes(s, r) ==
  LET rows == IF By(r, {"reorder"}) THEN Range(call[r].list)
              ELSE IF By(r, {"bulkPatchTasks"}) THEN call[r].ids
              ELSE IF By(r, {"verdictByKey"}) THEN {f \in FileIds : seen[r].key[f] = call[r].key}
              ELSE {call[r].id}
  IN  /\ After(s, readAt[r]) /\ call[s].op \in {"deleteTask", "deleteFile", "deleteComment"}
      /\ call[s].id \in rows
HasReason(r) ==
  CASE By(r, {"deleteTask"}) ->
         \E s \in Requests : Done(s) /\ By(s, {"addLog", "registerTaskFile"}) /\ call[s].id = call[r].id
    [] By(r, {"grant"}) ->
         \/ <<call[r].case, call[r].user>> \in FirstShares
         \/ \E s \in Requests \ {r} : Done(s) /\ By(s, {"grant"}) /\ SameShare(s, r)
    [] By(r, {"link"}) -> \E s \in Requests \ {r} :
         Done(s) /\ By(s, {"link"}) /\ call[s].case = call[r].case /\ call[s].id = call[r].id
    [] By(r, {"verdictByKey"}) ->
         \/ \E s \in Requests : Deletes(s, r) \/ (Done(s) /\ By(s, {"registerFile", "registerTaskFile"}))
         \/ call[r].key = FirstKey /\ \E f, g \in Files : f # g
    [] OTHER -> \E s \in Requests : Deletes(s, r)
ErrorsHaveReasons ==
  \A r \in Requests : pc[r] \in {"409", "500"} => (pc[r] = "500" /\ ~Fits(call[r])) \/ HasReason(r)

(* What makes NothingJoinsADeletedCase and OutsidersAreInvited inductive:  *)
(* the log lists each commit once; deletions, revocations and grants show  *)
(* in the rows; and what a request found when it looked.                   *)
CommitOrder ==
  /\ \A r \in Requests : Done(r) <=> \E i \in 1..Len(log) : log[i] = r
  /\ \A i, j \in 1..Len(log) : log[i] = log[j] => i = j
  /\ \A r \in Requests : checkedAt[r] <= Len(log) /\ readAt[r] <= Len(log)
HistoryShows ==
  /\ \A d \in Requests : Done(d) /\ By(d, {"deleteCase"}) => call[d].case \in db.gone
  /\ \A v \in Requests : Done(v) /\ By(v, {"revoke"}) =>
       db.share[<<call[v].case, call[v].user>>] = "revoked"
  /\ \A s \in db.mayComment : s \in FirstShares \/ \E g \in Requests :
       Done(g) /\ By(g, {"grant"}) /\ call[g].may /\ s = <<call[g].case, call[g].user>>
JoinersFoundTheCase ==
  \A d, r \in Requests : Done(d) /\ By(d, {"deleteCase"}) /\ By(r, Joining) =>
    /\ pc[r] \in {"read", "write", "200"} /\ call[r].case = call[d].case => checkedAt[r] < Nth(d)
    /\ pc[r] \in {"write", "200"} /\ By(r, {"link"}) /\ call[r].id = call[d].case
         => readAt[r] < Nth(d)
GuestsFoundTheShare ==
  \A r \in Requests : pc[r] \in {"write", "200"} /\ By(r, {"portalComment"}) => Invited(r)
RowsInv == TypeOK /\ ReferencesHold
CoreInv == RowsInv /\ CommitOrder /\ HistoryShows /\ JoinersFoundTheCase /\ GuestsFoundTheShare

(* What makes the other properties inductive.  Of any commits one is the   *)
(* last; what rows say was put there by a request that is done; and what   *)
(* a request is about was there when it read the rows.                     *)
Commits == {r \in Requests : Done(r)}
LatestExists == \A T \in SUBSET Commits : T # {} => \E r \in T : \A s \in T : Nth(s) <= Nth(r)
Accounted(rows, done, asked) ==
  LET PutBy(q, ops) == q \in done /\ asked[q].op \in ops IN
  /\ \A c \in Cases : rows.date[c] # Null => rows.date[c] \in done
  /\ \A t \in TaskIds : rows.taskOf[t] # Null => t \in Tasks \cup done
  /\ \A t \in TaskIds : \A q \in rows.notes[t] : PutBy(q, {"addLog"}) /\ asked[q].id = t
  /\ \A f \in FileIds : rows.key[f] # Null =>
       (f \in Files /\ rows.key[f] = FirstKey) \/ PutBy(f, {"registerFile", "registerTaskFile"})
  /\ \A f \in FileIds : rows.fileTask[f] # Null =>
       PutBy(f, {"registerTaskFile"}) /\ asked[f].id = rows.fileTask[f]
  /\ \A o \in ObsIds : rows.value[o] # Null => o \in Observables \cup done
  /\ \A s \in Cases \X Users : rows.share[s] # "none" =>
       \/ s \in FirstShares
       \/ \E g \in done : PutBy(g, {"grant"}) /\ s = <<asked[g].case, asked[g].user>>
  /\ \A p \in Cases \X Cases : rows.link[p] # Null =>
       LET q == rows.link[p] IN PutBy(q, {"link"}) /\ p = <<asked[q].case, asked[q].id>>
AimsAt(c, rows) ==
  /\ c.op \in {"patchTask", "deleteTask", "addLog", "registerTaskFile"} => rows.taskOf[c.id] # Null
  /\ c.op \in {"verdict", "scan", "deleteFile"} => rows.key[c.id] # Null
  /\ c.op = "verdictByKey" => \E f \in FileIds : {g \in FileIds : rows.key[g] = c.key} = {f}
  /\ c.op = "detach" => rows.place[c.id] = c.case
  /\ c.op \in {"patchComment", "deleteComment"} => rows.said[c.id] # Null
  /\ c.op = "revoke" => rows.share[<<c.case, c.user>>] # "none"
Aimed(r) == AimsAt(call[r], seen[r])
Grounded ==
  /\ LatestExists
  /\ Accounted(db, Commits, call)
  /\ \A r \in Requests : Accounted(seen[r], Commits, call)
  /\ \A r \in Requests : pc[r] \in {"write", "200"} => Aimed(r)

(* A change between the reading and the writing of a request was made by   *)
(* a commit since; an effect that is undone was undone by a commit since   *)
(* its request read the rows.                                              *)
Writing == {r \in Requests : pc[r] = "write"}
Clears(s, c) == Patched(s, c) /\ call[s].date = "clear"
DatesExplained ==
  /\ \A r \in Writing : \A c \in Cases : seen[r].date[c] # Null /\ db.date[c] = Null =>
       \E s \in Requests : Clears(s, c) /\ Nth(s) > readAt[r]
  /\ \A c \in Cases : db.date[c] = Null =>
       \A r \in Requests : Patched(r, c) /\ call[r].stage = "closed" /\ call[r].date # "clear" =>
         \E s \in Requests : Clears(s, c) /\ Nth(s) > readAt[r]
  /\ \A c \in Cases : db.stage[c] = "closed" =>
       \E r \in Requests : Patched(r, c) /\ call[r].stage = "closed"
JudgedSince(s, f, verdict, r) == Judged(s, f, verdict) /\ Nth(s) > readAt[r]
VerdictsExplained ==
  /\ \A r \in Writing : \A f \in FileIds : seen[r].key[f] # Null =>
       /\ seen[r].quarantined[f] /\ ~db.quarantined[f] =>
            \E s \in Requests : JudgedSince(s, f, "clean", r)
       /\ seen[r].av[f] # "infected" /\ db.av[f] = "infected" =>
            \E s \in Requests : JudgedSince(s, f, "infected", r)
  /\ \A f \in FileIds : ~db.quarantined[f] =>
       \A r \in Requests : Judged(r, f, "infected") /\ call[r].op # "scan" =>
         \E s \in Requests : JudgedSince(s, f, "clean", r)
  /\ \A f \in FileIds : db.av[f] = "infected" =>
       /\ \E r \in Requests : Judged(r, f, "infected")
       /\ \A r \in Requests : Judged(r, f, "clean") =>
            \E s \in Requests : JudgedSince(s, f, "infected", r)
Alone(r) == \A s \in Requests \ {r} : Done(s) /\ By(s, IndexWriters) => Nth(s) <= readAt[r]
OrderExplained ==
  /\ \A r \in Writing : Alone(r) =>
       \A t \in TaskIds : seen[r].taskOf[t] # Null => db.index[t] = seen[r].index[t]
  /\ \A r \in Requests : Done(r) /\ By(r, {"reorder"}) /\ Alone(r) =>
       \A t \in Range(call[r].list) : seen[r].taskOf[t] = call[r].case =>
         \E i \in 0..Len(call[r].list) - 1 : LastAt(call[r].list, t, i) /\ db.index[t] = i
MovedSince(o, commits) ==
  \E i \in Records(o) : IsLastOf(i, Records(o)) /\ Nth(db.trail[i].by) > commits
PlacesExplained ==
  /\ \A i \in 1..Len(db.trail) : Done(db.trail[i].by)
  /\ \A r \in Writing : \A o \in ObsIds :
       TooLong(o) \/ seen[r].place[o] = db.place[o] \/ MovedSince(o, readAt[r])
ImportsExplained ==
  /\ \A r \in Requests : Lasting(r) =>
       db.value[r] = Stored[call[r].value] /\ db.place[r] = call[r].case
  /\ \A s, r \in Requests : pc[s] \in {"write", "200"} /\ Lasting(r) /\ Nth(r) <= readAt[s] =>
       /\ seen[s].value[r] = Stored[call[r].value] /\ seen[s].place[r] = call[r].case
       /\ r \in seen[s].dropped => r \in db.dropped
  /\ \A r, s \in Requests :
       /\ Imported(r) /\ Done(s) /\ By(s, {"import"}) /\ db.value[s] # Null /\ r # s
       /\ call[r].case = call[s].case /\ Stored[call[r].value] = call[s].value
       => Nth(r) > readAt[s]
LossesExplained ==
  \A r \in Writing :
    /\ \A t \in TaskIds : seen[r].taskOf[t] # Null /\ db.taskOf[t] = Null =>
         \E s \in Requests : After(s, readAt[r]) /\ By(s, {"deleteTask"}) /\ call[s].id = t
    /\ \A f \in FileIds : seen[r].key[f] # Null /\ db.key[f] = Null =>
         \E s \in Requests : After(s, readAt[r]) /\ By(s, {"deleteFile"}) /\ call[s].id = f
    /\ \A c \in Requests : seen[r].said[c] # Null /\ db.said[c] = Null =>
         \E s \in Requests : After(s, readAt[r]) /\ By(s, {"deleteComment"}) /\ call[s].id = c
Explained ==
  /\ DatesExplained /\ VerdictsExplained /\ OrderExplained
  /\ PlacesExplained /\ PlacementFollowsAudit
  /\ ImportsExplained /\ LossesExplained /\ ErrorsHaveReasons
IInv == CoreInv /\ Grounded /\ Explained
=============================================================================
