----------------------------- MODULE CaseViews ------------------------------
(***************************************************************************)
(* The requests that only read cases and what hangs on them: cases.py,     *)
(* alerts.py, observables.py, case_observables.py, observable_import.py,   *)
(* observable_similarity.py, case_comments.py, case_timeline.py,           *)
(* attachments.py, portal.py, search.py and stats.py under                 *)
(* backend/adhkar/api/v1.                                                  *)
(*                                                                         *)
(* A log is under its task, a link under its source case and named by its  *)
(* target; an alert, an observable or a case names what makes it the same  *)
(* as another; a share is of a user (by) to a case (under).  What a case   *)
(* or an alert is about in the audit log is under it.                      *)
(***************************************************************************)
EXTENDS Views

(* Cases.                                                                  *)
ListCases(r) == Answer(r, "listCases", <<Polled(r, Live(Own(r, "case")))>>)
ListRecentCases(r) ==
  Answer(r, "recentCases", <<Newest(Live(Own(r, "case")), Changed, call[r].limit)>>)
GetCase(r) == AnswerIf(r, "getCase", ThisCase(r), <<>>)
ExportCasesCsv(r) == Answer(r, "exportCases", <<All(Since(r, Live(Own(r, "case"))))>>)

(* Who wrote about a case: comments and logs by the case alone.            *)
LogsOf(r, c) == {x \in In(r, "log") : \E t \in Under(In(r, "task"), c) : db[x].under = t}
Contributions(r) ==
  <<Under(In(r, "comment"), call[r].id), LogsOf(r, call[r].id),
    Under(Own(r, "audit"), call[r].id)>>
Someones(S) == {x \in S : db[x].by # Null}
ListCaseContributors(r) ==
  AnswerIf(r, "contributors", ThisCase(r), [k \in 1..3 |-> All(Someones(Contributions(r)[k]))])
MyCaseContributorRow(r) ==
  AnswerIf(r, "myContribution", ThisCase(r),
           [k \in 1..3 |-> All(By(Contributions(r)[k], call[r].user))])

(* Links of a case, either way, and then the cases at their other ends.    *)
LinksOf(r, c) == {x \in Own(r, "link") : c \in {db[x].under, db[x].name}}
Peers(r, links) ==
  {c \in Live(Own(r, "case")) : c # call[r].id /\ \E x \in links : c \in {seen[r][x].under, seen[r][x].name}}
ListRelatedCases(r) ==
  AnswerIf(r, "related", ThisCase(r),
           <<All(LinksOf(r, call[r].id)), All(Peers(r, Got(r, 2)))>>)
ListLinks(r) == AnswerIf(r, "listLinks", ThisCase(r), <<All(LinksOf(r, call[r].id))>>)

(* Tasks: those of all cases, whatever became of the case, or of one.      *)
ExportTasksCsv(r) == Answer(r, "exportTasks", <<All(Since(r, Own(r, "task")))>>)
ListRecentTasks(r) ==
  Answer(r, "recentTasks", <<Newest(Own(r, "task"), Changed, call[r].limit)>>)
ListAllTasks(r) == Answer(r, "allTasks", <<Polled(r, Own(r, "task"))>>)
ListTasks(r) ==
  AnswerIf(r, "listTasks", ThisCase(r), <<All(Under(Own(r, "task"), call[r].id))>>)
CaseTasksSummary(r) ==
  AnswerIf(r, "tasksSummary", ThisCase(r), <<All(Under(Own(r, "task"), call[r].id))>>)
ListTaskLogs(r) ==
  AnswerIf(r, "taskLogs", The(r, Own(r, "task")), <<All(Under(In(r, "log"), call[r].id))>>)

-----------------------------------------------------------------------------
(* Comments, the timeline and the report.                                  *)
ListComments(r) ==
  AnswerIf(r, "listComments", ThisCase(r), <<All(Under(Own(r, "comment"), call[r].id))>>)
About(r) == Under(Own(r, "audit"), call[r].id)
CaseTimeline(r) ==
  AnswerIf(r, "timeline", ThisCase(r), <<Newest(About(r), Created, call[r].limit)>>)
CaseTimelineSummary(r) == AnswerIf(r, "timelineSummary", ThisCase(r), <<All(About(r))>>)
CaseReport(r) ==
  AnswerIf(r, "report", ThisCase(r), <<All(Under(Own(r, "case_page"), call[r].id))>>)

(* Alerts.                                                                 *)
ListAlerts(r) == Answer(r, "listAlerts", <<Polled(r, Own(r, "alert"))>>)
ListRecentAlerts(r) ==
  Answer(r, "recentAlerts", <<Newest(Own(r, "alert"), Changed, call[r].limit)>>)
ExportAlertsCsv(r) == Answer(r, "exportAlerts", <<All(Since(r, Own(r, "alert")))>>)
GetAlert(r) == AnswerIf(r, "getAlert", The(r, Own(r, "alert")), <<>>)
Alike(S, x, rows) == {y \in S : y # x /\ rows[x] # Null /\ db[y].name = rows[x].name}
ListSimilarAlerts(r) ==
  AnswerIf(r, "similarAlerts", The(r, Own(r, "alert")),
           <<Newest(Alike(Own(r, "alert"), call[r].id, seen[r]), Created, call[r].limit)>>)
AlertTimeline(r) ==
  AnswerIf(r, "alertTimeline", The(r, Own(r, "alert")),
           <<Newest(About(r), Created, call[r].limit)>>)

-----------------------------------------------------------------------------
(* Observables.  list_observables keeps the latest made, even when it is   *)
(* asked for the latest changed.                                           *)
OwnObservables(r) == Live(Own(r, "observable"))
OfThisCase(r) == Under(OwnObservables(r), call[r].id)
SearchObservables(r) ==
  Answer(r, "searchObservables", <<Newest(OwnObservables(r), Created, call[r].limit)>>)
ListRecentObservables(r) ==
  Answer(r, "recentObservables", <<Newest(OwnObservables(r), Changed, call[r].limit)>>)
ListObservables(r) ==
  Answer(r, "listObservables", <<Newest(Since(r, OwnObservables(r)), Created, call[r].limit)>>)
ExportObservablesCsv(r) ==
  Answer(r, "exportObservables", <<All(Since(r, OwnObservables(r)))>>)
GetObservable(r) == AnswerIf(r, "getObservable", The(r, OwnObservables(r)), <<>>)
(* One that is told so (ignore_similarity) is like no other.               *)
FindSimilar(r) ==
  AnswerIf(r, "findSimilar", The(r, OwnObservables(r)),
           <<{{}} \cup Newest(Alike(OwnObservables(r), call[r].id, seen[r]), Created, call[r].limit)>>)
(* The join asks nothing of the organization of the other observable.      *)
ObservableCaseRefs(r) ==
  LET alike == Alike(Live(In(r, "observable")), call[r].id, seen[r])
      refs == {c \in Live(Own(r, "case")) : \E x \in alike : db[x].under = c}
  IN  AnswerIf(r, "caseRefs", The(r, OwnObservables(r)), <<Some(refs, call[r].limit)>>)

ListCaseObservables(r) == AnswerIf(r, "caseObservables", ThisCase(r), <<All(OfThisCase(r))>>)
CaseObservablePapSummary(r) == AnswerIf(r, "papSummary", ThisCase(r), <<All(OfThisCase(r))>>)
CaseObservableTlpSummary(r) == AnswerIf(r, "tlpSummary", ThisCase(r), <<All(OfThisCase(r))>>)
CaseObservableTags(r) == AnswerIf(r, "tags", ThisCase(r), <<All(OfThisCase(r))>>)
CaseObservableSummary(r) == AnswerIf(r, "summary", ThisCase(r), <<All(OfThisCase(r))>>)
ExportObservablesToMisp(r) == AnswerIf(r, "exportMisp", ThisCase(r), <<All(OfThisCase(r))>>)
(* How often each was seen, in a second statement when there is any.       *)
CaseObservableSimilarityCounts(r) ==
  LET attached == Got(r, 2)
      same == {y \in OwnObservables(r) : \E x \in attached : db[y].name = seen[r][x].name}
  IN  AnswerIf(r, "similarityCounts", ThisCase(r),
               <<All(OfThisCase(r)), All(same)>>)

-----------------------------------------------------------------------------
(* Files and shares of a case, without a look at the case.                 *)
ListCaseAttachments(r) ==
  Answer(r, "listFiles", <<All(Under(Own(r, "file"), call[r].id))>>)
ListShares(r) == Answer(r, "listShares", <<All(Under(Own(r, "share"), call[r].id))>>)

(* The portal: whatever the organization, by the active shares of a user.  *)
Shared(r, c) ==
  {s \in In(r, "share") : db[s].by = call[r].user /\ db[s].under = c /\ db[s].state = "active"}
ListMySharedCases(r) ==
  Answer(r, "sharedCases",
         <<All(Since(r, {c \in Live(In(r, "case")) : Shared(r, c) # {}}))>>)
ListPortalComments(r) ==
  AnswerIf(r, "portalComments", Shared(r, call[r].id),
           <<All(Under(In(r, "comment"), call[r].id))>>)

(* Search over cases and alerts.                                           *)
Search(r) ==
  Answer(r, "search", <<Some(Live(Own(r, "case")) \cup Own(r, "alert"), call[r].limit)>>)

-----------------------------------------------------------------------------
(* Figures: the rows that they count.                                      *)
CountPerDay(r, op, table) == Answer(r, op, <<All(Own(r, table))>>)
CasesPerDay(r) == CountPerDay(r, "casesPerDay", "case")
AlertsPerDay(r) == CountPerDay(r, "alertsPerDay", "alert")
AuditPerDay(r) == CountPerDay(r, "auditPerDay", "audit")
NotificationsPerDay(r) == CountPerDay(r, "notificationsPerDay", "delivery")

(* The techniques of cases, and their names in a second statement (where   *)
(* there are none, here and above, it is not sent: it would find nothing). *)
TtpsHeatmap(r) ==
  LET named == {t \in In(r, "technique") : \E x \in Got(r, 1) : seen[r][x].name = db[t].name}
  IN  Answer(r, "heatmap", <<All(Own(r, "case_ttp")), All(named)>>)

Closed(S) == {c \in S : db[c].state = "closed"}
(* Cases closed in the days of the window, and in as many days before.     *)
CaseMttr(r) ==
  LET closed == Closed(Live(Own(r, "case")))
  IN  Answer(r, "mttr", <<SUBSET closed, SUBSET (closed \ Got(r, 1))>>)
SlowestOpenCases(r) ==
  LET open == Live(Own(r, "case")) \ Closed(In(r, "case"))
      age == [c \in Ids |-> clock - Created[c]]
  IN  Answer(r, "slowest", <<Newest(open, age, call[r].limit)>>)

Count(r, op, S) == Answer(r, op, <<All(S)>>)
ObservablesByType(r) == Count(r, "observablesByType", OwnObservables(r))
ObservablesByTlp(r) == Count(r, "observablesByTlp", OwnObservables(r))
ObservablesByPap(r) == Count(r, "observablesByPap", OwnObservables(r))
CaseStages(r) == Count(r, "caseStages", Live(Own(r, "case")))
CasesByTlp(r) == Count(r, "casesByTlp", Live(Own(r, "case")))
CasesByAssignee(r) == Count(r, "casesByAssignee", Live(Own(r, "case")))
AlertsByStatus(r) == Count(r, "alertsByStatus", Own(r, "alert"))
AlertsBySource(r) ==
  LET from(S) == {x \in Own(r, "alert") : db[x].name \in S}
  IN  Answer(r, "alertsBySource",
             <<{from(S) : S \in Some({db[x].name : x \in Own(r, "alert")}, call[r].limit)}>>)
TasksByStatus(r) == Count(r, "tasksByStatus", Own(r, "task"))
=============================================================================
