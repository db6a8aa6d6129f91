----------------------------- MODULE BackOffice -----------------------------
(***************************************************************************)
(* Accounts, the library, the views and the embedding indexer, at work on  *)
(* the same tables (backend/adhkar/main.py mounts their routers on one     *)
(* application and starts the indexer beside it).                          *)
(***************************************************************************)
EXTENDS Accounts, Library, CaseViews, Indexer

vars == <<tableVars, indexerVars>>

Calls ==
  UserCalls \cup MfaCalls \cup ProfileCalls \cup OrgCalls \cup KeyCalls \cup GdprCalls \cup KbCalls
    \cup TaxonomyCalls \cup TtpCalls \cup PageCalls \cup CommentCalls \cup ItemCalls
    \cup [op : {"none"}]
(* No view is called like a handler that a property speaks of.             *)
Deleting == {"deleteUser", "deleteCase", "deleteObservable"}
Acting ==
  Deleting \cup {"lock", "unlock", "accept", "erase", "enroll", "confirm", "editComment", "seen",
               "importMisp", "deleteTaxonomy"}
AllCalls == Calls \cup Queries(STRING \ Acting)
ASSUME TrafficAssumption == Traffic \subseteq [Requests -> AllCalls]
ASSUME HomeAssumption ==
  \A x \in First : FirstRow[x].table \in {"comment", "log", "task"} =>
    LET home == FirstRow[x].under IN home \in First /\ FirstRow[home].org = FirstRow[x].org
(* The tables that foreign keys of the migrations refer to; every row that *)
(* is there at the start refers to these.                                  *)
Referred ==
  {"organization", "user", "profile", "case", "task", "observable", "rule", "endpoint"}
ASSUME ReferredAssumption ==
  \A x \in First : \A y \in ForeignKeys(FirstRow[x]) \ {Null} : FirstRow[y].table \in Referred
(* The address of an erased user, "erased+<id>@redacted.invalid", is not   *)
(* one that EmailStr takes for an invitation (gdpr.py:137, users.py:47).   *)
ASSUME EmailAssumption ==
  /\ Names \cap Ids = {}
  /\ \A x \in First : FirstRow[x].table = "user" => FirstRow[x].name \in Names \cup {x}
(* A seed that is there at the start was not drawn by a request to come.   *)
ASSUME SeedAssumption ==
  \A x \in First : FirstRow[x].table = "mfa" /\ FirstRow[x].name \in Requests =>
    \A plan \in Traffic : plan[FirstRow[x].name].op # "enroll"
ASSUME StatesAssumption ==
  {"", "open", "closed", "active", "locked", "pending_invite", "org-admin", "enrolling", "confirmed",
   "revoked", "erased", "said", "mentioned", "Waiting", "gdpr_erased"} \subseteq States

AccountStep(r) ==
  \/ InviteUser(r) \/ PatchUser(r) \/ DeleteUser(r) \/ LockUser(r) \/ UnlockUser(r)
  \/ AcceptInvite(r) \/ MfaEnroll(r) \/ MfaConfirm(r) \/ MfaDisable(r) \/ MfaRegenerate(r)
  \/ AdminResetMfa(r) \/ CreateProfile(r) \/ PatchProfile(r) \/ DeleteProfile(r) \/ PatchOrg(r)
  \/ CreateSharing(r) \/ DeleteSharing(r) \/ CreateMyKey(r) \/ RevokeMyKey(r)
  \/ AdminRevokeKey(r) \/ EraseUser(r)
LibraryStep(r) ==
  \/ CreateKbPage(r) \/ PatchKbPage(r) \/ CloneKbPage(r) \/ DeleteKbPage(r)
  \/ CreateTemplate(r) \/ PatchTemplate(r) \/ CloneCaseTemplate(r) \/ DeleteTemplate(r)
  \/ ApplyTemplate(r) \/ CreateTaxonomyEntry(r) \/ DeleteTaxonomyEntry(r) \/ ImportTag(r)
  \/ ImportDeadlock(r) \/ ImportEnd(r) \/ UpsertCatalogEntry(r) \/ AddCaseTtp(r)
  \/ PatchCaseTtp(r) \/ RemoveCaseTtp(r) \/ CreateCasePage(r) \/ PatchCasePage(r)
  \/ DeleteCasePage(r) \/ CreateComment(r) \/ PatchComment(r) \/ MarkMentionsSeen(r)
  \/ PatchCase(r) \/ BulkPatchCases(r) \/ DeleteCase(r) \/ PatchObservable(r) \/ DeleteObservable(r)
  \/ BulkPatchObservables(r)
AccountView(r) ==
  \/ SearchUsers(r) \/ ListRecentUsers(r) \/ ListUsers(r) \/ GetUser(r) \/ PeekInvite(r)
  \/ UserRecentActivity(r) \/ ListProfiles(r) \/ GetProfile(r) \/ ListMyOrgs(r) \/ GetOrg(r)
  \/ ListSharings(r) \/ ListMyKeys(r) \/ ListUserKeys(r) \/ ExportUser(r)
LibraryView(r) ==
  \/ ListKbPages(r) \/ ListRecentKbPages(r) \/ GetKbPage(r) \/ ListRecentCaseTemplates(r)
  \/ ListTemplates(r) \/ ListTaxonomyEntries(r) \/ ListCatalog(r) \/ ListCaseTtps(r)
  \/ CasesByTechnique(r) \/ ListCasePages(r) \/ ListMyMentions(r) \/ UnreadMentionCount(r)
  \/ ListAudit(r) \/ ExportAuditCsv(r) \/ AuditSummary(r) \/ ListEndpoints(r) \/ ListRules(r)
  \/ ListDeliveries(r) \/ DeliveriesSummary(r) \/ ExportDeliveriesCsv(r)
CaseView(r) ==
  \/ ListCases(r) \/ ListRecentCases(r) \/ GetCase(r) \/ ExportCasesCsv(r)
  \/ ListCaseContributors(r) \/ MyCaseContributorRow(r) \/ ListRelatedCases(r) \/ ListLinks(r)
  \/ ExportTasksCsv(r) \/ ListRecentTasks(r) \/ ListAllTasks(r) \/ ListTasks(r)
  \/ CaseTasksSummary(r) \/ ListTaskLogs(r) \/ ListComments(r) \/ CaseTimeline(r)
  \/ CaseTimelineSummary(r) \/ CaseReport(r) \/ ListAlerts(r) \/ ListRecentAlerts(r)
  \/ ExportAlertsCsv(r) \/ GetAlert(r) \/ ListSimilarAlerts(r) \/ AlertTimeline(r)
ObservableView(r) ==
  \/ SearchObservables(r) \/ ListRecentObservables(r) \/ ListObservables(r)
  \/ ExportObservablesCsv(r) \/ GetObservable(r) \/ FindSimilar(r) \/ ObservableCaseRefs(r)
  \/ ListCaseObservables(r) \/ CaseObservablePapSummary(r) \/ CaseObservableTlpSummary(r)
  \/ CaseObservableTags(r) \/ CaseObservableSummary(r) \/ ExportObservablesToMisp(r)
  \/ CaseObservableSimilarityCounts(r) \/ ListCaseAttachments(r) \/ ListShares(r)
  \/ ListMySharedCases(r) \/ ListPortalComments(r) \/ Search(r)
Figures(r) ==
  \/ CasesPerDay(r) \/ AlertsPerDay(r) \/ AuditPerDay(r) \/ NotificationsPerDay(r)
  \/ TtpsHeatmap(r) \/ CaseMttr(r) \/ SlowestOpenCases(r) \/ ObservablesByType(r)
  \/ ObservablesByTlp(r) \/ ObservablesByPap(r) \/ CaseStages(r) \/ CasesByTlp(r)
  \/ CasesByAssignee(r) \/ AlertsByStatus(r) \/ AlertsBySource(r) \/ TasksByStatus(r)
View(r) ==
  \/ AccountView(r) \/ LibraryView(r) \/ CaseView(r) \/ ObservableView(r) \/ Figures(r)
  \/ RefuseView(r)

BackOfficeInit == Init /\ IndexerInit
Next ==
  \/ \E r \in Requests :
       \/ /\ Read(r) \/ AccountStep(r) \/ LibraryStep(r) \/ View(r)
          /\ UNCHANGED indexerVars
       \/ SearchSimilarCases(r)
  \/ \E w \in Workers : Query(w) \/ Index(w) \/ LoseRound(w)
  \/ Backfill

(* run_embedding_indexer has a round every minute, for as long as its      *)
(* process lives.                                                          *)
Spec ==
  /\ BackOfficeInit /\ [][Next]_vars
  /\ \A w \in Workers : WF_vars(Query(w)) /\ WF_vars(Index(w))

-----------------------------------------------------------------------------
(* What can be in the state.                                               *)
TypeOK ==
  /\ db \in [Ids -> Row \cup {Null}]
  /\ call \in [Requests -> AllCalls]
  /\ pc \in [Requests -> {"idle", "read", "next", "write", "200", "400", "401", "403", "404", "409", "500"}]
  /\ DOMAIN seen = Requests /\ DOMAIN answer = Requests
  /\ \A r \in Requests : pc[r] = "write" =>
       seen[r] \in [Ids -> Row \cup {Null}] /\ call[r] \in Calls
  /\ began \in [Requests -> Nat] /\ ended \in [Requests -> Nat] /\ clock \in Nat
IndexerTypeOK ==
  /\ embedded \subseteq Ids /\ (vectors = Null \/ vectors \subseteq embedded)
  /\ todo \in [Workers -> SUBSET Ids] /\ lost \in 0..MaxLost

(* A request has no rows before it is done.  A row that a request read     *)
(* stays in its table, of its organization and under its row as long as it *)
(* is there, does not come back when deleted_at is set, and rows of the    *)
(* tables below are never deleted otherwise: users.py, gdpr.py, cases.py   *)
(* and observables.py still find what they read.                           *)
SamePlace(a, b) == a.table = b.table /\ a.org = b.org /\ a.under = b.under
Follows(a, b) == SamePlace(a, b) /\ (a.gone => b.gone)
Lasting == {"organization", "user", "member", "case", "observable"}
PlacesStay ==
  /\ \A o \in Orgs : db[o] # Null /\ db[o].table = "organization"
  /\ \A u \in Callers : db[u] # Null /\ db[u].table = "user"
  /\ \A q \in Requests : pc[q] # "200" => \A k \in 1..MaxRows : db[<<q, k>>] = Null
  /\ \A r \in Requests : pc[r] = "write" =>
       \A x \in Ids : seen[r][x] # Null =>
         /\ db[x] # Null => Follows(seen[r][x], db[x])
         /\ seen[r][x].table \in Lasting => db[x] # Null
         /\ \A q \in Requests, k \in 1..MaxRows : x = <<q, k>> => pc[q] = "200"

(* What is written about a case is of the organization of the case.        *)
Written == {"comment", "log", "task"}
Housed(rows, row) ==
  row.under \in Ids /\ rows[row.under] # Null /\ rows[row.under].org = row.org
AtHome(rows) ==
  \A x \in Ids : rows[x] # Null /\ rows[x].table \in Written => Housed(rows, rows[x])

(* An import answers a tag at a time, once it has read.                    *)
Imports == {r \in Requests : call[r].op = "importMisp" /\ pc[r] = "write"}
AnswersAreTags ==
  \A r \in Requests : call[r].op = "importMisp" =>
    /\ pc[r] \in {"read", "idle"} => answer[r] = <<>>
    /\ pc[r] = "write" => answer[r] \in Seq(SUBSET Ids) /\ Len(answer[r]) <= Len(call[r].tags)
(* The entries of an import that has not committed are unlike each other,  *)
(* those of other imports and those that are committed, so that its commit *)
(* cannot fail.                                                            *)
StagedAreFresh ==
  \A r \in Imports : \A k \in Staged(r) :
    /\ \A x \in Ids : db[x] # Null => ~SameKey(db[x], Entry(r, k))
    /\ \A j \in Staged(r) : j # k => ~SameKey(Entry(r, j), Entry(r, k))
    /\ \A q \in Imports \ {r} : \A j \in Staged(q) : ~SameKey(Entry(q, j), Entry(r, k))

(* The state is well-formed, no two rows have what is unique in common, no *)
(* row refers to one that is not there, and what is written about a case   *)
(* is of its organization, on which the views that ask by the case alone   *)
(* rely (cases.py, list_case_contributors): an import that inserts over    *)
(* several steps (taxonomies.py:133-202) does not break the constraints    *)
(* that it is the only one not to check when it commits.                   *)
Consistent == NoDuplicates(db) /\ References(db) /\ AtHome(db)
IInv ==
  TypeOK /\ IndexerTypeOK /\ PlacesStay /\ Consistent /\ AnswersAreTags /\ StagedAreFresh

Done(r) == pc[r] = "200"
Overlap(r, s) == began[r] < ended[s] /\ began[s] < ended[r]
(* Requests that were under way when r was.                                *)
Beside(r) == {s \in Requests \ {r} : began[s] # 0 /\ (ended[s] > began[r] \/ pc[s] = "write")}

-----------------------------------------------------------------------------
(* Views of what is not asked to be of an organization (of the accounts of *)
(* the caller or of a user, of what a portal user was given), views that   *)
(* do not ask whether a row was deleted, and views of one case, which do.  *)
AnyOrganization ==
  {"peekInvite", "listMyOrgs", "getOrg", "listSharings", "listMyKeys", "listUserKeys",
   "exportUser", "sharedCases", "portalComments"}
Anyhow == {"casesPerDay", "exportUser", "peekInvite", "getOrg"}
OfOneCase ==
  {"listTtps", "listPages", "getCase", "contributors", "myContribution", "related", "listLinks",
   "listTasks", "tasksSummary", "listComments", "timeline", "timelineSummary", "report",
   "caseObservables", "papSummary", "tlpSummary", "tags", "summary", "exportMisp",
   "similarityCounts"}
Belongs(r, x) ==
  LET row == seen[r][x]
  IN  \/ row.org = call[r].org \/ row.table = "technique" \/ x = call[r].user
      \/ row.table = "user" /\ Joined(r, x, call[r].org)
DeletedBefore(r, x) ==
  \E s \in Requests : /\ Done(s) /\ call[s].op \in Deleting
                      /\ call[s].id = x /\ ended[s] < began[r]
(* Whatever statements a view makes, on whatever was committed between     *)
(* them, it answers with rows of the organization of the caller (or with   *)
(* the caller, whose token outlives them), save for the views that ask for *)
(* no organization, with no other row that was deleted before it began,    *)
(* save for those that do not ask, and, where it is about one case, only   *)
(* if that was not.                                                        *)
AnswersOfTheTenant ==
  \A r \in Requests : IsQuery(r) /\ call[r].op \notin AnyOrganization =>
    \A k \in 1..Len(answer[r]) : \A x \in answer[r][k] : seen[r][x] # Null => Belongs(r, x)
AnswersAreConfined ==
  /\ AnswersOfTheTenant
  /\ \A r \in Requests : IsQuery(r) =>
       /\ call[r].op \notin Anyhow =>
            \A k \in 1..Len(answer[r]) : \A x \in answer[r][k] :
              seen[r][x] # Null /\ x # call[r].user => ~DeletedBefore(r, x)
       /\ Done(r) /\ call[r].op \in OfOneCase => ~DeletedBefore(r, call[r].id)

-----------------------------------------------------------------------------
Full(r) == Cardinality(LastOf(r)) = call[r].limit
PollsFor ==
  [listCases |-> "case", exportCases |-> "case", allTasks |-> "task", exportTasks |-> "task",
   listAlerts |-> "alert", exportAlerts |-> "alert", listObservables |-> "observable",
   exportObservables |-> "observable", listKb |-> "kb", listTemplates |-> "template",
   listPages |-> "case_page"]
SameView(p, q) == call[q] = [call[p] EXCEPT !.since = call[q].since]
(* A client that polls with the latest updated_at of its last answer, as   *)
(* the docstring of list_observables proposes, has the rows as they are,   *)
(* save those that the limit cut off and those whose writer began before   *)
(* that updated_at and committed after that answer.                        *)
Shows(q, x) ==
  LET row == seen[q][x]
  IN  /\ row # Null
      /\ row.table = PollsFor[call[q].op] /\ row.org = call[q].org /\ ~row.gone
      /\ call[q].op = "listPages" => row.under = call[q].id
PollMissesLateCommits ==
  \A p, q \in {r \in Requests : Done(r) /\ IsQuery(r) /\ call[r].op \in DOMAIN PollsFor} :
    call[q].since = p /\ SameView(p, q) /\ call[p].since = Null /\ ~Full(p) /\ ~Full(q) =>
      \A x \in call[q].match \ LastOf(q) :
        Shows(q, x) =>
          \/ x \in LastOf(p) /\ seen[q][x] = seen[p][x]
          \/ \E w \in Requests : /\ Done(w) /\ began[w] = seen[q][x].at /\ ended[w] > began[p]
                                 /\ \E y \in LastOf(p) : began[w] < seen[p][y].at

(* A mention that is not counted as unread was there, or on its way, when  *)
(* the user looked at their mentions: mark_mentions_seen takes the time of *)
(* the clock, a mention has that of its transaction (mentions.py:101-110). *)
UnreadUntilSeen ==
  \A q \in Requests : Done(q) /\ IsQuery(q) /\ call[q].op \in {"unreadCount", "listMentions"} =>
    (call[q].unread /\ ~Full(q) => \A x \in call[q].match \ (First \cup LastOf(q)) :
       seen[q][x] # Null /\ seen[q][x].table = "audit" /\ seen[q][x].state = "mentioned"
         /\ seen[q][x].under = call[q].user /\ seen[q][x].org = call[q].org =>
         \E s \in Requests : /\ Done(s) /\ call[s].op = "seen" /\ call[s].user = call[q].user
                             /\ ended[s] > began[x[1]])

(* Of two pages of the audit log, one after the other, what is on neither  *)
(* has as many records before it, or one that is as old as it.             *)
PagesSkipTies ==
  \A p, q \in Requests :
    Done(p) /\ Done(q) /\ IsQuery(p) /\ IsQuery(q) /\ call[p].op = "listAudit" /\ call[q].op = "listAudit" => (
      call[q] = [call[p] EXCEPT !.skip = call[p].limit, !.since = p] /\ call[p].skip = 0 =>
        \A x \in call[p].match \ (LastOf(p) \cup LastOf(q)) :
          LET record(y) == seen[q][y] # Null /\ seen[q][y].table = "audit" /\ seen[q][y].org = call[q].org
              others == {y \in call[p].match \ {x} : record(y) /\ MadeAt(y) >= MadeAt(x)}
          IN  record(x) /\ seen[p][x] # Null =>
                \/ \E y \in others : MadeAt(y) = MadeAt(x)
                \/ Cardinality(others) >= 2 * call[p].limit)

(* What a client follows by asking again, rows that change, mentions it    *)
(* has not seen, the pages of the audit log, it misses only for one of the *)
(* reasons above.                                                          *)
NothingIsMissed == PollMissesLateCommits /\ UnreadUntilSeen /\ PagesSkipTies

-----------------------------------------------------------------------------
(* A user who was locked or erased is active again only if they were       *)
(* unlocked at the time or later, or accepted an invitation at the time;   *)
(* a seed is confirmed without a code for it only if it was drawn while    *)
(* another was being confirmed; and what an erased user wrote before is    *)
(* there again only if they edited it afterwards (users.py:413, mfa.py:97, *)
(* gdpr.py:142-153).                                                       *)
OverwritesNeedOverlap ==
  /\ \A r \in Requests : Done(r) /\ call[r].op \in {"lock", "erase"} =>
       \/ db[call[r].id].state = "locked"
       \/ \E s \in Requests : /\ Done(s) /\ call[s].op \in {"unlock", "accept"}
                              /\ call[s].id = call[r].id
                              /\ ended[s] > began[r] /\ (call[s].op = "accept" => Overlap(r, s))
  /\ \A m \in Ids : db[m] # Null /\ db[m].table = "mfa" /\ db[m].state = "confirmed" =>
       \A e \in Requests : db[m].name = e /\ Done(e) /\ call[e].op = "enroll" =>
         \E s \in Requests : Done(s) /\ call[s].op = "confirm" /\ (call[s].proves = e \/ Overlap(s, e))
  /\ \A r \in Requests : Done(r) /\ call[r].op = "erase" =>
       \A x \in Authored(db, call[r].id) :
         \/ db[x].state = "erased"
         \/ x \notin First /\ ended[x[1]] > ended[r]
         \/ \E s \in Requests : /\ Done(s) /\ call[s].op = "editComment" /\ call[s].id = x
                                /\ ended[s] > ended[r]

-----------------------------------------------------------------------------
(* Handlers in which a unique constraint, or a second row where one is     *)
(* expected, is an error that nobody catches, though the request fits; and *)
(* the search without its column.                                          *)
Uncaught ==
  {"createProfile", "patchProfile", "deleteProfile", "patchOrg", "createSharing", "similarCases"}
SayTaken ==
  [createKb |-> "kb", cloneKb |-> "kb", createTemplate |-> "template", cloneTemplate |-> "template",
   createTaxonomy |-> "taxonomy", addTtp |-> "case_ttp", createPage |-> "case_page"]
(* A request whose body and filters fit fails with 500 only if another was *)
(* under way; any is told that its name is taken only if there is such a   *)
(* row, or was at the time; and a tag that an import counts is there,      *)
(* unless a later tag of the same import was taken (taxonomies.py:182: the *)
(* rollback undoes those before).                                          *)
AnswersAreTrue ==
  \A r \in Requests :
    /\ pc[r] = "500" /\ Fits(call[r]) /\ call[r].op \notin Uncaught => Beside(r) # {}
    /\ pc[r] = "409" /\ call[r].op \in DOMAIN SayTaken =>
         \/ Beside(r) # {}
         \/ \E x \in Ids : /\ seen[r][x] # Null /\ seen[r][x].name = call[r].name
                           /\ seen[r][x].table = SayTaken[call[r].op]
    /\ Done(r) /\ call[r].op = "importMisp" =>
         \A k \in Counted(r) :
           \/ \E j \in k..Len(answer[r]) : answer[r][j] = {}
           \/ db[<<r, k>>] # Null
           \/ \E s \in Requests : Done(s) /\ call[s].op = "deleteTaxonomy" /\ call[s].id = <<r, k>>

-----------------------------------------------------------------------------
(* A closed case that stays among those that a round looks at is given its *)
(* embedding, though rounds are lost and other processes embed the same    *)
(* cases (embedding_indexer.py:37-86).                                     *)
InWindow(c) ==
  /\ c \in ClosedCases
  /\ Cardinality({d \in ClosedCases \ {c} : db[d].at >= db[c].at}) < Window
Indexed == \A c \in {x \in First : FirstRow[x].table = "case"} : []<>(c \in embedded \/ ~InWindow(c))
=============================================================================
