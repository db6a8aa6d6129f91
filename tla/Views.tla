------------------------------- MODULE Views --------------------------------
(***************************************************************************)
(* The requests that only read, and those of accounts, of the library and  *)
(* of the audit log, in users.py, profiles.py, organizations.py,           *)
(* api_keys.py, gdpr.py, kb.py, taxonomies.py, ttps.py, case_pages.py,     *)
(* mentions.py, audit.py and notifications.py under                        *)
(* backend/adhkar/api/v1.                                                  *)
(*                                                                         *)
(* A view is the list of its statements: a statement is the set of sets of *)
(* rows that it may return, more than one when a LIMIT cuts through rows   *)
(* that its ORDER BY does not tell apart.  A count, a CSV or a report of   *)
(* rows is modelled by the rows.  What the filters of a query let through, *)
(* a window of days among them, is call.match; the identifier in the path  *)
(* is call.id, the "updated_since" of a poll is the latest updated_at that *)
(* the request call.since was answered.                                    *)
(***************************************************************************)
EXTENDS Tables

Queries(ops) ==
  [op : ops, org : Ids, user : Callers, id : Ids \cup {Null}, name : Names \cup {Null},
   match : SUBSET Ids, since : Requests \cup {Null}, unread : BOOLEAN,
   limit : Nat, skip : Nat, fits : BOOLEAN]

Asks(r, op) ==
  /\ pc[r] \in {"read", "next"} /\ call[r].op = op
  /\ call[r].since # Null => pc[call[r].since] = "200"
Answer(r, op, statements) ==
  LET k == Len(answer[r]) + 1
  IN  /\ Asks(r, op) /\ k <= Len(statements)
      /\ \E rows \in statements[k] : answer' = [answer EXCEPT ![r] = Append(@, rows)]
      /\ pc' = [pc EXCEPT ![r] = IF k = Len(statements) THEN "200" ELSE "next"]
      /\ IF k = 1 THEN Begin(r) ELSE UNCHANGED <<began, clock>>
      /\ seen' = [seen EXCEPT ![r] = db]
      /\ UNCHANGED <<db, call, ended>>
(* A view of something that is looked up first: 404 when it is not there.  *)
AnswerIf(r, op, found, statements) ==
  /\ Asks(r, op)
  /\ IF answer[r] = <<>> /\ found = {} THEN Refuse(r, "404")
     ELSE Answer(r, op, <<{found}>> \o statements)

(* A filter that the driver does not send (a text with a NUL) fails the    *)
(* statement that has it, if the view comes to that.                       *)
RefuseView(r) ==
  IsQuery(r) /\ Asks(r, call[r].op) /\ ~Fits(call[r]) /\ Refuse(r, "500")

Got(r, k) == IF k <= Len(answer[r]) THEN answer[r][k] ELSE {}

-----------------------------------------------------------------------------
(* WHERE.                                                                  *)
In(r, table) == {x \in call[r].match : db[x] # Null /\ db[x].table = table}
Own(r, table) == {x \in In(r, table) : db[x].org = call[r].org}
Live(S) == {x \in S : ~db[x].gone}
Under(S, c) == {x \in S : db[x].under = c}
By(S, u) == {x \in S : db[x].by = u}
The(r, S) == S \cap {call[r].id}
AnyCase(r) == {c \in The(r, Ids) : db[c] # Null /\ db[c].table = "case" /\ db[c].org = call[r].org}
ThisCase(r) == {c \in The(r, Ids) : /\ db[c] # Null /\ db[c].table = "case"
                                    /\ db[c].org = call[r].org /\ ~db[c].gone}
Joined(r, u, o) == \E m \in Ids : /\ db[m] # Null /\ db[m].table = "member"
                                  /\ db[m].under = u /\ db[m].org = o

(* ORDER BY and LIMIT.  created_at is the start of the transaction.        *)
MadeAt(x) == IF x \in First THEN FirstRow[x].at ELSE began[x[1]]
Created == [x \in Ids |-> IF db[x] = Null THEN 0 ELSE MadeAt(x)]
Changed == [x \in Ids |-> IF db[x] = Null THEN 0 ELSE db[x].at]
AtMost(n, S) == IF n <= Cardinality(S) THEN n ELSE Cardinality(S)
All(S) == {S}
Some(S, n) == {R \in SUBSET S : Cardinality(R) = AtMost(n, S)}
Page(S, time, skip, n) ==
  {R \in SUBSET S : \E before \in SUBSET (S \ R) :
     /\ Cardinality(before) = AtMost(skip, S)
     /\ Cardinality(R) = AtMost(n, S \ before)
     /\ \A x \in before, y \in S \ before : time[x] >= time[y]
     /\ \A x \in R, y \in S \ (before \cup R) : time[x] >= time[y]}
Newest(S, time, n) == Page(S, time, 0, n)

(* updated_since >=, and the latest changes first.                         *)
LastOf(r) == answer[r][Len(answer[r])]
Polls(r) == call[r].since # Null /\ LastOf(call[r].since) # {}
NoEarlier(r, x) ==
  LET q == call[r].since IN q # Null => \A y \in LastOf(q) : db[x].at >= seen[q][y].at
Since(r, S) == {x \in S : NoEarlier(r, x)}
Polled(r, S) ==
  IF Polls(r) THEN Newest(Since(r, S), Changed, call[r].limit) ELSE Some(S, call[r].limit)

-----------------------------------------------------------------------------
(* Users, profiles, organizations, keys.                                   *)
OrgUsers(r) == {u \in Live(In(r, "user")) : Joined(r, u, call[r].org)}
Authors(r, u) == Newest(By(Own(r, "audit"), u), Created, call[r].limit)

SearchUsers(r) == Answer(r, "searchUsers", <<Some(OrgUsers(r), call[r].limit)>>)
(* Those who did nothing come last; the sort is by their latest record.    *)
LastSeen(r) ==
  [u \in Ids |-> LET done == By(Own(r, "audit"), u)
                 IN  IF done = {} THEN 0 ELSE Created[CHOOSE x \in done :
                       \A y \in done : Created[x] >= Created[y]]]
ListRecentUsers(r) ==
  Answer(r, "recentUsers", <<Newest(OrgUsers(r), LastSeen(r), call[r].limit)>>)
ListUsers(r) == Answer(r, "listUsers", <<All(OrgUsers(r))>>)
GetUser(r) == AnswerIf(r, "getUser", The(r, OrgUsers(r)), <<>>)
(* peek_invite asks for no organization: it has the invitation.            *)
PeekInvite(r) ==
  AnswerIf(r, "peekInvite", {u \in The(r, In(r, "user")) : db[u].state = "pending_invite"},
           <<All({call[r].org})>>)
UserRecentActivity(r) == Answer(r, "userActivity", <<Authors(r, call[r].id)>>)

ListProfiles(r) == Answer(r, "listProfiles", <<All(Own(r, "profile"))>>)
GetProfile(r) == AnswerIf(r, "getProfile", The(r, Own(r, "profile")), <<>>)
ListMyOrgs(r) ==
  Answer(r, "listMyOrgs",
         <<All({o \in Live(In(r, "organization")) : Joined(r, call[r].user, o)})>>)
GetOrg(r) ==
  AnswerIf(r, "getOrg", {o \in {call[r].id} : Joined(r, call[r].user, o)}, <<All({call[r].id})>>)
ListSharings(r) ==
  Answer(r, "listSharings", <<All({x \in In(r, "sharing") : db[x].org = call[r].id})>>)
ListMyKeys(r) ==
  Answer(r, "listMyKeys",
         <<All({k \in By(In(r, "api_key"), call[r].user) : db[k].state = "active"})>>)
ListUserKeys(r) == Answer(r, "listUserKeys", <<All(By(In(r, "api_key"), call[r].id))>>)

(* export_user: whatever the organization.                                 *)
ExportUser(r) ==
  LET by(table) == Some(By(In(r, table), call[r].id), call[r].limit)
  IN  AnswerIf(r, "exportUser", The(r, In(r, "user")),
               <<by("audit"), by("ai_call"), by("comment"), by("log")>>)

-----------------------------------------------------------------------------
(* Runbooks, templates, taxonomies, techniques, pages.                     *)
ListKbPages(r) == Answer(r, "listKb", <<Polled(r, Own(r, "kb"))>>)
ListRecentKbPages(r) ==
  Answer(r, "recentKb", <<Newest(Own(r, "kb"), Changed, call[r].limit)>>)
GetKbPage(r) ==
  AnswerIf(r, "getKb", {x \in Own(r, "kb") : db[x].name = call[r].name}, <<>>)
ListRecentCaseTemplates(r) ==
  Answer(r, "recentTemplates", <<Newest(Own(r, "template"), Changed, call[r].limit)>>)
ListTemplates(r) == Answer(r, "listTemplates", <<All(Since(r, Own(r, "template")))>>)
ListTaxonomyEntries(r) == Answer(r, "listTaxonomies", <<All(Own(r, "taxonomy"))>>)
ListCatalog(r) == Answer(r, "listCatalog", <<Some(In(r, "technique"), call[r].limit)>>)
ListCaseTtps(r) ==
  AnswerIf(r, "listTtps", ThisCase(r), <<All(Under(Own(r, "case_ttp"), call[r].id))>>)
CasesByTechnique(r) ==
  LET carry == {c \in Live(Own(r, "case")) :
                  \E t \in In(r, "case_ttp") : db[t].under = c /\ db[t].name = call[r].name}
  IN  Answer(r, "casesByTechnique", <<Some(carry, call[r].limit)>>)
ListCasePages(r) ==
  AnswerIf(r, "listPages", ThisCase(r), <<All(Since(r, Under(Own(r, "case_page"), call[r].id)))>>)

-----------------------------------------------------------------------------
(* Mentions: those since the caller last looked.  The time is read first;  *)
(* list_my_mentions asks for it only when it is told to.                   *)
Mentions(r) ==
  {x \in Under(Own(r, "audit"), call[r].user) : db[x].state = "mentioned"}
Unread(r) ==
  LET u == call[r].user
  IN  {x \in Mentions(r) : seen[r][u] = Null \/ MadeAt(x) > seen[r][u].at}
ListMyMentions(r) ==
  LET rows == IF call[r].unread THEN Unread(r) ELSE Mentions(r)
      listed == Newest(rows, Created, call[r].limit)
  IN  Answer(r, "listMentions",
             IF call[r].unread THEN <<All({call[r].user}), listed>> ELSE <<listed>>)
UnreadMentionCount(r) ==
  Answer(r, "unreadCount", <<All({call[r].user}), All(Unread(r))>>)

(* The audit log, by pages.                                                *)
ListAudit(r) ==
  Answer(r, "listAudit", <<Page(Own(r, "audit"), Created, call[r].skip, call[r].limit)>>)
ExportAuditCsv(r) ==
  Answer(r, "exportAudit", <<Newest(Own(r, "audit"), Created, call[r].limit)>>)
AuditSummary(r) == Answer(r, "auditSummary", <<All(Own(r, "audit"))>>)

(* Notification rules and endpoints, and what was delivered.               *)
ListEndpoints(r) == Answer(r, "listEndpoints", <<All(Own(r, "endpoint"))>>)
ListRules(r) == Answer(r, "listRules", <<All(Own(r, "rule"))>>)
ListDeliveries(r) ==
  Answer(r, "listDeliveries", <<Newest(Own(r, "delivery"), Created, call[r].limit)>>)
DeliveriesSummary(r) == Answer(r, "deliveriesSummary", <<All(Own(r, "delivery"))>>)
ExportDeliveriesCsv(r) ==
  Answer(r, "exportDeliveries", <<Newest(Own(r, "delivery"), Created, call[r].limit)>>)
=============================================================================
