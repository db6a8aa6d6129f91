---------------------------- MODULE MCBackOffice ----------------------------
(* A small instance of BackOffice for TLC: two organizations with a row or *)
(* two in every table, and calls that are made together.                   *)
EXTENDS BackOffice, TLC

CONSTANTS r1, r2, r3, r4, n1, n2, n3, n4, n5, o1, o2, u1, u2, u3, u4, p1, p2, p3, p4, m1, m2, m3, m4, k1, f1,
          s1, w1, w2, t1, x1, q1, c1, c2, c3, y1, g1, d1, a1, l1, i1, h1, h2, b1, b2, b3, z1, v1,
          e1, e2, j1, rule, endpoint, delivery, ix1, ix2

RowOf(table, org, under, name, state, by) ==
  [table |-> table, org |-> org, under |-> under, name |-> name, state |-> state, gone |-> FALSE,
   at |-> 1, by |-> by]
Number(n) == <<"number", n>>
Later(rows) == [x \in DOMAIN rows |-> [rows[x] EXCEPT !.at = 2]]
MCFirstRow ==
  LET account(u, name, state) == u :> RowOf("user", Null, Null, name, state, Null)
      profile(p, o, name, state) == p :> RowOf("profile", o, Null, name, state, Null)
      member(m, u, o, p) == m :> RowOf("member", o, u, p, "", Null)
      case(c, o, n) == c :> RowOf("case", o, Null, Number(n), "open", u1)
      own(x, table, under, name, by) == x :> RowOf(table, o1, under, name, "", by)
  IN  (o1 :> RowOf("organization", Null, Null, n1, "", Null))
   @@ (o2 :> RowOf("organization", Null, Null, n2, "", Null))
   @@ account(u1, n1, "active") @@ account(u2, n2, "active") @@ account(u3, n3, "pending_invite")
   @@ account(u4, n4, "active")
   @@ profile(p1, o1, n1, "org-admin") @@ profile(p2, o1, n2, "") @@ profile(p3, o2, n1, "")
   @@ profile(p4, o1, n3, "")
   @@ member(m1, u1, o1, p1) @@ member(m2, u2, o1, p2) @@ member(m3, u3, o1, p2)
   @@ member(m4, u4, o2, p3)
   @@ (k1 :> RowOf("api_key", Null, Null, Null, "active", u1))
   @@ (f1 :> RowOf("mfa", Null, u1, r4, "confirmed", u1))
   @@ own(s1, "sharing", Null, o2, u1) @@ own(w1, "kb", Null, n1, u1)
   @@ (w2 :> RowOf("kb", o2, Null, n1, "", u4))
   @@ own(t1, "template", Null, n1, u1) @@ own(x1, "taxonomy", Null, n1, Null)
   @@ (q1 :> RowOf("technique", Null, Null, n1, "", Null))
   @@ case(c1, o1, 1) @@ Later(c2 :> RowOf("case", o1, Null, Number(2), "open", u1)) @@ case(c3, o2, 1)
   @@ own(y1, "case_ttp", c1, n1, u1) @@ own(g1, "case_page", c1, n1, u1)
   @@ own(d1, "comment", c1, Null, u1) @@ own(a1, "task", c1, Null, u1) @@ own(l1, "log", a1, Null, u1)
   @@ own(i1, "ai_call", Null, Null, u1) @@ own(h1, "alert", Null, n1, Null)
   @@ own(h2, "alert", Null, n1, Null)
   @@ own(b1, "observable", c1, n1, Null) @@ Later(b2 :> RowOf("observable", o1, c2, n1, "", Null))
   @@ (b3 :> RowOf("observable", o2, c3, n1, "", Null))
   @@ own(z1, "file", c1, Null, u1)
   @@ (v1 :> RowOf("share", o1, c1, Null, "active", u4))
   @@ own(e1, "audit", c1, Null, u1) @@ Later(e2 :> RowOf("audit", o1, c1, Null, "", u1))
   @@ own(j1, "link", c1, c2, u1)
   @@ own(rule, "rule", Null, Null, u1) @@ own(endpoint, "endpoint", Null, Null, u1)
   @@ own(delivery, "delivery", rule, Null, Null)

MCStates == {"", "open", "closed", "active", "locked", "pending_invite", "org-admin", "enrolling",
             "confirmed", "revoked", "erased", "said", "mentioned", "Waiting", "gdpr_erased"}

-----------------------------------------------------------------------------
None == [op |-> "none"]
Plan(a, b, c) == (r1 :> a) @@ (r2 :> b) @@ (r3 :> c) @@ (r4 :> None)
Pairs(S, T) == {Plan(a, b, None) : a \in S, b \in T}
(* Every two of a list, and each beside itself: who is first is left to    *)
(* the interleaving.                                                       *)
Together(calls) ==
  UNION {{Plan(calls[i], calls[j], None) : j \in i..Len(calls)} : i \in DOMAIN calls}
Triples(S, T, U) == {Plan(a, b, c) : a \in S, b \in T, c \in U}

Ask(op, id) ==
  [op |-> op, org |-> o1, user |-> u1, id |-> id, name |-> n1, match |-> Ids, since |-> Null,
   unread |-> FALSE, limit |-> 2, skip |-> 0, fits |-> TRUE]
ViewsOf(ops, id) == {Ask(op, id) : op \in ops}
AllViews ==
  ViewsOf({"searchUsers", "recentUsers", "listUsers", "listProfiles", "listMyOrgs", "listMyKeys",
    "listKb", "recentKb", "getKb", "recentTemplates", "listTemplates", "listTaxonomies",
    "listCatalog", "casesByTechnique", "listMentions", "listAudit", "exportAudit", "auditSummary",
    "listEndpoints", "listRules", "listDeliveries", "deliveriesSummary", "exportDeliveries",
    "listCases", "recentCases", "exportCases", "exportTasks", "recentTasks", "allTasks",
    "listAlerts", "recentAlerts", "exportAlerts", "searchObservables", "recentObservables",
    "listObservables", "exportObservables", "search", "casesPerDay", "alertsPerDay", "auditPerDay",
    "notificationsPerDay", "heatmap", "mttr", "slowest", "observablesByType", "observablesByTlp",
    "observablesByPap", "caseStages", "casesByTlp", "casesByAssignee", "alertsByStatus",
    "alertsBySource", "tasksByStatus"}, Null)
  \cup ViewsOf({"getUser", "userActivity", "listUserKeys", "exportUser"}, u2)
  \cup ViewsOf({"getUser", "userActivity", "exportUser"}, u1)
  \cup ViewsOf({"peekInvite"}, u3) \cup ViewsOf({"getProfile"}, p2)
  \cup ViewsOf({"getOrg", "listSharings"}, o1)
  \cup ViewsOf({"listTtps", "listPages", "getCase", "contributors", "myContribution", "related",
    "listLinks", "listTasks", "tasksSummary", "listComments", "timeline", "timelineSummary",
    "report", "caseObservables", "papSummary", "tlpSummary", "tags", "summary", "exportMisp",
    "similarityCounts", "listFiles", "listShares"}, c1)
  \cup ViewsOf({"related", "listLinks"}, c2) \cup ViewsOf({"listFiles", "getCase"}, c3)
  \cup ViewsOf({"taskLogs"}, a1)
  \cup ViewsOf({"getAlert", "similarAlerts", "alertTimeline"}, h1)
  \cup ViewsOf({"getObservable", "findSimilar", "caseRefs"}, b1)
  \cup {[Ask(op, c1) EXCEPT !.user = u4] : op \in {"sharedCases", "portalComments"}}
  \cup {[Ask(op, Null) EXCEPT !.unread = TRUE] : op \in {"unreadCount", "listMentions"}}

On(op, x) == [op |-> op, org |-> o1, id |-> x]
Patch(op, x) == [op |-> op, org |-> o1, id |-> x, fits |-> TRUE]
Unfit(c) == [c EXCEPT !.fits = FALSE]
ByUser(op, u, x) == [op |-> op, user |-> u, id |-> x]
OnCase(c, state) == [op |-> "patchCase", org |-> o1, user |-> u1, id |-> c, state |-> state,
                     fits |-> TRUE]
DropCase(c) == [op |-> "deleteCase", org |-> o1, user |-> u1, id |-> c]
CloseAll(S) == [op |-> "bulkPatchCases", org |-> o1, user |-> u1, ids |-> S, state |-> "closed",
                fits |-> TRUE]
Say(u, mentions) ==
  [op |-> "comment", org |-> o1, user |-> u, under |-> c1, mentions |-> mentions,
   fits |-> TRUE]
Edit(u, x) == [op |-> "editComment", org |-> o1, user |-> u, id |-> x, fits |-> TRUE]
Disturbing ==
  {DropCase(c1), Say(u2, {u1, u3, u4}), Patch("patchObservable", b2),
   On("deleteObservable", b1), ByUser("deleteUser", u1, u2)}
(* Who was deleted and still has a token asks for their mentions.          *)
ViewTraffic ==
  Pairs(Disturbing, AllViews)
  \cup Pairs({ByUser("deleteUser", u1, u2)},
             {[Ask("unreadCount", Null) EXCEPT !.user = u2, !.unread = TRUE]})

(* Polls, mentions, pages.                                                 *)
Named(op, n) == [op |-> op, org |-> o1, user |-> u1, name |-> n, fits |-> TRUE]
Apply == [op |-> "applyTemplate", org |-> o1, user |-> u1, id |-> t1, fits |-> TRUE]
PageOn(c, n) ==
  [op |-> "createPage", org |-> o1, user |-> u1, under |-> c, name |-> n, fits |-> TRUE]
(* A poll, a poll since, and a writer.                                     *)
PollTraffic(op, id, S) ==
  LET q == [Ask(op, id) EXCEPT !.limit = 4] IN {Plan(q, [q EXCEPT !.since = r1], w) : w \in S}
FollowTraffic ==
  UNION {PollTraffic(op, Null, {OnCase(c1, "closed"), Apply}) : op \in {"listCases", "exportCases"}}
  \cup UNION {PollTraffic(op, Null, {Apply}) : op \in {"allTasks", "exportTasks"}}
  \cup UNION {PollTraffic(op, Null, {Patch("patchObservable", b1),
                [op |-> "bulkPatchObservables", org |-> o1, ids |-> {b1, b2, b3}, fits |-> TRUE]}) :
              op \in {"listObservables", "exportObservables"}}
  \cup PollTraffic("listKb", Null, {Patch("patchKb", w1), Named("createKb", n2), On("deleteKb", w1)})
  \cup PollTraffic("listTemplates", Null, {Patch("patchTemplate", t1), Named("createTemplate", n2)})
  \cup PollTraffic("listPages", c1, {Patch("patchPage", g1), PageOn(c1, n2)})
  \cup {[plan EXCEPT ![r4] = Patch("patchObservable", b2)] :
          plan \in PollTraffic("listObservables", Null, {Patch("patchObservable", b1)})}
  \cup {Plan(Say(u2, {u1}), [op |-> "seen", user |-> u1], [Ask(op, Null) EXCEPT !.unread = TRUE]) :
          op \in {"unreadCount", "listMentions"}}
AuditPages ==
  LET page == [Ask("listAudit", Null) EXCEPT !.limit = 1]
  IN  {Plan(page, [page EXCEPT !.since = r1, !.skip = 1], w) : w \in {Say(u2, {u1}), Say(u2, {u1, u3})}}

-----------------------------------------------------------------------------
(* Accounts.                                                               *)
Invite(name, p) ==
  [op |-> "invite", org |-> o1, user |-> u1, email |-> name, profile |-> p, fits |-> TRUE]
ToProfile(u, p) == [op |-> "patchUser", org |-> o1, id |-> u, profile |-> p, fits |-> TRUE]
Plain(op, x) == [op |-> op, id |-> x]
UserTraffic ==
  Triples({Plain("lock", u3), ByUser("erase", u1, u3)}, {Plain("unlock", u3), Plain("accept", u3)},
          {Plain("lock", u3), Plain("accept", u3), Plain("unlock", u3)})
  \cup Pairs({Invite(n5, p2), Invite(n1, p2), Invite(n5, p3), ToProfile(u2, p4), ToProfile(u2, p3),
             ToProfile(u4, p4), ToProfile(u2, Null), ToProfile(w1, p4), ByUser("deleteUser", u1, u1),
             ByUser("deleteUser", u1, u2), Plain("lock", w1), Plain("accept", u2)},
            {Invite(n5, p2), ToProfile(u2, p4), On("deleteProfile", p4), ByUser("deleteUser", u1, u2)})

Mfa(op, u) == [op |-> op, user |-> u]
Confirm(u, e) == [op |-> "confirm", user |-> u, proves |-> e]
Prove(op, e, password) == [op |-> op, user |-> u1, proves |-> e, password |-> password]
MfaTraffic ==
  Triples({Mfa("enroll", u2)}, {Mfa("enroll", u2), Plain("resetMfa", u2), Confirm(u2, r1)},
          {Confirm(u2, r1), Confirm(u2, r2)})
  \cup Pairs({Prove("disable", r4, TRUE), Prove("disable", r4, FALSE), Prove("regenerate", r2, TRUE)},
            {Prove("regenerate", r4, TRUE), Plain("resetMfa", u1), Mfa("enroll", u1),
             Confirm(u1, r4), Prove("disable", r4, TRUE)})

Rename(p, n, permissions) ==
  [op |-> "patchProfile", org |-> o1, id |-> p, name |-> n, permissions |-> permissions,
   fits |-> TRUE]
Target(o) == [op |-> "createSharing", org |-> o1, user |-> u1, target |-> o]
ProfileOf(n) == [op |-> "createProfile", org |-> o1, name |-> n, fits |-> TRUE]
OrgPatch(o, n) == [op |-> "patchOrg", id |-> o, name |-> n, fits |-> TRUE]
ProfileCallsHere ==
  <<ProfileOf(n2), ProfileOf(n5), Rename(p4, n5, FALSE), Rename(p1, n2, TRUE), Rename(p3, n2, FALSE),
   On("deleteProfile", p1), On("deleteProfile", p2), On("deleteProfile", p3),
   [On("deleteProfile", p3) EXCEPT !.org = o2], On("deleteProfile", p4)>>
OrgCallsHere ==
  <<OrgPatch(o1, n2), OrgPatch(w1, n2), OrgPatch(o2, n5), OrgPatch(o1, n5), Target(o1),
   Target(o2), Target(w1), On("deleteSharing", s1), On("deleteSharing", w1)>>
KeyCallsHere ==
  {[op |-> "createKey", user |-> u1, within |-> within, fits |-> fits] : within, fits \in BOOLEAN}
  \cup {ByUser(op, u1, k1) : op \in {"revokeKey", "adminRevokeKey"}} \cup {ByUser("revokeKey", u2, k1)}
EraseTraffic ==
  Triples({ByUser("erase", u2, u1)}, {Edit(u1, d1), Say(u1, {}), ByUser("erase", u2, w1)},
          {Edit(u1, d1), Edit(u1, <<r2, 1>>), Edit(u2, d1), Edit(u1, w1), None})
AccountTraffic ==
  UserTraffic \cup MfaTraffic \cup EraseTraffic \cup Together(ProfileCallsHere)
  \cup Together(OrgCallsHere) \cup Pairs(KeyCallsHere, KeyCallsHere)

-----------------------------------------------------------------------------
(* The library.                                                            *)
CloneOf(op, x, n) == [op |-> op, org |-> o1, user |-> u1, id |-> x, name |-> n, fits |-> TRUE]
KbCallsHere ==
  <<Named("createKb", n1), Named("createKb", n2), Patch("patchKb", w1), Patch("patchKb", w2),
   CloneOf("cloneKb", w1, n2), CloneOf("cloneKb", w2, n2), On("deleteKb", w1), On("deleteKb", w2)>>
TemplateCallsHere ==
  <<Named("createTemplate", n2), Patch("patchTemplate", t1), CloneOf("cloneTemplate", t1, n2),
   On("deleteTemplate", t1), Apply, [Apply EXCEPT !.id = w1]>>
Tags(tags) == [op |-> "importMisp", org |-> o1, tags |-> tags, fits |-> TRUE]
Tag(n) == [op |-> "createTaxonomy", org |-> o1, name |-> n, fits |-> TRUE]
TaxonomyTraffic ==
  Triples({Tags(<<n2, n5>>)}, {Tags(<<n5, n2>>), Tag(n2)},
          {Tag(n5), On("deleteTaxonomy", x1), On("deleteTaxonomy", <<r2, 1>>)})
  \cup Triples({Tags(<<n2, n1, n5>>)}, {Tags(<<n5, n2>>)}, {Tag(n1), On("deleteTaxonomy", x1)})
  \cup Triples({Tags(<<n2, n2>>)}, {Tag(n2), Tags(<<n5, n2>>)}, {On("deleteTaxonomy", <<r2, 1>>)})
Ttp(c, n) == [op |-> "addTtp", org |-> o1, user |-> u1, under |-> c, name |-> n,
              fits |-> TRUE]
Upsert(n) == [op |-> "upsertTechnique", name |-> n, fits |-> TRUE]
TtpCallsHere ==
  <<Upsert(n1), Upsert(n2), Ttp(c1, n1),
   Ttp(c2, n1), Ttp(c2, n2), Ttp(c3, n1), Patch("patchTtp", y1), On("removeTtp", y1),
   On("removeTtp", x1), DropCase(c2)>>
PageCallsHere ==
  <<PageOn(c1, n1), PageOn(c1, n2), PageOn(c3, n1), Patch("patchPage", g1), On("deletePage", g1),
   Patch("patchPage", x1), DropCase(c1)>>
LibraryTraffic ==
  TaxonomyTraffic \cup Together(KbCallsHere) \cup Together(TemplateCallsHere)
  \cup Together(TtpCallsHere) \cup Together(PageCallsHere)
  \cup {Plan(Apply, Apply, Apply)}

-----------------------------------------------------------------------------
(* Cases that are closed, opened again and searched for.                   *)
IndexerTraffic ==
  {Plan(OnCase(c1, "closed"), w, Ask("similarCases", Null)) : w \in {OnCase(c1, "open"), DropCase(c1)}}
  \cup {Plan(OnCase(c1, "closed"), OnCase(c2, "closed"), None)}
  \cup {Plan(CloseAll({c1, c2}), w, None) :
          w \in {Ask("similarCases", Null), [OnCase(c3, "closed") EXCEPT !.org = o2]}}

(* Bodies and filters that do not fit, alone and beside one that does.     *)
UnfitTraffic ==
  UNION {Pairs({Unfit(c)}, {None, c}) :
    c \in {Invite(n5, p2), ToProfile(u2, p4), ProfileOf(n5), Rename(p4, n5, FALSE), OrgPatch(o1, n5),
           Named("createKb", n1), Patch("patchKb", w1), CloneOf("cloneKb", w1, n2),
           Named("createTemplate", n2), Patch("patchTemplate", t1), CloneOf("cloneTemplate", t1, n2),
           Apply, Tag(n1), Tags(<<>>), Tags(<<n2, n5>>), Upsert(n1), Upsert(n2), Ttp(c2, n1),
           Patch("patchTtp", y1), PageOn(c1, n1), Patch("patchPage", g1), Say(u2, {u1}), Edit(u1, d1),
           OnCase(c1, "open"), CloseAll({c1, c3}), CloseAll({c3}), Patch("patchObservable", b2),
           [op |-> "bulkPatchObservables", org |-> o1, ids |-> {b1, b2}, fits |-> TRUE],
           Ask("listCases", Null), Ask("getCase", c1), Ask("getKb", Null)}}
  \cup Pairs({Unfit(Patch("patchKb", w1))}, {On("deleteKb", w1)})
  \cup Triples({Unfit(Tags(<<n2>>))}, {Tags(<<n5, n2>>)}, {Tag(n2)})
  \cup Pairs({Unfit(Tags(<<n2, n5>>))}, {Tags(<<n5, n2>>)})
MCTraffic ==
  ViewTraffic \cup FollowTraffic \cup AuditPages \cup AccountTraffic \cup LibraryTraffic
    \cup IndexerTraffic \cup UnfitTraffic
(* The migration that makes the vector column is missing only where        *)
(* somebody searches.                                                      *)
MCInit ==
  BackOfficeInit /\ (vectors = Null => \E r \in Requests : call[r].op = "similarCases")
MCSpec ==
  /\ MCInit /\ [][Next]_vars
  /\ \A w \in Workers : WF_vars(Query(w)) /\ WF_vars(Index(w))
=============================================================================
