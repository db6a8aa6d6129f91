------------------------------ MODULE Library -------------------------------
(***************************************************************************)
(* What an organization writes down: runbooks and case templates (kb.py),  *)
(* taxonomies (taxonomies.py), techniques (ttps.py), the pages of a case   *)
(* (case_pages.py), and comments with the mentions they make               *)
(* (case_comments.py, mentions.py), all under backend/adhkar/api/v1: the   *)
(* handlers that write; and those of cases and observables (cases.py,      *)
(* observables.py), as far as the views tell them apart.                   *)
(*                                                                         *)
(* A runbook or a page is named by its slug, a template by its name, a     *)
(* technique by its id in the catalog.  The text of a row is named after   *)
(* the request that wrote it.  A mention is an "audit" row under the user  *)
(* it mentions; "at" of a user is when they last looked at their mentions. *)
(***************************************************************************)
EXTENDS Tables

CONSTANT TemplateTasks      \* tasks that a template makes
ASSUME TemplateAssumption == TemplateTasks \in 0..(MaxRows - 1)

KbCalls ==
       [op : {"createKb", "createTemplate"}, org : Orgs, user : Callers, name : Names,
        fits : BOOLEAN]
  \cup [op : {"patchKb", "patchTemplate"}, org : Orgs, id : Ids, fits : BOOLEAN]
  \cup [op : {"deleteKb", "deleteTemplate"}, org : Orgs, id : Ids]
  \cup [op : {"cloneKb", "cloneTemplate"}, org : Orgs, user : Callers, id : Ids, name : Names,
        fits : BOOLEAN]
  \cup [op : {"applyTemplate"}, org : Orgs, user : Callers, id : Ids, fits : BOOLEAN]
TaxonomyCalls ==
       [op : {"createTaxonomy"}, org : Orgs, name : Names, fits : BOOLEAN]
  \cup [op : {"deleteTaxonomy"}, org : Orgs, id : Ids]
  \cup {c \in [op : {"importMisp"}, org : Orgs, tags : Seq(Names), fits : BOOLEAN] :
          Len(c.tags) \in 0..MaxRows}
TtpCalls ==
       [op : {"upsertTechnique"}, name : Names, fits : BOOLEAN]
  \cup [op : {"addTtp"}, org : Orgs, user : Callers, under : Ids, name : Names, fits : BOOLEAN]
  \cup [op : {"patchTtp"}, org : Orgs, id : Ids, fits : BOOLEAN]
  \cup [op : {"removeTtp"}, org : Orgs, id : Ids]
PageCalls ==
       [op : {"createPage"}, org : Orgs, user : Callers, under : Ids, name : Names, fits : BOOLEAN]
  \cup [op : {"patchPage"}, org : Orgs, id : Ids, fits : BOOLEAN]
  \cup [op : {"deletePage"}, org : Orgs, id : Ids]
CommentCalls ==
       [op : {"comment"}, org : Orgs, user : Callers, under : Ids, mentions : SUBSET First,
        fits : BOOLEAN]
  \cup [op : {"editComment"}, org : Orgs, user : Callers, id : Ids, fits : BOOLEAN]
  \cup [op : {"seen"}, user : Callers]
ItemCalls ==
       [op : {"patchCase"}, org : Orgs, user : Callers, id : Ids, state : States, fits : BOOLEAN]
  \cup [op : {"bulkPatchCases"}, org : Orgs, user : Callers, ids : SUBSET Ids, state : States,
        fits : BOOLEAN]
  \cup [op : {"deleteCase"}, org : Orgs, user : Callers, id : Ids]
  \cup [op : {"patchObservable"}, org : Orgs, id : Ids, fits : BOOLEAN]
  \cup [op : {"deleteObservable"}, org : Orgs, id : Ids]
  \cup [op : {"bulkPatchObservables"}, org : Orgs, ids : SUBSET Ids, fits : BOOLEAN]

-----------------------------------------------------------------------------
(* The ways of most handlers.  A patch may have null for what must have a  *)
(* value, and a copy may be too long: Insert and Update refuse it then.    *)
Create(r, table) ==
  InsertOne(r, Sole(r, table, call[r].org, Null, call[r].name, r, call[r].user), "409")
Clone(r, table) ==
  IF ~SeesOwn(r, call[r].id, table) THEN Refuse(r, "404")
  ELSE InsertOne(r, Sole(r, table, call[r].org, Null, call[r].name, seen[r][call[r].id].state,
                         call[r].user), "409")
Rewrite(r, table) ==
  IF SeesOwn(r, call[r].id, table) THEN Update(r, call[r].id, [state |-> r]) ELSE Refuse(r, "404")
Remove(r, table) ==
  IF SeesOwn(r, call[r].id, table) THEN Delete(r, call[r].id) ELSE Refuse(r, "404")

CreateKbPage(r) == Of(r, "createKb") /\ Create(r, "kb")
PatchKbPage(r) == Of(r, "patchKb") /\ Rewrite(r, "kb")
CloneKbPage(r) == Of(r, "cloneKb") /\ Clone(r, "kb")
DeleteKbPage(r) == Of(r, "deleteKb") /\ Remove(r, "kb")
CreateTemplate(r) == Of(r, "createTemplate") /\ Create(r, "template")
PatchTemplate(r) == Of(r, "patchTemplate") /\ Rewrite(r, "template")
CloneCaseTemplate(r) == Of(r, "cloneTemplate") /\ Clone(r, "template")
DeleteTemplate(r) == Of(r, "deleteTemplate") /\ Remove(r, "template")

(* apply_template numbers the case once: unlike create_case it does not    *)
(* try again when the number is taken.                                     *)
Numbered(rows, o, n) ==
  \E x \in Ids : /\ rows[x] # Null /\ rows[x].table = "case"
                 /\ rows[x].org = o /\ rows[x].name = <<"number", n>>
IsLast(rows, o, n) ==
  Numbered(rows, o, n) /\ \A m \in (n + 1)..MaxNumber : ~Numbered(rows, o, m)
IsNext(rows, o, n) ==
  /\ n = 1 \/ Numbered(rows, o, n - 1)
  /\ \A m \in n..MaxNumber : ~Numbered(rows, o, m)
ApplyTemplate(r) ==
  LET o == call[r].org
  IN  /\ Of(r, "applyTemplate")
      /\ IF ~SeesOwn(r, call[r].id, "template") THEN Refuse(r, "404")
         ELSE \E n \in {m \in 1..MaxNumber : IsNext(seen[r], o, m)} :
                Insert(r, [x \in {<<r, k>> : k \in 1..(1 + TemplateTasks)} |->
                  IF x = <<r, 1>>
                  THEN Sole(r, "case", o, Null, <<"number", n>>, "open", call[r].user)
                  ELSE Sole(r, "task", o, <<r, 1>>, r, "Waiting", Null)], "500")

-----------------------------------------------------------------------------
(* Taxonomies.  import_misp_taxonomy inserts tag by tag in one transaction *)
(* and calls rollback when a tag is there: that undoes the whole           *)
(* transaction, while the tags it had counted stay counted.  An import     *)
(* that does not fit has one more tag after call.tags, with a predicate or *)
(* a value longer than its column: nobody catches that (DataError), and    *)
(* what would follow is not reached.                                       *)
CreateTaxonomyEntry(r) ==
  /\ Of(r, "createTaxonomy")
  /\ InsertOne(r, Sole(r, "taxonomy", call[r].org, Null, call[r].name, "", Null), "409")
DeleteTaxonomyEntry(r) == Of(r, "deleteTaxonomy") /\ Remove(r, "taxonomy")

Counted(r) == {k \in 1..Len(answer[r]) : answer[r][k] = {<<r, k>>}}
Kept(r) == Staged(r)
ImportTag(r) ==
  LET k == Len(answer[r]) + 1
      taken == \/ \E x \in Ids : db[x] # Null /\ SameKey(db[x], Entry(r, k))
               \/ \E j \in Staged(r) : SameKey(Entry(r, j), Entry(r, k))
  IN  /\ Of(r, "importMisp") /\ k <= Len(call[r].tags)
      /\ ~Waits(r, Entry(r, k))
      /\ answer' = [answer EXCEPT ![r] = Append(@, IF taken THEN {} ELSE {<<r, k>>})]
      /\ UNCHANGED <<db, call, pc, seen, began, ended, clock>>
(* Of two imports that wait for each other the database ends one.          *)
ImportDeadlock(r) ==
  LET next(q) == Entry(q, Len(answer[q]) + 1)
      holds(q, row) == \E j \in Staged(q) : SameKey(Entry(q, j), row)
  IN  /\ Of(r, "importMisp") /\ Len(answer[r]) < Len(call[r].tags)
      /\ \E q \in Requests \ {r} :
           /\ Of(q, "importMisp") /\ Len(answer[q]) < Len(call[q].tags)
           /\ holds(q, next(r)) /\ holds(r, next(q))
      /\ Refuse(r, "500")
ImportEnd(r) ==
  /\ Of(r, "importMisp") /\ Len(answer[r]) = Len(call[r].tags)
  /\ IF Fits(call[r]) THEN Commit(r, With([x \in {<<r, k>> : k \in Kept(r)} |-> Entry(r, x[2])]))
                      ELSE GiveUp(r)

-----------------------------------------------------------------------------
(* Techniques, of the catalog and of cases.                                *)
Technique(r, t) == {x \in Ids : Sees(r, x, "technique") /\ seen[r][x].name = t}
UpsertCatalogEntry(r) ==
  /\ Of(r, "upsertTechnique")
  /\ IF Technique(r, call[r].name) = {}
     THEN InsertOne(r, Sole(r, "technique", Null, Null, call[r].name, r, Null), "500")
     ELSE \E x \in Technique(r, call[r].name) : Update(r, x, [state |-> r])

Join(r, table) ==
  InsertOne(r, Sole(r, table, call[r].org, call[r].under, call[r].name, r, call[r].user), "409")
AddCaseTtp(r) ==
  /\ Of(r, "addTtp")
  /\ IF SeesCase(r) /\ Technique(r, call[r].name) # {} THEN Join(r, "case_ttp")
                                                       ELSE Refuse(r, "404")
PatchCaseTtp(r) == Of(r, "patchTtp") /\ Rewrite(r, "case_ttp")
RemoveCaseTtp(r) == Of(r, "removeTtp") /\ Remove(r, "case_ttp")

CreateCasePage(r) ==
  Of(r, "createPage") /\ IF SeesCase(r) THEN Join(r, "case_page") ELSE Refuse(r, "404")
PatchCasePage(r) == Of(r, "patchPage") /\ Rewrite(r, "case_page")
DeleteCasePage(r) == Of(r, "deletePage") /\ Remove(r, "case_page")

-----------------------------------------------------------------------------
(* Comments and mentions: one for every member of the organization whom    *)
(* the text names, save its author.                                        *)
Members(rows, o) ==
  {u \in Ids : rows[u] # Null /\ rows[u].table = "user" /\ ~rows[u].gone
     /\ \E m \in Ids : rows[m] # Null /\ rows[m].table = "member"
                       /\ rows[m].org = o /\ rows[m].under = u}
Mentioned(r) == (call[r].mentions \cap Members(seen[r], call[r].org)) \ {call[r].user}
CreateComment(r) ==
  LET o == call[r].org
      comment == Sole(r, "comment", o, call[r].under, r, "said", call[r].user)
  IN  /\ Of(r, "comment")
      /\ IF ~SeesCase(r) THEN Refuse(r, "404")
         ELSE \E n \in 1..MaxRows : \E who \in [2..n -> Mentioned(r)] :
                /\ \A j, k \in 2..n : who[j] = who[k] => j = k
                /\ \A u \in Mentioned(r) : \E k \in 2..n : who[k] = u
                /\ Insert(r, [x \in {<<r, k>> : k \in 1..n} |->
                     IF x = <<r, 1>> THEN comment
                     ELSE Sole(r, "audit", o, who[x[2]], Null, "mentioned", call[r].user)], "500")

PatchComment(r) ==
  /\ Of(r, "editComment")
  /\ IF ~SeesOwn(r, call[r].id, "comment") THEN Refuse(r, "404")
     ELSE IF seen[r][call[r].id].by # call[r].user THEN Refuse(r, "403")
     ELSE Update(r, call[r].id, [state |-> r])

(* mark_mentions_seen: a time of the clock, not that of its transaction.   *)
MarkMentionsSeen(r) ==
  /\ Of(r, "seen")
  /\ \E now \in began[r]..clock : Update(r, call[r].user, [at |-> now])

-----------------------------------------------------------------------------
(* Cases and observables: CaseWork models what else these handlers do.     *)
(* What becomes of a case is audited.                                      *)
SeesLive(r, x, table) == SeesOwn(r, x, table) /\ ~seen[r][x].gone
ChangeCases(r, S, columns) ==
  \E n \in 0..MaxRows : \E about \in [1..n -> S] :
    /\ \A j, k \in 1..n : about[j] = about[k] => j = k
    /\ \A c \in S : \E k \in 1..n : about[k] = c
    /\ Insert(r, [x \in S \cup {<<r, k>> : k \in 1..n} |->
         IF x \in S THEN Updated(r, x, columns)
         ELSE Sole(r, "audit", call[r].org, about[x[2]], Null, "", call[r].user)], "500")
ChangeCase(r, columns) ==
  IF SeesLive(r, call[r].id, "case") THEN ChangeCases(r, {call[r].id}, columns) ELSE Refuse(r, "404")
PatchCase(r) == Of(r, "patchCase") /\ ChangeCase(r, [state |-> call[r].state])
DeleteCase(r) == Of(r, "deleteCase") /\ ChangeCase(r, [gone |-> TRUE])
BulkPatchCases(r) ==
  /\ Of(r, "bulkPatchCases")
  /\ ChangeCases(r, {c \in call[r].ids : SeesLive(r, c, "case")}, [state |-> call[r].state])

ChangeObservable(r, columns) ==
  IF SeesLive(r, call[r].id, "observable") THEN Update(r, call[r].id, columns) ELSE Refuse(r, "404")
PatchObservable(r) == Of(r, "patchObservable") /\ ChangeObservable(r, [state |-> r])
DeleteObservable(r) == Of(r, "deleteObservable") /\ ChangeObservable(r, [gone |-> TRUE])
BulkPatchObservables(r) ==
  /\ Of(r, "bulkPatchObservables")
  /\ Insert(r, [x \in {y \in call[r].ids : SeesLive(r, y, "observable")} |->
                  Updated(r, x, [state |-> r])], "500")
=============================================================================
