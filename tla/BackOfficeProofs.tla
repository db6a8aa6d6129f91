-------------------------- MODULE BackOfficeProofs --------------------------
(***************************************************************************)
(* Proofs about BackOffice, for any number of requests, rows, names and    *)
(* indexers, and for whatever calls are made together.  First what the     *)
(* calls are and what every write, refusal and answer does to the          *)
(* invariant IInv, then one lemma for every group of handlers, with one    *)
(* step for every handler and every view; then the same for AnswerIInv,    *)
(* which says why what a request is told is true.                          *)
(***************************************************************************)
EXTENDS BackOffice, TLAPS

-----------------------------------------------------------------------------
(* What the fields of a call are, by its op.                               *)
LEMMA AccountCallShape ==
  ASSUME NEW c \in Calls
  PROVE  /\ c.op = "invite" =>
              c \in [op : {"invite"}, org : Orgs, user : Callers, email : Names, profile : Ids,
                     fits : BOOLEAN]
         /\ c.op = "patchUser" =>
              c \in [op : {"patchUser"}, org : Orgs, id : Ids, profile : Ids \cup {Null},
                     fits : BOOLEAN]
         /\ c.op = "deleteUser" => c \in [op : {"deleteUser"}, user : Callers, id : Ids]
         /\ c.op \in {"lock", "unlock", "resetMfa", "accept"} =>
              c \in [op : {"lock", "unlock", "resetMfa", "accept"}, id : Ids]
         /\ c.op = "enroll" => c \in [op : {"enroll"}, user : Callers]
         /\ c.op = "confirm" => c \in [op : {"confirm"}, user : Callers, proves : Requests]
         /\ c.op \in {"disable", "regenerate"} =>
              c \in [op : {"disable", "regenerate"}, user : Callers, proves : Requests,
                     password : BOOLEAN]
  BY SMT DEF Calls, UserCalls, MfaCalls, ProfileCalls, OrgCalls, KeyCalls, GdprCalls, KbCalls,
    TaxonomyCalls, TtpCalls, PageCalls, CommentCalls, ItemCalls

LEMMA OrgCallShape ==
  ASSUME NEW c \in Calls
  PROVE  /\ c.op = "createProfile" =>
              c \in [op : {"createProfile"}, org : Orgs, name : Names, fits : BOOLEAN]
         /\ c.op = "patchProfile" =>
              c \in [op : {"patchProfile"}, org : Orgs, id : Ids, name : Names,
                     permissions : BOOLEAN, fits : BOOLEAN]
         /\ c.op = "deleteProfile" => c \in [op : {"deleteProfile"}, org : Orgs, id : Ids]
         /\ c.op = "patchOrg" =>
              c \in [op : {"patchOrg"}, id : Ids, name : Names, fits : BOOLEAN]
         /\ c.op = "createSharing" =>
              c \in [op : {"createSharing"}, org : Orgs, user : Callers, target : Ids]
         /\ c.op = "deleteSharing" => c \in [op : {"deleteSharing"}, org : Orgs, id : Ids]
         /\ c.op = "createKey" =>
              c \in [op : {"createKey"}, user : Callers, within : BOOLEAN, fits : BOOLEAN]
         /\ c.op \in {"revokeKey", "adminRevokeKey"} =>
              c \in [op : {"revokeKey", "adminRevokeKey"}, user : Callers, id : Ids]
         /\ c.op = "erase" => c \in [op : {"erase"}, user : Callers, id : Ids]
  BY SMT DEF Calls, UserCalls, MfaCalls, ProfileCalls, OrgCalls, KeyCalls, GdprCalls, KbCalls,
    TaxonomyCalls, TtpCalls, PageCalls, CommentCalls, ItemCalls

LEMMA LibraryCallShape ==
  ASSUME NEW c \in Calls
  PROVE  /\ c.op \in {"createKb", "createTemplate"} =>
              c \in [op : {"createKb", "createTemplate"}, org : Orgs, user : Callers, name : Names,
                     fits : BOOLEAN]
         /\ c.op \in {"patchKb", "patchTemplate", "deleteKb", "deleteTemplate"} =>
              c.org \in Orgs /\ c.id \in Ids
         /\ c.op \in {"cloneKb", "cloneTemplate"} =>
              c \in [op : {"cloneKb", "cloneTemplate"}, org : Orgs, user : Callers, id : Ids,
                     name : Names, fits : BOOLEAN]
         /\ c.op = "applyTemplate" =>
              c \in [op : {"applyTemplate"}, org : Orgs, user : Callers, id : Ids, fits : BOOLEAN]
         /\ c.op = "createTaxonomy" =>
              c \in [op : {"createTaxonomy"}, org : Orgs, name : Names, fits : BOOLEAN]
         /\ c.op = "deleteTaxonomy" => c \in [op : {"deleteTaxonomy"}, org : Orgs, id : Ids]
         /\ c.op = "importMisp" =>
              /\ c.org \in Orgs /\ c.tags \in Seq(Names) /\ Len(c.tags) \in 0..MaxRows
  BY SMT DEF Calls, UserCalls, MfaCalls, ProfileCalls, OrgCalls, KeyCalls, GdprCalls, KbCalls,
    TaxonomyCalls, TtpCalls, PageCalls, CommentCalls, ItemCalls

LEMMA CaseCallShape ==
  ASSUME NEW c \in Calls
  PROVE  /\ c.op = "upsertTechnique" => c \in [op : {"upsertTechnique"}, name : Names, fits : BOOLEAN]
         /\ c.op = "addTtp" =>
              c \in [op : {"addTtp"}, org : Orgs, user : Callers, under : Ids, name : Names,
                     fits : BOOLEAN]
         /\ c.op \in {"patchTtp", "removeTtp"} =>
              c.org \in Orgs /\ c.id \in Ids
         /\ c.op = "createPage" =>
              c \in [op : {"createPage"}, org : Orgs, user : Callers, under : Ids, name : Names,
                     fits : BOOLEAN]
         /\ c.op \in {"patchPage", "deletePage"} =>
              c.org \in Orgs /\ c.id \in Ids
         /\ c.op = "comment" =>
              c \in [op : {"comment"}, org : Orgs, user : Callers, under : Ids,
                     mentions : SUBSET First, fits : BOOLEAN]
         /\ c.op = "editComment" =>
              c \in [op : {"editComment"}, org : Orgs, user : Callers, id : Ids, fits : BOOLEAN]
         /\ c.op = "seen" => c \in [op : {"seen"}, user : Callers]
         /\ c.op = "patchCase" =>
              c \in [op : {"patchCase"}, org : Orgs, user : Callers, id : Ids, state : States,
                     fits : BOOLEAN]
         /\ c.op = "bulkPatchCases" =>
              c \in [op : {"bulkPatchCases"}, org : Orgs, user : Callers, ids : SUBSET Ids,
                     state : States, fits : BOOLEAN]
         /\ c.op = "deleteCase" => c \in [op : {"deleteCase"}, org : Orgs, user : Callers, id : Ids]
         /\ c.op \in {"patchObservable", "deleteObservable"} =>
              c.org \in Orgs /\ c.id \in Ids
         /\ c.op = "bulkPatchObservables" =>
              c \in [op : {"bulkPatchObservables"}, org : Orgs, ids : SUBSET Ids, fits : BOOLEAN]
  BY SMT DEF Calls, UserCalls, MfaCalls, ProfileCalls, OrgCalls, KeyCalls, GdprCalls, KbCalls,
    TaxonomyCalls, TtpCalls, PageCalls, CommentCalls, ItemCalls

(* A request that writes is a call.                                        *)
LEMMA WriterCalls ==
  ASSUME TypeOK, NEW r \in Requests, NEW op, Of(r, op)
  PROVE  call[r] \in Calls /\ call[r].op = op /\ pc[r] = "write"
  BY DEF TypeOK, Of
(* A call is of one that writes.                                           *)
LEMMA CallsWrite ==
  ASSUME NEW r, call[r] \in Calls
  PROVE  ~IsQuery(r)
  BY SMT DEF IsQuery, Calls, UserCalls, MfaCalls, ProfileCalls, OrgCalls, KeyCalls, GdprCalls,
    KbCalls, TaxonomyCalls, TtpCalls, PageCalls, CommentCalls, ItemCalls
(* A call that is not a query is one that writes.                          *)
LEMMA WritersAreCalls ==
  ASSUME TypeOK, NEW r \in Requests, ~IsQuery(r)
  PROVE  call[r] \in Calls
  BY DEF TypeOK, IsQuery, AllCalls, Queries

-----------------------------------------------------------------------------
(* Names of rows, tables and columns.                                      *)
LEMMA NewIds ==
  ASSUME NEW r \in Requests
  PROVE  /\ \A k \in 1..MaxRows : <<r, k>> \in Ids
         /\ <<r, 1>> \in Ids /\ <<r, 2>> \in Ids /\ 1 \in 1..MaxRows /\ 2 \in 1..MaxRows
  BY IdsAssumption DEF Ids
LEMMA OrgIds == Orgs \subseteq First /\ Callers \subseteq First /\ First \subseteq Ids
  BY DEF Orgs, Callers, Ids
LEMMA NullOut == Null \notin Row /\ Null \notin Ids
  BY IdsAssumption, FirstAssumption
LEMMA Constrained ==
  DOMAIN UniqueOn =
    {"user", "organization", "profile", "member", "mfa", "sharing", "kb", "template", "taxonomy",
     "technique", "case_ttp", "case_page", "case"}
  BY DEF UniqueOn
LEMMA Symmetric ==
  ASSUME NEW a, NEW b, SameKey(a, b)
  PROVE  SameKey(b, a)
  BY DEF SameKey

LEMMA SoleType ==
  ASSUME TypeOK, NEW r \in Requests, NEW table \in TableNames, NEW org \in Ids \cup {Null},
         NEW under \in Ids \cup {Null},
         NEW name \in Ids \cup Names \cup Requests \cup Numbers \cup {Null},
         NEW state \in States \cup Requests, NEW by \in Ids \cup {Null}
  PROVE  /\ Sole(r, table, org, under, name, state, by) \in Row
         /\ Sole(r, table, org, under, name, state, by).table = table
  BY DEF TypeOK, Sole, Row

(* The columns of an update, and what they make of a row.                  *)
Typed(columns) ==
  /\ "name" \in DOMAIN columns =>
       columns["name"] \in Ids \cup Names \cup Requests \cup Numbers \cup {Null}
  /\ "state" \in DOMAIN columns => columns["state"] \in States \cup Requests
  /\ "gone" \in DOMAIN columns => columns["gone"] = TRUE
  /\ "at" \in DOMAIN columns => columns["at"] \in Nat
LEMMA UpdatedType ==
  ASSUME TypeOK, NEW r \in Requests, NEW x \in Ids, db[x] # Null, NEW columns, Typed(columns)
  PROVE  Updated(r, x, columns) \in Row /\ Follows(db[x], Updated(r, x, columns))
<1>1. db[x] \in Row /\ began[r] \in Nat
  BY DEF TypeOK
<1>2. /\ db[x]["name"] \in Ids \cup Names \cup Requests \cup Numbers \cup {Null}
      /\ db[x]["state"] \in States \cup Requests
      /\ db[x]["gone"] \in BOOLEAN /\ db[x]["at"] \in Nat
  BY <1>1 DEF Row
<1>3. Column(r, x, columns, "name") \in Ids \cup Names \cup Requests \cup Numbers \cup {Null}
  BY <1>2 DEF Column, Sent, Typed
<1>4. Column(r, x, columns, "state") \in States \cup Requests
  BY <1>2 DEF Column, Sent, Typed
<1>5. /\ Column(r, x, columns, "gone") \in BOOLEAN
      /\ db[x]["gone"] => Column(r, x, columns, "gone")
  BY <1>2 DEF Column, Sent, Typed
<1>6. Stamp(r, x, columns) \in Nat
  BY <1>1, <1>2 DEF Stamp, Column, Sent, Typed
<1> QED
  BY <1>1, <1>3, <1>4, <1>5, <1>6 DEF Updated, Row, Follows, SamePlace

-----------------------------------------------------------------------------
(* What a write may do to keep the invariant, whatever it is.              *)
(* No row moves, rows of some tables are never deleted, and only a request *)
(* that is not done inserts rows.  Who begins or commits has the time of   *)
(* the clock.  Nothing else than a view changes what views have answered.  *)
RowsStay ==
  \A x \in Ids :
    /\ db[x] # Null /\ db'[x] # Null => Follows(db[x], db'[x])
    /\ db[x] # Null /\ db[x].table \in Lasting => db'[x] # Null
    /\ db[x] = Null /\ db'[x] # Null =>
         \E q \in Requests, k \in 1..MaxRows : x = <<q, k>> /\ pc[q] # "200"
OnTime ==
  /\ clock' >= clock
  /\ \A q \in Requests : /\ pc[q] = "200" => pc'[q] = "200" /\ ended'[q] = ended[q]
                         /\ began'[q] = began[q] \/ (began'[q] = clock /\ clock' > clock)
                         /\ ended'[q] = ended[q] \/ (ended'[q] = clock /\ clock' > clock)
Quiet(r) ==
  /\ RowsStay /\ OnTime /\ call' = call
  /\ \A q \in Requests \ {r} : pc'[q] = pc[q]
  /\ \A q \in Requests :
       /\ pc[q] # "200" /\ pc'[q] = "200" => ended'[q] = clock /\ ~IsQuery(q)
       /\ IsQuery(q) => answer'[q] = answer[q] /\ seen'[q] = seen[q] /\ began'[q] = began[q]
Keeps(r) == IInv' /\ Quiet(r)
Codes == {"400", "401", "403", "404", "409", "500"}
LEMMA RefuseKeeps ==
  ASSUME IInv, NEW r \in Requests, pc[r] # "200", NEW code \in Codes, Refuse(r, code),
         UNCHANGED indexerVars
  PROVE  Keeps(r)
<1> USE DEF IInv
<1>1. /\ db' = db /\ call' = call /\ seen' = seen /\ answer' = answer /\ began' = began
      /\ ended' = ended /\ clock' = clock
  BY DEF Refuse
<1>2. pc' = [pc EXCEPT ![r] = code]
  BY DEF Refuse
<1>3. \A q \in Requests : pc'[q] = (IF q = r THEN code ELSE pc[q])
  BY <1>2 DEF TypeOK
<1>4. code \notin {"200", "read", "idle", "write"}
  BY DEF Codes
<1>5. TypeOK'
  BY <1>1, <1>2, <1>3, <1>4 DEF TypeOK, Codes
<1>6. IndexerTypeOK'
  BY DEF IndexerTypeOK, indexerVars
<1>7. PlacesStay'
  BY <1>1, <1>3, <1>4 DEF PlacesStay
<1>8. AnswersAreTags'
  BY <1>1, <1>3, <1>4 DEF AnswersAreTags
<1>9. Consistent'
  BY <1>1 DEF Consistent, NoDuplicates, References, AtHome, Housed, Unlike, Refers
<1>10. StagedAreFresh'
  <2>1. Imports' \subseteq Imports
    BY <1>1, <1>3, <1>4 DEF Imports
  <2>2. \A q \in Requests : Staged(q)' = Staged(q) /\ \A k : Entry(q, k)' = Entry(q, k)
    BY <1>1 DEF Staged, Entry, Sole
  <2> QED
    BY <1>1, <2>1, <2>2 DEF StagedAreFresh, Imports
<1>11. Quiet(r)
  BY <1>1, <1>3, <1>4 DEF Quiet, OnTime, RowsStay, Follows, SamePlace, TypeOK
<1> QED
  BY <1>5, <1>6, <1>7, <1>8, <1>9, <1>10, <1>11 DEF Keeps

LEMMA GiveUpKeeps ==
  ASSUME IInv, NEW r \in Requests, pc[r] = "write", GiveUp(r), UNCHANGED indexerVars
  PROVE  Keeps(r)
<1> USE DEF IInv
<1>1. /\ db' = db /\ call' = call /\ seen' = seen /\ answer' = answer /\ began' = began
      /\ ended' = [ended EXCEPT ![r] = clock] /\ clock' = clock + 1
  BY DEF GiveUp
<1>2. pc' = [pc EXCEPT ![r] = "500"]
  BY DEF GiveUp
<1>3. \A q \in Requests : pc'[q] = (IF q = r THEN "500" ELSE pc[q])
  BY <1>2 DEF TypeOK
<1>4. TypeOK'
  BY <1>1, <1>2, <1>3 DEF TypeOK
<1>5. IndexerTypeOK'
  BY DEF IndexerTypeOK, indexerVars
<1>6. PlacesStay'
  BY <1>1, <1>3 DEF PlacesStay
<1>7. AnswersAreTags'
  BY <1>1, <1>3 DEF AnswersAreTags
<1>8. Consistent'
  BY <1>1 DEF Consistent, NoDuplicates, References, AtHome, Housed, Unlike, Refers
<1>9. StagedAreFresh'
  <2>1. Imports' \subseteq Imports
    BY <1>1, <1>3 DEF Imports
  <2>2. \A q \in Requests : Staged(q)' = Staged(q) /\ \A k : Entry(q, k)' = Entry(q, k)
    BY <1>1 DEF Staged, Entry, Sole
  <2> QED
    BY <1>1, <2>1, <2>2 DEF StagedAreFresh, Imports
<1>10. OnTime
  BY <1>1, <1>3 DEF OnTime, TypeOK
<1>11. Quiet(r)
  BY <1>1, <1>3, <1>10 DEF Quiet, RowsStay, Follows, SamePlace
<1> QED
  BY <1>4, <1>5, <1>6, <1>7, <1>8, <1>9, <1>11 DEF Keeps

(* The rows that a commit of r may leave.                                  *)
Lawful(r, rows) ==
  /\ rows \in [Ids -> Row \cup {Null}]
  /\ NoDuplicates(rows) /\ References(rows) /\ AtHome(rows)
  /\ \A q \in Imports \ {r} : \A k \in Staged(q) : \A x \in Ids :
       rows[x] # Null => ~SameKey(rows[x], Entry(q, k))
  /\ \A x \in Ids : db[x] # Null =>
       /\ rows[x] # Null => Follows(db[x], rows[x])
       /\ db[x].table \in Lasting => rows[x] # Null
  /\ \A x \in Ids : db[x] = Null /\ rows[x] # Null => x \in {r} \X (1..MaxRows)
LEMMA CommitKeeps ==
  ASSUME IInv, NEW r \in Requests, pc[r] = "write", NEW rows, Lawful(r, rows), Commit(r, rows),
         UNCHANGED indexerVars
  PROVE  Keeps(r)
<1> USE DEF IInv
<1>1. db' = rows /\ call' = call /\ seen' = seen /\ answer' = answer /\ began' = began
  BY DEF Commit
<1>2. pc' = [pc EXCEPT ![r] = "200"]
  BY DEF Commit
<1>3. \A q \in Requests : pc'[q] = (IF q = r THEN "200" ELSE pc[q])
  BY <1>2 DEF TypeOK
<1>4. TypeOK'
  <2>1. db' \in [Ids -> Row \cup {Null}]
    BY <1>1 DEF Lawful
  <2>2. ended' \in [Requests -> Nat] /\ clock' \in Nat
    BY DEF Commit, TypeOK
  <2> QED
    BY <1>1, <1>2, <1>3, <2>1, <2>2 DEF TypeOK
<1>5. IndexerTypeOK'
  BY DEF IndexerTypeOK, indexerVars
<1>6. PlacesStay'
  <2>1. /\ \A o \in Orgs : db'[o] # Null /\ db'[o].table = "organization"
        /\ \A u \in Callers : db'[u] # Null /\ db'[u].table = "user"
    BY <1>1, OrgIds DEF PlacesStay, Lawful, Lasting, Follows, SamePlace
  <2>2. ASSUME NEW q \in Requests, pc'[q] # "200", NEW k \in 1..MaxRows
        PROVE  db'[<<q, k>>] = Null
    <3>1. q # r /\ pc[q] # "200"
      BY <1>3, <2>2
    <3>2. <<q, k>> \in Ids /\ <<q, k>> \notin {r} \X (1..MaxRows)
      BY <3>1, NewIds
    <3>3. db[<<q, k>>] = Null
      BY <3>1 DEF PlacesStay
    <3> QED
      BY <1>1, <3>2, <3>3 DEF Lawful
  <2>3. ASSUME NEW q \in Requests, pc'[q] = "write", NEW x \in Ids, seen'[q][x] # Null
        PROVE  /\ db'[x] # Null => Follows(seen'[q][x], db'[x])
               /\ seen'[q][x].table \in Lasting => db'[x] # Null
               /\ \A p \in Requests, k \in 1..MaxRows : x = <<p, k>> => pc'[p] = "200"
    <3>1. pc[q] = "write" /\ seen[q][x] # Null
      BY <1>1, <1>3, <2>3
    <3>2. \A p \in Requests, k \in 1..MaxRows : x = <<p, k>> => pc[p] = "200"
      BY <3>1 DEF PlacesStay
    <3>3. x \notin {r} \X (1..MaxRows)
      BY <3>2
    <3>4. db'[x] # Null => db[x] # Null
      BY <1>1, <3>3 DEF Lawful
    <3> QED
      BY <1>1, <1>3, <3>1, <3>2, <3>4 DEF PlacesStay, Lawful, Follows, SamePlace
  <2> QED
    BY <2>1, <2>2, <2>3 DEF PlacesStay
<1>7. Consistent'
  BY <1>1 DEF Lawful, Consistent, NoDuplicates, References, AtHome, Housed, Unlike, Refers
<1>8. AnswersAreTags'
  BY <1>1, <1>3 DEF AnswersAreTags
<1>9. StagedAreFresh'
  <2>1. Imports' \subseteq Imports \ {r}
    BY <1>1, <1>3 DEF Imports
  <2>2. \A q \in Requests : Staged(q)' = Staged(q) /\ \A k : Entry(q, k)' = Entry(q, k)
    BY <1>1 DEF Staged, Entry, Sole
  <2>3. \A q \in Imports' : \A k \in Staged(q) : \A x \in Ids :
          db'[x] # Null => ~SameKey(db'[x], Entry(q, k))
    BY <1>1, <2>1 DEF Lawful
  <2> QED
    BY <2>1, <2>2, <2>3 DEF StagedAreFresh, Imports
<1>10. Quiet(r)
  <2>1. RowsStay
    BY <1>1 DEF RowsStay, Lawful
  <2>2. clock' = clock + 1 /\ ended' = [ended EXCEPT ![r] = clock]
    BY DEF Commit
  <2>3. OnTime
    BY <1>1, <1>3, <2>2 DEF OnTime, TypeOK
  <2>4. ~IsQuery(r)
    BY CallsWrite DEF TypeOK
  <2> QED
    BY <1>1, <1>3, <2>1, <2>2, <2>3, <2>4 DEF Quiet, TypeOK
<1> QED
  BY <1>4, <1>5, <1>6, <1>7, <1>8, <1>9, <1>10 DEF Keeps

(* A commit of what is there.                                              *)
LEMMA SameLawful ==
  ASSUME IInv, NEW r \in Requests
  PROVE  Lawful(r, db)
<1>1. \A q \in Imports : \A k \in Staged(q) : \A x \in Ids :
        db[x] # Null => ~SameKey(db[x], Entry(q, k))
  BY DEF IInv, StagedAreFresh
<1> QED
  BY <1>1 DEF Lawful, IInv, TypeOK, Consistent, Follows, SamePlace

(* What an INSERT or an UPDATE may do to a row.                            *)
Settles(r, new, x) ==
  \/ db[x] # Null /\ Follows(db[x], new[x])
  \/ /\ x \in {r} \X (1..MaxRows)
     /\ new[x].table \in Written => Housed(With(new), new[x])
(* Rows that an INSERT adds are of the request that sends it, rows that it *)
(* changes stay in their table.  It waits for imports that have inserted   *)
(* an equal row and refuses rows that a constraint forbids.                *)
LEMMA InsertLawful ==
  ASSUME IInv, NEW r \in Requests, NEW S \in SUBSET Ids, NEW new \in [S -> Row],
         \A x \in S : Settles(r, new, x),
         pc[r] = "write",
         \A x \in S : ~Waits(r, new[x]),
         \A x \in S : Unlike(With(new), x) /\ Refers(With(new), x)
  PROVE  Lawful(r, With(new))
<1> DEFINE rows == With(new)
<1> USE DEF IInv
<1>1. \A x \in Ids : rows[x] = (IF x \in S THEN new[x] ELSE db[x])
  BY DEF With
<1>2. rows \in [Ids -> Row \cup {Null}]
  BY DEF With, TypeOK
<1>3. \A x \in S : rows[x] # Null
  BY <1>1, NullOut
<1>4. \A x \in S : Unlike(rows, x) /\ Refers(rows, x)
  OBVIOUS
<1> HIDE DEF rows
<1>5. NoDuplicates(rows)
  <2> SUFFICES ASSUME NEW x \in Ids, rows[x] # Null, rows[x].table \in DOMAIN UniqueOn,
                      NEW y \in Ids \ {x}, rows[y] # Null, SameKey(rows[x], rows[y])
               PROVE  FALSE
    BY DEF NoDuplicates, Unlike
  <2>1. CASE x \in S
    BY <1>4, <2>1 DEF Unlike
  <2>2. CASE y \in S
    BY <1>4, <2>2, Symmetric DEF Unlike
  <2>3. CASE x \notin S /\ y \notin S
    BY <1>1, <2>3 DEF Consistent, NoDuplicates, Unlike
  <2> QED
    BY <2>1, <2>2, <2>3
<1>6. References(rows)
  <2> SUFFICES ASSUME NEW x \in Ids, rows[x] # Null PROVE Refers(rows, x)
    BY DEF References
  <2>1. CASE x \notin S
    <3>1. rows[x] = db[x] /\ Refers(db, x)
      BY <1>1, <2>1 DEF Consistent, References
    <3>2. \A y \in Ids : db[y] # Null => rows[y] # Null
      BY <1>1, <1>3
    <3> QED
      BY <3>1, <3>2 DEF Refers
  <2> QED
    BY <1>4, <2>1
<1>7. ASSUME NEW q \in Imports \ {r}, NEW k \in Staged(q), NEW x \in Ids, rows[x] # Null,
             SameKey(rows[x], Entry(q, k))
      PROVE  FALSE
  <2>1. CASE x \in S
    <3>1. SameKey(Entry(q, k), new[x])
      BY <1>1, <1>7, <2>1, Symmetric
    <3> QED
      BY <3>1, <2>1 DEF Waits, Imports
  <2>2. CASE x \notin S
    <3>1. db[x] # Null /\ SameKey(db[x], Entry(q, k))
      BY <1>1, <1>7, <2>2
    <3> QED
      BY <1>7, <3>1 DEF StagedAreFresh
  <2> QED
    BY <2>1, <2>2
<1>8. ASSUME NEW x \in Ids, db[x] # Null
      PROVE  /\ rows[x] # Null => Follows(db[x], rows[x])
             /\ db[x].table \in Lasting => rows[x] # Null
  <2>1. x \notin {r} \X (1..MaxRows)
    <3>1. \A k \in 1..MaxRows : db[<<r, k>>] = Null
      BY DEF PlacesStay
    <3> QED
      BY <1>8, <3>1
  <2> QED
    BY <1>1, <1>3, <1>8, <2>1 DEF Settles, Follows, SamePlace
<1>9. ASSUME NEW x \in Ids, db[x] = Null, rows[x] # Null
      PROVE  x \in {r} \X (1..MaxRows)
  BY <1>1, <1>9 DEF Settles
<1>10. AtHome(rows)
  <2> SUFFICES ASSUME NEW x \in Ids, rows[x] # Null, rows[x].table \in Written
               PROVE  Housed(rows, rows[x])
    BY DEF AtHome
  <2>1. CASE db[x] # Null
    <3>1. Follows(db[x], rows[x]) /\ Housed(db, db[x])
      BY <1>8, <2>1 DEF Consistent, AtHome, Follows, SamePlace
    <3>2. rows[x].under \in Ids /\ rows[rows[x].under] # Null
      BY <1>6, <3>1, NullOut DEF References, Refers, ForeignKeys, Housed, Follows, SamePlace
    <3> QED
      BY <1>8, <3>1, <3>2 DEF Housed, Follows, SamePlace
  <2>2. CASE db[x] = Null
    BY <1>1, <2>2 DEF Settles, rows
  <2> QED
    BY <2>1, <2>2
<1> QED
  BY <1>2, <1>5, <1>6, <1>7, <1>8, <1>9, <1>10 DEF Lawful, rows

LEMMA InsertKeeps ==
  ASSUME IInv, NEW r \in Requests, pc[r] = "write", UNCHANGED indexerVars,
         NEW S \in SUBSET Ids, NEW new \in [S -> Row], NEW clash \in Codes,
         \A x \in S : Settles(r, new, x),
         Insert(r, new, clash)
  PROVE  Keeps(r)
<1>1. CASE Refuse(r, clash)
  BY <1>1, RefuseKeeps
<1>2. CASE /\ Commit(r, With(new))
           /\ \A x \in S : ~Waits(r, new[x]) /\ Unlike(With(new), x) /\ Refers(With(new), x)
  <2>1. Lawful(r, With(new))
    BY <1>2, InsertLawful
  <2> QED
    BY <1>2, <2>1, CommitKeeps
<1>3. CASE Refuse(r, "500")
  BY <1>3, RefuseKeeps DEF Codes
<1> QED
  BY <1>1, <1>2, <1>3 DEF Insert

LEMMA InsertOneKeeps ==
  ASSUME IInv, NEW r \in Requests, pc[r] = "write", UNCHANGED indexerVars,
         NEW row \in Row, row.table \notin Written, NEW clash \in Codes, InsertOne(r, row, clash)
  PROVE  Keeps(r)
<1> DEFINE new == [x \in {<<r, 1>>} |-> row]
<1>1. new \in [{<<r, 1>>} -> Row] /\ {<<r, 1>>} \in SUBSET Ids
  BY NewIds
<1>2. <<r, 1>> \in {r} \X (1..MaxRows)
  BY NewIds
<1>3. Insert(r, new, clash)
  BY DEF InsertOne
<1>4. \A x \in {<<r, 1>>} : Settles(r, new, x)
  BY <1>2 DEF Settles
<1> HIDE DEF new
<1> QED
  BY <1>1, <1>3, <1>4, InsertKeeps

LEMMA UpdateKeeps ==
  ASSUME IInv, NEW r \in Requests, pc[r] = "write", UNCHANGED indexerVars,
         NEW x \in Ids, NEW columns, Typed(columns), Update(r, x, columns)
  PROVE  Keeps(r)
<1> DEFINE S == {z \in {x} : db[z] # Null}
           new == [y \in S |-> Updated(r, y, columns)]
<1>1. CASE Refuse(r, "500")
  BY <1>1, RefuseKeeps DEF Codes
<1>2. CASE Insert(r, new, "500")
  <2>1. \A y \in S : Updated(r, y, columns) \in Row /\ Follows(db[y], Updated(r, y, columns))
    BY UpdatedType DEF IInv
  <2>2. new \in [S -> Row] /\ S \in SUBSET Ids
    BY <2>1
  <2>3. \A y \in S : Settles(r, new, y)
    BY <2>1 DEF Settles
  <2> HIDE DEF new
  <2> QED
    BY <1>2, <2>2, <2>3, InsertKeeps DEF Codes
<1> QED
  BY <1>1, <1>2 DEF Update

(* A DELETE finds no row that refers to the one that goes.                 *)
LEMMA DeleteKeeps ==
  ASSUME IInv, NEW r \in Requests, pc[r] = "write", UNCHANGED indexerVars,
         NEW x \in Ids, NEW table, table \notin Lasting, Sees(r, x, table), Delete(r, x)
  PROVE  Keeps(r)
<1> DEFINE rows == With([y \in {x} |-> Null])
<1> USE DEF IInv
<1>1. CASE Refuse(r, "500")
  BY <1>1, RefuseKeeps DEF Codes
<1>2. CASE Commit(r, rows) /\ \A y \in Ids \ {x} : db[y] # Null => x \notin ForeignKeys(db[y])
  <2>1. \A y \in Ids : rows[y] = (IF y = x THEN Null ELSE db[y])
    BY DEF With
  <2>2. rows \in [Ids -> Row \cup {Null}]
    BY DEF With, TypeOK
  <2> HIDE DEF rows
  <2>3. NoDuplicates(rows)
    BY <2>1 DEF Consistent, NoDuplicates, Unlike
  <2>4. References(rows)
    BY <1>2, <2>1 DEF Consistent, References, Refers
  <2>a. AtHome(rows)
    BY <1>2, <2>1, NullOut DEF Consistent, AtHome, Housed, ForeignKeys
  <2>5. \A q \in Imports \ {r} : \A k \in Staged(q) : \A y \in Ids :
          rows[y] # Null => ~SameKey(rows[y], Entry(q, k))
    BY <2>1 DEF StagedAreFresh
  <2>6. db[x] # Null => db[x].table \notin Lasting
    BY DEF PlacesStay, Sees, Follows, SamePlace
  <2>7. Lawful(r, rows)
    BY <2>1, <2>2, <2>3, <2>4, <2>a, <2>5, <2>6 DEF Lawful, Follows, SamePlace
  <2> QED
    BY <1>2, <2>7, CommitKeeps
<1> QED
  BY <1>1, <1>2 DEF Delete

(* What a request read is there to be changed.                             *)
LEMMA SeenStays ==
  ASSUME IInv, NEW r \in Requests, pc[r] = "write", NEW x \in Ids, NEW table, Sees(r, x, table)
  PROVE  /\ db[x] # Null => db[x].table = table /\ Follows(seen[r][x], db[x])
         /\ table \in Lasting => db[x] # Null
  BY DEF IInv, PlacesStay, Sees, Follows, SamePlace
LEMMA SeenRow ==
  ASSUME IInv, NEW r \in Requests, pc[r] = "write", NEW x \in Ids, seen[r][x] # Null
  PROVE  seen[r][x] \in Row
  BY DEF IInv, TypeOK

(* What a handler writes in one column.                                    *)
LEMMA TypedColumns ==
  /\ \A s \in States \cup Requests : Typed([state |-> s])
  /\ \A n \in Ids \cup Names \cup Requests : Typed([name |-> n])
  /\ \A t \in Nat : Typed([at |-> t])
  /\ Typed([gone |-> TRUE])
  BY DEF Typed
LEMMA TableMembers ==
  {"user", "organization", "profile", "member", "mfa", "sharing", "kb", "template", "taxonomy",
   "technique", "case_ttp", "case_page", "case", "api_key", "comment", "audit", "task",
   "observable"} \subseteq TableNames
  BY Constrained DEF TableNames

-----------------------------------------------------------------------------
(* Users and their second factors.                                         *)
LEMMA OnUserKeeps ==
  ASSUME IInv, NEW r \in Requests, pc[r] = "write", UNCHANGED indexerVars, call[r].id \in Ids,
         NEW columns, Typed(columns), OnUser(r, columns)
  PROVE  Keeps(r)
<1>1. CASE Refuse(r, "404")
  BY <1>1, RefuseKeeps DEF Codes
<1>2. CASE Update(r, call[r].id, columns)
  BY <1>2, UpdateKeeps
<1> QED
  BY <1>1, <1>2 DEF OnUser

LEMMA InviteUserKeeps ==
  ASSUME IInv, NEW r \in Requests, UNCHANGED indexerVars, InviteUser(r)
  PROVE  Keeps(r)
<1> DEFINE c == call[r]
           S == {<<r, 1>>, <<r, 2>>}
           user == Sole(r, "user", Null, Null, c.email, "pending_invite", Null)
           member == Sole(r, "member", c.org, <<r, 1>>, c.profile, "", Null)
           new == [x \in S |-> IF x = <<r, 1>> THEN user ELSE member]
<1>1. pc[r] = "write" /\ call[r] \in Calls /\ call[r].op = "invite"
  BY WriterCalls DEF IInv, InviteUser
<1>2. c.org \in Ids /\ c.email \in Names /\ c.profile \in Ids
  BY <1>1, AccountCallShape, OrgIds
<1>3. CASE Refuse(r, "409") \/ Refuse(r, "400")
  BY <1>1, <1>3, RefuseKeeps DEF Codes
<1>4. CASE Insert(r, new, "500")
  <2>1. user \in Row /\ user.table \notin Written
    <3>1. user \in Row
      BY <1>2, SoleType, TableMembers, StatesAssumption DEF IInv
    <3>2. user.table \notin Written
      BY DEF Sole, Written
    <3> QED
      BY <3>1, <3>2
  <2>2. member \in Row /\ member.table \notin Written
    <3>1. member \in Row
      BY <1>2, SoleType, TableMembers, StatesAssumption, NewIds DEF IInv
    <3>2. member.table \notin Written
      BY DEF Sole, Written
    <3> QED
      BY <3>1, <3>2
  <2>3. new \in [S -> Row] /\ S \in SUBSET Ids
    BY <2>1, <2>2, NewIds
  <2>4. \A x \in S : Settles(r, new, x)
    <3>1. <<r, 1>> \in {r} \X (1..MaxRows) /\ <<r, 2>> \in {r} \X (1..MaxRows)
      BY NewIds
    <3>2. \A x \in S : new[x].table \notin Written
      BY <2>1, <2>2
    <3> QED
      BY <3>1, <3>2 DEF Settles
  <2> HIDE DEF new, S
  <2> QED
    BY <1>1, <1>4, <2>3, <2>4, InsertKeeps DEF Codes
<1> QED
  BY <1>3, <1>4 DEF InviteUser

LEMMA PatchUserKeeps ==
  ASSUME IInv, NEW r \in Requests, UNCHANGED indexerVars, PatchUser(r)
  PROVE  Keeps(r)
<1> DEFINE c == call[r]
           mine == Membership(seen[r], c.id, c.org)
<1>1. pc[r] = "write" /\ call[r] \in Calls /\ call[r].op = "patchUser"
  BY WriterCalls DEF IInv, PatchUser
<1>2. c.profile \in Ids \cup {Null} /\ mine \subseteq Ids
  BY <1>1, AccountCallShape DEF Membership
<1>3. CASE Refuse(r, "404") \/ Refuse(r, "400") \/ Refuse(r, "500")
  BY <1>1, <1>3, RefuseKeeps DEF Codes
<1>4. CASE Commit(r, db)
  BY <1>1, <1>4, SameLawful, CommitKeeps
<1>5. CASE c.profile # Null /\ \E m \in mine : Update(r, m, [name |-> c.profile])
  BY <1>1, <1>2, <1>5, UpdateKeeps, TypedColumns
<1> QED
  BY <1>3, <1>4, <1>5 DEF PatchUser

LEMMA UserStatesKeep ==
  ASSUME IInv, NEW r \in Requests, UNCHANGED indexerVars,
         DeleteUser(r) \/ LockUser(r) \/ UnlockUser(r) \/ AcceptInvite(r)
  PROVE  Keeps(r)
<1>1. CASE DeleteUser(r)
  <2>1. pc[r] = "write" /\ call[r] \in Calls /\ call[r].op = "deleteUser"
    BY <1>1, WriterCalls DEF IInv, DeleteUser
  <2> QED
    BY <1>1, <2>1, AccountCallShape, RefuseKeeps, OnUserKeeps, TypedColumns DEF DeleteUser, Codes
<1>2. CASE LockUser(r)
  <2>1. pc[r] = "write" /\ call[r] \in Calls /\ call[r].op = "lock"
    BY <1>2, WriterCalls DEF IInv, LockUser
  <2> QED
    BY <1>2, <2>1, AccountCallShape, OnUserKeeps, TypedColumns, StatesAssumption DEF LockUser
<1>3. CASE UnlockUser(r)
  <2>1. pc[r] = "write" /\ call[r] \in Calls /\ call[r].op = "unlock"
    BY <1>3, WriterCalls DEF IInv, UnlockUser
  <2> QED
    BY <1>3, <2>1, AccountCallShape, OnUserKeeps, TypedColumns, StatesAssumption DEF UnlockUser
<1>4. CASE AcceptInvite(r)
  <2>1. pc[r] = "write" /\ call[r] \in Calls /\ call[r].op = "accept"
    BY <1>4, WriterCalls DEF IInv, AcceptInvite
  <2> QED
    BY <1>4, <2>1, AccountCallShape, RefuseKeeps, UpdateKeeps, TypedColumns, StatesAssumption
       DEF AcceptInvite, Codes
<1> QED
  BY <1>1, <1>2, <1>3, <1>4

LEMMA MfaKeeps ==
  ASSUME IInv, NEW r \in Requests, UNCHANGED indexerVars,
         MfaEnroll(r) \/ MfaConfirm(r) \/ MfaDisable(r) \/ MfaRegenerate(r) \/ AdminResetMfa(r)
  PROVE  Keeps(r)
<1>1. "mfa" \notin Lasting
  BY DEF Lasting
<1>2. \A u : \A m \in SecretOf(r, u) : m \in Ids /\ Sees(r, m, "mfa")
  BY DEF SecretOf
<1>3. \A u : \A m \in Confirmed(r, u) : m \in Ids /\ Sees(r, m, "mfa")
  BY <1>2 DEF Confirmed
<1>4. began[r] \in Nat
  BY DEF IInv, TypeOK
<1>5. CASE MfaEnroll(r)
  <2> DEFINE u == call[r].user
             row == Sole(r, "mfa", Null, u, r, "enrolling", u)
             columns == [name |-> r, state |-> "enrolling"]
  <2>1. pc[r] = "write" /\ call[r] \in Calls /\ call[r].op = "enroll"
    BY <1>5, WriterCalls DEF IInv, MfaEnroll
  <2>2. u \in Ids
    BY <2>1, AccountCallShape, OrgIds
  <2>3. row \in Row /\ row.table \notin Written
    <3>1. row \in Row
      BY <2>2, SoleType, TableMembers, StatesAssumption DEF IInv
    <3>2. row.table \notin Written
      BY DEF Sole, Written
    <3> QED
      BY <3>1, <3>2
  <2>4. Typed(columns)
    BY StatesAssumption DEF Typed
  <2>5. CASE Refuse(r, "409")
    BY <2>1, <2>5, RefuseKeeps DEF Codes
  <2>6. CASE InsertOne(r, row, "500")
    BY <2>1, <2>3, <2>6, InsertOneKeeps DEF Codes
  <2>7. CASE \E m \in SecretOf(r, u) : Update(r, m, columns)
    BY <1>2, <2>1, <2>4, <2>7, UpdateKeeps
  <2> QED
    BY <1>5, <2>5, <2>6, <2>7 DEF MfaEnroll
<1>6. CASE MfaConfirm(r)
  <2> DEFINE columns == [state |-> "confirmed", at |-> began[r]]
  <2>1. pc[r] = "write"
    BY <1>6, WriterCalls DEF IInv, MfaConfirm
  <2>2. Typed(columns)
    BY <1>4, StatesAssumption DEF Typed
  <2>3. CASE Refuse(r, "409") \/ Refuse(r, "400")
    BY <2>1, <2>3, RefuseKeeps DEF Codes
  <2>4. CASE \E m \in SecretOf(r, call[r].user) : Update(r, m, columns)
    BY <1>2, <2>1, <2>2, <2>4, UpdateKeeps
  <2> QED
    BY <1>6, <2>3, <2>4 DEF MfaConfirm
<1>7. ASSUME pc[r] = "write", Refused(r) # "none", Refuse(r, Refused(r))
      PROVE  Keeps(r)
  BY <1>7, RefuseKeeps DEF Refused, Codes
<1>8. CASE MfaDisable(r)
  <2>1. pc[r] = "write"
    BY <1>8, WriterCalls DEF IInv, MfaDisable
  <2> QED
    BY <1>1, <1>3, <1>7, <1>8, <2>1, DeleteKeeps DEF MfaDisable
<1>9. CASE MfaRegenerate(r)
  <2>1. pc[r] = "write"
    BY <1>9, WriterCalls DEF IInv, MfaRegenerate
  <2> QED
    BY <1>3, <1>4, <1>7, <1>9, <2>1, UpdateKeeps, TypedColumns DEF MfaRegenerate
<1>10. CASE AdminResetMfa(r)
  <2>1. pc[r] = "write"
    BY <1>10, WriterCalls DEF IInv, AdminResetMfa
  <2> QED
    BY <1>1, <1>2, <1>10, <2>1, SameLawful, CommitKeeps, DeleteKeeps DEF AdminResetMfa
<1> QED
  BY <1>5, <1>6, <1>8, <1>9, <1>10

(* Profiles, organizations and keys.                                       *)
LEMMA ProfileKeeps ==
  ASSUME IInv, NEW r \in Requests, UNCHANGED indexerVars,
         CreateProfile(r) \/ PatchProfile(r) \/ DeleteProfile(r)
  PROVE  Keeps(r)
<1>1. CASE CreateProfile(r)
  <2> DEFINE row == Sole(r, "profile", call[r].org, Null, call[r].name, "", Null)
  <2>1. pc[r] = "write" /\ call[r] \in Calls /\ call[r].op = "createProfile"
    BY <1>1, WriterCalls DEF IInv, CreateProfile
  <2>2. call[r].org \in Ids /\ call[r].name \in Names
    BY <2>1, OrgCallShape, OrgIds
  <2>3. row \in Row /\ row.table \notin Written
    <3>1. row \in Row
      BY <2>2, SoleType, TableMembers, StatesAssumption DEF IInv
    <3>2. row.table \notin Written
      BY DEF Sole, Written
    <3> QED
      BY <3>1, <3>2
  <2> QED
    BY <1>1, <2>1, <2>3, InsertOneKeeps DEF CreateProfile, Codes
<1>2. CASE PatchProfile(r)
  <2>1. pc[r] = "write" /\ call[r] \in Calls /\ call[r].op = "patchProfile"
    BY <1>2, WriterCalls DEF IInv, PatchProfile
  <2>2. call[r].id \in Ids /\ call[r].name \in Names
    BY <2>1, OrgCallShape
  <2>3. CASE Refuse(r, "404") \/ Refuse(r, "400")
    BY <2>1, <2>3, RefuseKeeps DEF Codes
  <2>4. CASE Update(r, call[r].id, [name |-> call[r].name])
    BY <2>1, <2>2, <2>4, UpdateKeeps, TypedColumns
  <2> QED
    BY <1>2, <2>3, <2>4 DEF PatchProfile
<1>3. CASE DeleteProfile(r)
  <2>1. pc[r] = "write" /\ call[r] \in Calls /\ call[r].op = "deleteProfile"
    BY <1>3, WriterCalls DEF IInv, DeleteProfile
  <2>2. call[r].id \in Ids
    BY <2>1, OrgCallShape
  <2>3. CASE Refuse(r, "404") \/ Refuse(r, "400") \/ Refuse(r, "500") \/ Refuse(r, "409")
    BY <2>1, <2>3, RefuseKeeps DEF Codes
  <2>4. CASE SeesOwn(r, call[r].id, "profile") /\ Delete(r, call[r].id)
    BY <2>1, <2>2, <2>4, DeleteKeeps DEF SeesOwn, Lasting
  <2> QED
    BY <1>3, <2>3, <2>4 DEF DeleteProfile
<1> QED
  BY <1>1, <1>2, <1>3

LEMMA OrgKeeps ==
  ASSUME IInv, NEW r \in Requests, UNCHANGED indexerVars,
         PatchOrg(r) \/ CreateSharing(r) \/ DeleteSharing(r)
  PROVE  Keeps(r)
<1>1. CASE PatchOrg(r)
  <2>1. pc[r] = "write" /\ call[r] \in Calls /\ call[r].op = "patchOrg"
    BY <1>1, WriterCalls DEF IInv, PatchOrg
  <2>2. call[r].id \in Ids /\ call[r].name \in Names
    BY <2>1, OrgCallShape
  <2> QED
    BY <1>1, <2>1, <2>2, RefuseKeeps, UpdateKeeps, TypedColumns DEF PatchOrg, Codes
<1>2. CASE CreateSharing(r)
  <2> DEFINE row == Sole(r, "sharing", call[r].org, Null, call[r].target, "", call[r].user)
  <2>1. pc[r] = "write" /\ call[r] \in Calls /\ call[r].op = "createSharing"
    BY <1>2, WriterCalls DEF IInv, CreateSharing
  <2>2. call[r].org \in Ids /\ call[r].user \in Ids /\ call[r].target \in Ids
    BY <2>1, OrgCallShape, OrgIds
  <2>3. row \in Row /\ row.table \notin Written
    <3>1. row \in Row
      BY <2>2, SoleType, TableMembers, StatesAssumption DEF IInv
    <3>2. row.table \notin Written
      BY DEF Sole, Written
    <3> QED
      BY <3>1, <3>2
  <2>4. CASE Refuse(r, "404") \/ Refuse(r, "400")
    BY <2>1, <2>4, RefuseKeeps DEF Codes
  <2>5. CASE InsertOne(r, row, "500")
    BY <2>1, <2>3, <2>5, InsertOneKeeps DEF Codes
  <2> QED
    BY <1>2, <2>4, <2>5 DEF CreateSharing
<1>3. CASE DeleteSharing(r)
  <2>1. pc[r] = "write" /\ call[r] \in Calls /\ call[r].op = "deleteSharing"
    BY <1>3, WriterCalls DEF IInv, DeleteSharing
  <2>2. call[r].id \in Ids
    BY <2>1, OrgCallShape
  <2> QED
    BY <1>3, <2>1, <2>2, RefuseKeeps, DeleteKeeps DEF DeleteSharing, SeesOwn, Lasting, Codes
<1> QED
  BY <1>1, <1>2, <1>3

LEMMA KeyKeeps ==
  ASSUME IInv, NEW r \in Requests, UNCHANGED indexerVars,
         CreateMyKey(r) \/ RevokeMyKey(r) \/ AdminRevokeKey(r)
  PROVE  Keeps(r)
<1>1. CASE CreateMyKey(r)
  <2> DEFINE row == Sole(r, "api_key", Null, Null, r, "active", call[r].user)
  <2>1. pc[r] = "write" /\ call[r] \in Calls /\ call[r].op = "createKey"
    BY <1>1, WriterCalls DEF IInv, CreateMyKey
  <2>2. call[r].user \in Ids
    BY <2>1, OrgCallShape, OrgIds
  <2>3. row \in Row /\ row.table \notin Written
    <3>1. row \in Row
      BY <2>2, SoleType, TableMembers, StatesAssumption DEF IInv
    <3>2. row.table \notin Written
      BY DEF Sole, Written
    <3> QED
      BY <3>1, <3>2
  <2> QED
    BY <1>1, <2>1, <2>3, InsertOneKeeps, RefuseKeeps DEF CreateMyKey, Codes
<1>2. ASSUME pc[r] = "write", call[r].id \in Ids, Revoke(r)
      PROVE  Keeps(r)
  BY <1>2, RefuseKeeps, UpdateKeeps, TypedColumns, StatesAssumption DEF Revoke, Codes
<1>3. CASE RevokeMyKey(r) \/ AdminRevokeKey(r)
  <2>1. pc[r] = "write" /\ call[r] \in Calls /\ call[r].op \in {"revokeKey", "adminRevokeKey"}
    BY <1>3, WriterCalls DEF IInv, RevokeMyKey, AdminRevokeKey
  <2> QED
    BY <1>2, <1>3, <2>1, OrgCallShape DEF RevokeMyKey, AdminRevokeKey
<1> QED
  BY <1>1, <1>3

LEMMA EraseUserKeeps ==
  ASSUME IInv, NEW r \in Requests, UNCHANGED indexerVars, EraseUser(r)
  PROVE  Keeps(r)
<1> DEFINE u == call[r].id
           S == Authored(db, u)
           user == [name |-> u, state |-> "locked"]
           record == Sole(r, "audit", Null, u, Null, "gdpr_erased", call[r].user)
           T == {u, <<r, 1>>} \cup S
           new == [x \in T |->
                     CASE x = u -> Updated(r, u, user)
                       [] x \in S -> [db[x] EXCEPT !.state = "erased", !.at = began[r]]
                       [] OTHER -> record]
<1>1. pc[r] = "write" /\ call[r] \in Calls /\ call[r].op = "erase"
  BY WriterCalls DEF IInv, EraseUser
<1>2. u \in Ids /\ call[r].user \in Ids
  BY <1>1, OrgCallShape, OrgIds
<1>3. CASE Refuse(r, "404")
  BY <1>1, <1>3, RefuseKeeps DEF Codes
<1>4. CASE Sees(r, u, "user") /\ Insert(r, new, "500")
  <2>1. db[u] # Null
    BY <1>1, <1>2, <1>4, SeenStays DEF Lasting
  <2>2. Typed(user)
    BY <1>2, StatesAssumption DEF Typed
  <2>3. Updated(r, u, user) \in Row /\ Follows(db[u], Updated(r, u, user))
    BY <1>2, <2>1, <2>2, UpdatedType DEF IInv
  <2>4. \A x \in S : x \in Ids /\ db[x] # Null
    BY DEF Authored
  <2>5. ASSUME NEW x \in S
        PROVE  /\ [db[x] EXCEPT !.state = "erased", !.at = began[r]] \in Row
               /\ Follows(db[x], [db[x] EXCEPT !.state = "erased", !.at = began[r]])
    <3>1. db[x] \in Row /\ began[r] \in Nat /\ "erased" \in States
      BY <2>4, <2>5, StatesAssumption DEF IInv, TypeOK
    <3> QED
      BY <3>1 DEF Row, Follows, SamePlace
  <2>6. record \in Row /\ record.table \notin Written
    <3>1. record \in Row
      BY <1>2, SoleType, TableMembers, StatesAssumption DEF IInv
    <3>2. record.table \notin Written
      BY DEF Sole, Written
    <3> QED
      BY <3>1, <3>2
  <2> HIDE DEF S, user, record
  <2>7. \A x \in T : new[x] \in Row
    BY <2>3, <2>5, <2>6
  <2>8. \A x \in T : x # <<r, 1>> => db[x] # Null /\ Follows(db[x], new[x])
    BY <2>1, <2>3, <2>4, <2>5
  <2>12. db[<<r, 1>>] = Null
    BY <1>1, NewIds DEF IInv, PlacesStay
  <2>13. new[<<r, 1>>] = record
    BY <2>1, <2>4, <2>12
  <2>9. new \in [T -> Row] /\ T \in SUBSET Ids
    BY <1>2, <2>4, <2>7, NewIds
  <2>10. <<r, 1>> \in {r} \X (1..MaxRows)
    BY NewIds
  <2>11. \A x \in T : Settles(r, new, x)
    BY <2>6, <2>8, <2>10, <2>13 DEF Settles
  <2> HIDE DEF new, T
  <2> QED
    BY <1>1, <1>4, <2>9, <2>11, InsertKeeps DEF Codes
<1> QED
  BY <1>3, <1>4 DEF EraseUser

LEMMA AccountKeeps ==
  ASSUME IInv, NEW r \in Requests, UNCHANGED indexerVars, AccountStep(r)
  PROVE  Keeps(r)
  BY InviteUserKeeps, PatchUserKeeps, UserStatesKeep, MfaKeeps, ProfileKeeps, OrgKeeps, KeyKeeps,
     EraseUserKeeps DEF AccountStep

-----------------------------------------------------------------------------
(* The ways of most handlers of the library.                               *)
LEMMA CreateKeeps ==
  ASSUME IInv, NEW r \in Requests, pc[r] = "write", UNCHANGED indexerVars,
         call[r].org \in Ids, call[r].user \in Ids, call[r].name \in Names,
         NEW table \in TableNames, table \notin Written, Create(r, table)
  PROVE  Keeps(r)
<1>1. Sole(r, table, call[r].org, Null, call[r].name, r, call[r].user) \in Row
  BY SoleType DEF IInv
<1>2. Sole(r, table, call[r].org, Null, call[r].name, r, call[r].user).table \notin Written
  BY DEF Sole
<1> QED
  BY <1>1, <1>2, InsertOneKeeps DEF Create, Codes

LEMMA CloneKeeps ==
  ASSUME IInv, NEW r \in Requests, pc[r] = "write", UNCHANGED indexerVars,
         call[r].org \in Ids, call[r].user \in Ids, call[r].id \in Ids, call[r].name \in Names,
         NEW table \in TableNames, table \notin Written, Clone(r, table)
  PROVE  Keeps(r)
<1> DEFINE text == seen[r][call[r].id].state
           row == Sole(r, table, call[r].org, Null, call[r].name, text, call[r].user)
<1>1. CASE ~SeesOwn(r, call[r].id, table)
  BY <1>1, RefuseKeeps DEF Clone, Codes
<1>2. CASE SeesOwn(r, call[r].id, table)
  <2>1. text \in States \cup Requests
    BY <1>2, SeenRow DEF SeesOwn, Sees, Row
  <2>2. row \in Row
    BY <2>1, SoleType DEF IInv
  <2>4. row.table \notin Written
    BY DEF Sole
  <2> HIDE DEF row
  <2>3. InsertOne(r, row, "409")
    BY <1>2 DEF Clone, row
  <2> QED
    BY <2>2, <2>3, <2>4, InsertOneKeeps DEF Codes
<1> QED
  BY <1>1, <1>2

LEMMA RewriteKeeps ==
  ASSUME IInv, NEW r \in Requests, pc[r] = "write", UNCHANGED indexerVars, call[r].id \in Ids,
         NEW table, Rewrite(r, table)
  PROVE  Keeps(r)
  BY RefuseKeeps, UpdateKeeps, TypedColumns DEF Rewrite, Codes

LEMMA RemoveKeeps ==
  ASSUME IInv, NEW r \in Requests, pc[r] = "write", UNCHANGED indexerVars, call[r].id \in Ids,
         NEW table, table \notin Lasting, Remove(r, table)
  PROVE  Keeps(r)
  BY RefuseKeeps, DeleteKeeps DEF Remove, SeesOwn, Codes

LEMMA JoinKeeps ==
  ASSUME IInv, NEW r \in Requests, pc[r] = "write", UNCHANGED indexerVars,
         call[r].org \in Ids, call[r].user \in Ids, call[r].under \in Ids, call[r].name \in Names,
         NEW table \in TableNames, table \notin Written, Join(r, table)
  PROVE  Keeps(r)
<1>1. Sole(r, table, call[r].org, call[r].under, call[r].name, r, call[r].user) \in Row
  BY SoleType DEF IInv
<1>2. Sole(r, table, call[r].org, call[r].under, call[r].name, r, call[r].user).table \notin Written
  BY DEF Sole
<1> QED
  BY <1>1, <1>2, InsertOneKeeps DEF Join, Codes

(* Runbooks and templates.                                                 *)
LEMMA KbKeeps ==
  ASSUME IInv, NEW r \in Requests, UNCHANGED indexerVars,
         \/ CreateKbPage(r) \/ PatchKbPage(r) \/ CloneKbPage(r) \/ DeleteKbPage(r)
         \/ CreateTemplate(r) \/ PatchTemplate(r) \/ CloneCaseTemplate(r) \/ DeleteTemplate(r)
  PROVE  Keeps(r)
<1>1. CASE CreateKbPage(r) \/ CreateTemplate(r)
  <2>1. pc[r] = "write" /\ call[r] \in Calls /\ call[r].op \in {"createKb", "createTemplate"}
    BY <1>1, WriterCalls DEF IInv, CreateKbPage, CreateTemplate
  <2>2. call[r].org \in Ids /\ call[r].user \in Ids /\ call[r].name \in Names
    BY <2>1, LibraryCallShape, OrgIds
  <2> QED
    BY <1>1, <2>1, <2>2, CreateKeeps, TableMembers DEF CreateKbPage, CreateTemplate, Written
<1>2. CASE CloneKbPage(r) \/ CloneCaseTemplate(r)
  <2>1. pc[r] = "write" /\ call[r] \in Calls /\ call[r].op \in {"cloneKb", "cloneTemplate"}
    BY <1>2, WriterCalls DEF IInv, CloneKbPage, CloneCaseTemplate
  <2>2. call[r].org \in Ids /\ call[r].user \in Ids /\ call[r].id \in Ids /\ call[r].name \in Names
    BY <2>1, LibraryCallShape, OrgIds
  <2> QED
    BY <1>2, <2>1, <2>2, CloneKeeps, TableMembers DEF CloneKbPage, CloneCaseTemplate, Written
<1>3. CASE PatchKbPage(r) \/ PatchTemplate(r) \/ DeleteKbPage(r) \/ DeleteTemplate(r)
  <2>1. /\ pc[r] = "write" /\ call[r] \in Calls
        /\ call[r].op \in {"patchKb", "patchTemplate", "deleteKb", "deleteTemplate"}
    BY <1>3, WriterCalls DEF IInv, PatchKbPage, PatchTemplate, DeleteKbPage, DeleteTemplate
  <2>2. call[r].id \in Ids
    BY <2>1, LibraryCallShape
  <2> QED
    BY <1>3, <2>1, <2>2, RewriteKeeps, RemoveKeeps
       DEF PatchKbPage, PatchTemplate, DeleteKbPage, DeleteTemplate, Lasting
<1> QED
  BY <1>1, <1>2, <1>3

LEMMA ApplyTemplateKeeps ==
  ASSUME IInv, NEW r \in Requests, UNCHANGED indexerVars, ApplyTemplate(r)
  PROVE  Keeps(r)
<1> DEFINE o == call[r].org
           S == {<<r, k>> : k \in 1..(1 + TemplateTasks)}
           case(n) == Sole(r, "case", o, Null, <<"number", n>>, "open", call[r].user)
           task == Sole(r, "task", o, <<r, 1>>, r, "Waiting", Null)
           new(n) == [x \in S |-> IF x = <<r, 1>> THEN case(n) ELSE task]
<1>1. pc[r] = "write" /\ call[r] \in Calls /\ call[r].op = "applyTemplate"
  BY WriterCalls DEF IInv, ApplyTemplate
<1>2. o \in Ids /\ call[r].user \in Ids
  BY <1>1, LibraryCallShape, OrgIds
<1>3. CASE Refuse(r, "404")
  BY <1>1, <1>3, RefuseKeeps DEF Codes
<1>4. ASSUME NEW n \in 1..MaxNumber, Insert(r, new(n), "500")
      PROVE  Keeps(r)
  <2>1. <<"number", n>> \in Numbers
    BY DEF Numbers
  <2>2. case(n) \in Row
    BY <1>2, <2>1, SoleType, TableMembers, StatesAssumption DEF IInv
  <2>3. task \in Row
    BY <1>2, SoleType, TableMembers, StatesAssumption, NewIds DEF IInv
  <2>4. \A x \in S : x \in {r} \X (1..MaxRows)
    BY TemplateAssumption, IdsAssumption
  <2>5. S \in SUBSET Ids
    BY <2>4 DEF Ids
  <2>6. new(n) \in [S -> Row]
    BY <2>2, <2>3
  <2>7. Housed(With(new(n)), task)
    <3>1. <<r, 1>> \in S /\ <<r, 1>> \in Ids
      <4>1. 1 \in 1..(1 + TemplateTasks)
        BY TemplateAssumption, IdsAssumption
      <4> QED
        BY <4>1, NewIds
    <3>2. With(new(n))[<<r, 1>>] = case(n)
      BY <3>1 DEF With
    <3>3. task.under = <<r, 1>> /\ task.org = o /\ case(n).org = o
      BY DEF Sole
    <3> HIDE DEF task, case, new
    <3> QED
      BY <2>2, <3>1, <3>2, <3>3, NullOut DEF Housed
  <2>8. case(n).table \notin Written
    BY DEF Sole, Written
  <2>9. \A x \in S : new(n)[x] = case(n) \/ new(n)[x] = task
    OBVIOUS
  <2>10. \A x \in S : Settles(r, new(n), x)
    BY <2>4, <2>7, <2>8, <2>9 DEF Settles
  <2> HIDE DEF new, S
  <2> QED
    BY <1>1, <1>4, <2>5, <2>6, <2>10, InsertKeeps DEF Codes
<1> QED
  BY <1>3, <1>4 DEF ApplyTemplate

(* Taxonomies, techniques and pages.                                       *)
LEMMA TaxonomyKeeps ==
  ASSUME IInv, NEW r \in Requests, UNCHANGED indexerVars,
         CreateTaxonomyEntry(r) \/ DeleteTaxonomyEntry(r)
  PROVE  Keeps(r)
<1>1. CASE CreateTaxonomyEntry(r)
  <2> DEFINE row == Sole(r, "taxonomy", call[r].org, Null, call[r].name, "", Null)
  <2>1. pc[r] = "write" /\ call[r] \in Calls /\ call[r].op = "createTaxonomy"
    BY <1>1, WriterCalls DEF IInv, CreateTaxonomyEntry
  <2>2. call[r].org \in Ids /\ call[r].name \in Names
    BY <2>1, LibraryCallShape, OrgIds
  <2>3. row \in Row /\ row.table \notin Written
    <3>1. row \in Row
      BY <2>2, SoleType, TableMembers, StatesAssumption DEF IInv
    <3>2. row.table \notin Written
      BY DEF Sole, Written
    <3> QED
      BY <3>1, <3>2
  <2> QED
    BY <1>1, <2>1, <2>3, InsertOneKeeps DEF CreateTaxonomyEntry, Codes
<1>2. CASE DeleteTaxonomyEntry(r)
  <2>1. pc[r] = "write" /\ call[r] \in Calls /\ call[r].op = "deleteTaxonomy"
    BY <1>2, WriterCalls DEF IInv, DeleteTaxonomyEntry
  <2> QED
    BY <1>2, <2>1, LibraryCallShape, RemoveKeeps DEF DeleteTaxonomyEntry, Lasting
<1> QED
  BY <1>1, <1>2

LEMMA TtpKeeps ==
  ASSUME IInv, NEW r \in Requests, UNCHANGED indexerVars,
         UpsertCatalogEntry(r) \/ AddCaseTtp(r) \/ PatchCaseTtp(r) \/ RemoveCaseTtp(r)
  PROVE  Keeps(r)
<1>1. CASE UpsertCatalogEntry(r)
  <2> DEFINE row == Sole(r, "technique", Null, Null, call[r].name, r, Null)
  <2>1. pc[r] = "write" /\ call[r] \in Calls /\ call[r].op = "upsertTechnique"
    BY <1>1, WriterCalls DEF IInv, UpsertCatalogEntry
  <2>2. call[r].name \in Names /\ Technique(r, call[r].name) \subseteq Ids
    BY <2>1, CaseCallShape DEF Technique
  <2>3. row \in Row /\ row.table \notin Written
    <3>1. row \in Row
      BY <2>2, SoleType, TableMembers DEF IInv
    <3>2. row.table \notin Written
      BY DEF Sole, Written
    <3> QED
      BY <3>1, <3>2
  <2>4. CASE InsertOne(r, row, "500")
    BY <2>1, <2>3, <2>4, InsertOneKeeps DEF Codes
  <2>5. CASE \E x \in Technique(r, call[r].name) : Update(r, x, [state |-> r])
    BY <2>1, <2>2, <2>5, UpdateKeeps, TypedColumns
  <2> QED
    BY <1>1, <2>4, <2>5 DEF UpsertCatalogEntry
<1>2. CASE AddCaseTtp(r)
  <2>1. pc[r] = "write" /\ call[r] \in Calls /\ call[r].op = "addTtp"
    BY <1>2, WriterCalls DEF IInv, AddCaseTtp
  <2>2. /\ call[r].org \in Ids /\ call[r].user \in Ids /\ call[r].under \in Ids
        /\ call[r].name \in Names
    BY <2>1, CaseCallShape, OrgIds
  <2> QED
    BY <1>2, <2>1, <2>2, RefuseKeeps, JoinKeeps, TableMembers DEF AddCaseTtp, Codes, Written
<1>3. CASE PatchCaseTtp(r) \/ RemoveCaseTtp(r)
  <2>1. pc[r] = "write" /\ call[r] \in Calls /\ call[r].op \in {"patchTtp", "removeTtp"}
    BY <1>3, WriterCalls DEF IInv, PatchCaseTtp, RemoveCaseTtp
  <2> QED
    BY <1>3, <2>1, CaseCallShape, RewriteKeeps, RemoveKeeps
       DEF PatchCaseTtp, RemoveCaseTtp, Lasting
<1> QED
  BY <1>1, <1>2, <1>3

LEMMA PageKeeps ==
  ASSUME IInv, NEW r \in Requests, UNCHANGED indexerVars,
         CreateCasePage(r) \/ PatchCasePage(r) \/ DeleteCasePage(r)
  PROVE  Keeps(r)
<1>1. CASE CreateCasePage(r)
  <2>1. pc[r] = "write" /\ call[r] \in Calls /\ call[r].op = "createPage"
    BY <1>1, WriterCalls DEF IInv, CreateCasePage
  <2>2. /\ call[r].org \in Ids /\ call[r].user \in Ids /\ call[r].under \in Ids
        /\ call[r].name \in Names
    BY <2>1, CaseCallShape, OrgIds
  <2> QED
    BY <1>1, <2>1, <2>2, RefuseKeeps, JoinKeeps, TableMembers DEF CreateCasePage, Codes, Written
<1>2. CASE PatchCasePage(r) \/ DeleteCasePage(r)
  <2>1. pc[r] = "write" /\ call[r] \in Calls /\ call[r].op \in {"patchPage", "deletePage"}
    BY <1>2, WriterCalls DEF IInv, PatchCasePage, DeleteCasePage
  <2> QED
    BY <1>2, <2>1, CaseCallShape, RewriteKeeps, RemoveKeeps
       DEF PatchCasePage, DeleteCasePage, Lasting
<1> QED
  BY <1>1, <1>2

(* Comments and mentions.                                                  *)
LEMMA CreateCommentKeeps ==
  ASSUME IInv, NEW r \in Requests, UNCHANGED indexerVars, CreateComment(r)
  PROVE  Keeps(r)
<1> DEFINE o == call[r].org
           S(n) == {<<r, k>> : k \in 1..n}
           comment == Sole(r, "comment", o, call[r].under, r, "said", call[r].user)
           mention(u) == Sole(r, "audit", o, u, Null, "mentioned", call[r].user)
           new(n, who) == [x \in S(n) |-> IF x = <<r, 1>> THEN comment ELSE mention(who[x[2]])]
<1>1. pc[r] = "write" /\ call[r] \in Calls /\ call[r].op = "comment"
  BY WriterCalls DEF IInv, CreateComment
<1>2. /\ o \in Ids /\ call[r].user \in Ids /\ call[r].under \in Ids
      /\ Mentioned(r) \subseteq Ids
  BY <1>1, CaseCallShape, OrgIds DEF Mentioned
<1>3. CASE Refuse(r, "404")
  BY <1>1, <1>3, RefuseKeeps DEF Codes
<1>4. ASSUME NEW n \in 1..MaxRows, NEW who \in [2..n -> Mentioned(r)], SeesCase(r),
             Insert(r, new(n, who), "500")
      PROVE  Keeps(r)
  <2>1. comment \in Row
    BY <1>2, SoleType, TableMembers, StatesAssumption DEF IInv
  <2>2. \A u \in Ids : mention(u) \in Row
    BY <1>2, SoleType, TableMembers, StatesAssumption DEF IInv
  <2>3. ASSUME NEW x \in S(n)
        PROVE  x \in {r} \X (1..MaxRows) /\ new(n, who)[x] \in Row
    <3>1. PICK k \in 1..n : x = <<r, k>>
      BY <2>3
    <3>2. k \in 1..MaxRows
      BY <3>1, IdsAssumption
    <3>3. CASE k = 1
      BY <2>1, <3>1, <3>2, <3>3
    <3>4. CASE k # 1
      <4>1. x # <<r, 1>> /\ x[2] = k /\ k \in 2..n
        BY <3>1, <3>4
      <4>2. who[k] \in Ids
        BY <1>2, <4>1
      <4>3. new(n, who)[x] = mention(who[k])
        BY <2>3, <4>1
      <4> QED
        BY <2>2, <3>1, <3>2, <4>2, <4>3
    <3> QED
      BY <3>3, <3>4
  <2>4. S(n) \in SUBSET Ids
    BY <2>3 DEF Ids
  <2>5. new(n, who) \in [S(n) -> Row]
    BY <2>3
  <2>6. Housed(With(new(n, who)), comment)
    <3>1. db[call[r].under] # Null /\ db[call[r].under].org = o
      BY <1>1, <1>2, <1>4, SeenStays DEF SeesCase, SeesOwn, Lasting, Follows, SamePlace
    <3>2. ASSUME NEW x \in S(n) PROVE db[x] = Null
      <4>1. \A k \in 1..MaxRows : db[<<r, k>>] = Null
        BY <1>1 DEF IInv, PlacesStay
      <4>2. x \in {r} \X (1..MaxRows)
        BY <2>3
      <4> HIDE DEF S
      <4> QED
        BY <4>1, <4>2
    <3>3. call[r].under \notin S(n)
      BY <3>1, <3>2
    <3>4. With(new(n, who))[call[r].under] = db[call[r].under]
      BY <1>2, <3>3 DEF With
    <3>5. comment.under = call[r].under /\ comment.org = o
      BY DEF Sole
    <3> HIDE DEF comment, new
    <3> QED
      BY <1>2, <3>1, <3>4, <3>5 DEF Housed
  <2>7. \A u : mention(u).table \notin Written
    BY DEF Sole, Written
  <2>8. \A x \in S(n) : new(n, who)[x] = comment \/ \E u : new(n, who)[x] = mention(u)
    OBVIOUS
  <2> HIDE DEF comment, mention, new
  <2>9. \A x \in S(n) : Settles(r, new(n, who), x)
    BY <2>3, <2>6, <2>7, <2>8 DEF Settles
  <2> HIDE DEF S
  <2> QED
    BY <1>1, <1>4, <2>4, <2>5, <2>9, InsertKeeps DEF Codes
<1> QED
  BY <1>3, <1>4 DEF CreateComment

LEMMA CommentKeeps ==
  ASSUME IInv, NEW r \in Requests, UNCHANGED indexerVars, PatchComment(r) \/ MarkMentionsSeen(r)
  PROVE  Keeps(r)
<1>1. CASE PatchComment(r)
  <2>1. pc[r] = "write" /\ call[r] \in Calls /\ call[r].op = "editComment"
    BY <1>1, WriterCalls DEF IInv, PatchComment
  <2>2. call[r].id \in Ids
    BY <2>1, CaseCallShape
  <2>3. CASE Refuse(r, "404") \/ Refuse(r, "403")
    BY <2>1, <2>3, RefuseKeeps DEF Codes
  <2>4. CASE Update(r, call[r].id, [state |-> r])
    BY <2>1, <2>2, <2>4, UpdateKeeps, TypedColumns
  <2> QED
    BY <1>1, <2>3, <2>4 DEF PatchComment
<1>2. CASE MarkMentionsSeen(r)
  <2>1. pc[r] = "write" /\ call[r] \in Calls /\ call[r].op = "seen"
    BY <1>2, WriterCalls DEF IInv, MarkMentionsSeen
  <2>2. call[r].user \in Ids
    BY <2>1, CaseCallShape, OrgIds
  <2>3. began[r] \in Nat /\ clock \in Nat
    BY DEF IInv, TypeOK
  <2>4. PICK now \in began[r]..clock : Update(r, call[r].user, [at |-> now])
    BY <1>2 DEF MarkMentionsSeen
  <2>5. now \in Nat
    BY <2>3
  <2> QED
    BY <2>1, <2>2, <2>4, <2>5, UpdateKeeps, TypedColumns
<1> QED
  BY <1>1, <1>2

(* Cases, each with its record in the audit log, and observables.          *)
LEMMA ChangeCasesKeeps ==
  ASSUME IInv, NEW r \in Requests, pc[r] = "write", UNCHANGED indexerVars,
         call[r].org \in Ids, call[r].user \in Ids, NEW columns, Typed(columns),
         NEW S \in SUBSET Ids, \A x \in S : Sees(r, x, "case"), ChangeCases(r, S, columns)
  PROVE  Keeps(r)
<1> DEFINE record(c) == Sole(r, "audit", call[r].org, c, Null, "", call[r].user)
           own(n) == {<<r, k>> : k \in 1..n}
           T(n) == S \cup own(n)
           new(n, about) ==
             [x \in T(n) |-> IF x \in S THEN Updated(r, x, columns) ELSE record(about[x[2]])]
<1>0. PICK n \in 0..MaxRows : \E about \in [1..n -> S] : Insert(r, new(n, about), "500")
  BY DEF ChangeCases
<1>1. PICK about \in [1..n -> S] : Insert(r, new(n, about), "500")
  BY <1>0
<1>2. \A x \in S : db[x] # Null
  BY SeenStays DEF Lasting
<1>3. \A x \in S : Updated(r, x, columns) \in Row /\ Follows(db[x], Updated(r, x, columns))
  BY <1>2, UpdatedType DEF IInv
<1>4. \A c \in Ids : record(c) \in Row
  BY SoleType, TableMembers, StatesAssumption DEF IInv
<1>a. \A c : record(c).table \notin Written
  BY DEF Sole, Written
<1>5. ASSUME NEW x \in own(n)
      PROVE  x \in {r} \X (1..MaxRows) /\ record(about[x[2]]) \in Row
  <2>1. PICK k \in 1..n : x = <<r, k>>
    BY <1>5
  <2>2. k \in 1..MaxRows /\ x[2] = k
    BY <2>1, IdsAssumption
  <2>3. about[k] \in Ids
    OBVIOUS
  <2> QED
    BY <1>4, <2>1, <2>2, <2>3
<1>6. T(n) \in SUBSET Ids
  BY <1>5 DEF Ids
<1> HIDE DEF record, own
<1>7. new(n, about) \in [T(n) -> Row]
  BY <1>3, <1>5
<1>8. \A x \in T(n) : Settles(r, new(n, about), x)
  BY <1>2, <1>3, <1>5, <1>a DEF Settles
<1> HIDE DEF new, T
<1> QED
  BY <1>1, <1>6, <1>7, <1>8, InsertKeeps DEF Codes

LEMMA CaseKeeps ==
  ASSUME IInv, NEW r \in Requests, UNCHANGED indexerVars,
         PatchCase(r) \/ BulkPatchCases(r) \/ DeleteCase(r)
  PROVE  Keeps(r)
<1>1. ASSUME pc[r] = "write", call[r].id \in Ids, call[r].org \in Ids, call[r].user \in Ids,
             NEW columns, Typed(columns), ChangeCase(r, columns)
      PROVE  Keeps(r)
  <2>1. CASE Refuse(r, "404")
    BY <1>1, <2>1, RefuseKeeps DEF Codes
  <2>2. CASE SeesLive(r, call[r].id, "case") /\ ChangeCases(r, {call[r].id}, columns)
    <3>1. {call[r].id} \in SUBSET Ids /\ \A x \in {call[r].id} : Sees(r, x, "case")
      BY <1>1, <2>2 DEF SeesLive, SeesOwn
    <3> QED
      BY <1>1, <2>2, <3>1, ChangeCasesKeeps
  <2> QED
    BY <1>1, <2>1, <2>2 DEF ChangeCase
<1>2. CASE PatchCase(r)
  <2>1. pc[r] = "write" /\ call[r] \in Calls /\ call[r].op = "patchCase"
    BY <1>2, WriterCalls DEF IInv, PatchCase
  <2>2. /\ call[r].id \in Ids /\ call[r].org \in Ids /\ call[r].user \in Ids
        /\ call[r].state \in States
    BY <2>1, CaseCallShape, OrgIds
  <2> QED
    BY <1>1, <1>2, <2>1, <2>2, TypedColumns DEF PatchCase
<1>3. CASE DeleteCase(r)
  <2>1. pc[r] = "write" /\ call[r] \in Calls /\ call[r].op = "deleteCase"
    BY <1>3, WriterCalls DEF IInv, DeleteCase
  <2>2. call[r].id \in Ids /\ call[r].org \in Ids /\ call[r].user \in Ids
    BY <2>1, CaseCallShape, OrgIds
  <2> QED
    BY <1>1, <1>3, <2>1, <2>2, TypedColumns DEF DeleteCase
<1>4. CASE BulkPatchCases(r)
  <2> DEFINE S == {c \in call[r].ids : SeesLive(r, c, "case")}
  <2>1. pc[r] = "write" /\ call[r] \in Calls /\ call[r].op = "bulkPatchCases"
    BY <1>4, WriterCalls DEF IInv, BulkPatchCases
  <2>2. /\ call[r].ids \subseteq Ids /\ call[r].org \in Ids /\ call[r].user \in Ids
        /\ call[r].state \in States
    BY <2>1, CaseCallShape, OrgIds
  <2>3. S \in SUBSET Ids /\ \A x \in S : Sees(r, x, "case")
    BY <2>2 DEF SeesLive, SeesOwn
  <2>4. ChangeCases(r, S, [state |-> call[r].state])
    BY <1>4 DEF BulkPatchCases
  <2> HIDE DEF S
  <2> QED
    BY <2>1, <2>2, <2>3, <2>4, ChangeCasesKeeps, TypedColumns
<1> QED
  BY <1>2, <1>3, <1>4

LEMMA ObservableKeeps ==
  ASSUME IInv, NEW r \in Requests, UNCHANGED indexerVars,
         PatchObservable(r) \/ DeleteObservable(r) \/ BulkPatchObservables(r)
  PROVE  Keeps(r)
<1>1. CASE PatchObservable(r) \/ DeleteObservable(r)
  <2>1. /\ pc[r] = "write" /\ call[r] \in Calls
        /\ call[r].op \in {"patchObservable", "deleteObservable"}
    BY <1>1, WriterCalls DEF IInv, PatchObservable, DeleteObservable
  <2>2. call[r].id \in Ids
    BY <2>1, CaseCallShape
  <2> QED
    BY <1>1, <2>1, <2>2, RefuseKeeps, UpdateKeeps, TypedColumns
       DEF PatchObservable, DeleteObservable, ChangeObservable, Codes
<1>2. CASE BulkPatchObservables(r)
  <2> DEFINE S == {y \in call[r].ids : SeesLive(r, y, "observable")}
             new == [x \in S |-> Updated(r, x, [state |-> r])]
  <2>1. pc[r] = "write" /\ call[r] \in Calls /\ call[r].op = "bulkPatchObservables"
    BY <1>2, WriterCalls DEF IInv, BulkPatchObservables
  <2>2. S \in SUBSET Ids
    BY <2>1, CaseCallShape
  <2>3. \A x \in S : db[x] # Null
    BY <2>1, <2>2, SeenStays DEF SeesLive, SeesOwn, Lasting
  <2>4. \A x \in S : /\ Updated(r, x, [state |-> r]) \in Row
                     /\ Follows(db[x], Updated(r, x, [state |-> r]))
    BY <2>2, <2>3, UpdatedType, TypedColumns DEF IInv
  <2>5. Insert(r, new, "500")
    BY <1>2 DEF BulkPatchObservables
  <2> HIDE DEF S
  <2>6. new \in [S -> Row] /\ \A x \in S : Settles(r, new, x)
    BY <2>3, <2>4 DEF Settles
  <2> HIDE DEF new
  <2> QED
    BY <2>1, <2>2, <2>5, <2>6, InsertKeeps DEF Codes
<1> QED
  BY <1>1, <1>2

-----------------------------------------------------------------------------
(* Imports: what one is asked and has answered.                            *)
LEMMA AppendFacts ==
  ASSUME NEW T, NEW s \in Seq(T), NEW e \in T
  PROVE  /\ Append(s, e) \in Seq(T) /\ Len(Append(s, e)) = Len(s) + 1
         /\ Append(s, e)[Len(s) + 1] = e
         /\ \A j \in 1..Len(s) : Append(s, e)[j] = s[j]
  OBVIOUS
LEMMA ImportFacts ==
  ASSUME IInv, NEW r \in Imports
  PROVE  /\ call[r].org \in Orgs /\ call[r].tags \in Seq(Names)
         /\ Len(call[r].tags) \in 0..MaxRows
         /\ answer[r] \in Seq(SUBSET Ids) /\ Len(answer[r]) \in Nat
         /\ Len(answer[r]) <= Len(call[r].tags)
         /\ \A k \in 1..Len(call[r].tags) : Entry(r, k) \in Row /\ Entry(r, k).table = "taxonomy"
         /\ \A k \in Staged(r) : k \in 1..Len(call[r].tags) /\ k \in 1..MaxRows
<1>1. r \in Requests /\ pc[r] = "write" /\ call[r] \in Calls /\ call[r].op = "importMisp"
  BY DEF IInv, TypeOK, Imports
<1>2. /\ call[r].org \in Orgs /\ call[r].tags \in Seq(Names)
      /\ Len(call[r].tags) \in 0..MaxRows
  BY <1>1, LibraryCallShape
<1>3. answer[r] \in Seq(SUBSET Ids) /\ Len(answer[r]) <= Len(call[r].tags)
  BY <1>1 DEF IInv, AnswersAreTags
<1>4. \A k \in 1..Len(call[r].tags) : Entry(r, k) \in Row /\ Entry(r, k).table = "taxonomy"
  <2> SUFFICES ASSUME NEW k \in 1..Len(call[r].tags)
               PROVE  Entry(r, k) \in Row /\ Entry(r, k).table = "taxonomy"
    OBVIOUS
  <2>1. call[r].org \in Ids /\ call[r].tags[k] \in Names
    BY <1>2, OrgIds
  <2>2. \A o \in Ids, n \in Names : Sole(r, "taxonomy", o, Null, n, "", Null) \in Row
    BY <1>1, SoleType, TableMembers, StatesAssumption DEF IInv
  <2>3. Entry(r, k).table = "taxonomy"
    BY DEF Entry, Sole
  <2> QED
    BY <2>1, <2>2, <2>3 DEF Entry
<1>5. \A k \in Staged(r) : k \in 1..Len(call[r].tags) /\ k \in 1..MaxRows
  BY <1>2, <1>3, IdsAssumption DEF Staged
<1> QED
  BY <1>2, <1>3, <1>4, <1>5

(* A tag that an import inserts is neither committed nor inserted by it or *)
(* by another.                                                             *)
LEMMA ImportTagKeeps ==
  ASSUME IInv, NEW r \in Requests, UNCHANGED indexerVars, ImportTag(r)
  PROVE  Keeps(r)
<1> DEFINE k == Len(answer[r]) + 1
           taken == \/ \E x \in Ids : db[x] # Null /\ SameKey(db[x], Entry(r, k))
                    \/ \E j \in Staged(r) : SameKey(Entry(r, j), Entry(r, k))
           step == IF taken THEN {} ELSE {<<r, k>>}
<1> USE DEF IInv
<1>1. pc[r] = "write" /\ call[r].op = "importMisp" /\ r \in Imports
  BY WriterCalls DEF ImportTag, Imports
<1>2. /\ k <= Len(call[r].tags) /\ ~Waits(r, Entry(r, k))
      /\ answer' = [answer EXCEPT ![r] = Append(@, step)]
      /\ UNCHANGED <<db, call, pc, seen, began, ended, clock>>
  BY DEF ImportTag
<1>3. /\ Len(call[r].tags) \in 0..MaxRows /\ answer[r] \in Seq(SUBSET Ids)
      /\ Len(answer[r]) \in Nat
  BY <1>1, ImportFacts
<1>4. k \in 1..MaxRows
  BY <1>2, <1>3, IdsAssumption
<1>a. /\ taken => step = {}
      /\ step \in SUBSET Ids
  BY <1>4, NewIds
<1> HIDE DEF step, taken
<1>5. \A q \in Requests : answer'[q] = (IF q = r THEN Append(answer[r], step) ELSE answer[q])
  BY <1>2 DEF TypeOK
<1>6. /\ answer'[r] \in Seq(SUBSET Ids) /\ Len(answer'[r]) = k /\ answer'[r][k] = step
      /\ \A j \in 1..(k - 1) : answer'[r][j] = answer[r][j]
  <2>1. answer'[r] = Append(answer[r], step)
    BY <1>5
  <2> QED
    BY <1>3, <1>a, <2>1, AppendFacts
<1>7. \A j \in Staged(r)' : j \in Staged(r) \/ (j = k /\ ~taken)
  <2> SUFFICES ASSUME NEW j \in Staged(r)', j # k \/ taken PROVE j \in Staged(r)
    OBVIOUS
  <2>1. j \in 1..k /\ \A i \in j..k : answer'[r][i] = {<<r, i>>}
    BY <1>6 DEF Staged
  <2>2. ~taken
    <3>1. k \in j..k
      BY <1>4, <2>1
    <3>2. step = {<<r, k>>}
      BY <1>6, <2>1, <3>1
    <3> QED
      BY <1>a, <3>2
  <2>3. j \in 1..Len(answer[r])
    BY <1>3, <2>1, <2>2
  <2>4. ASSUME NEW i \in j..Len(answer[r]) PROVE answer[r][i] = {<<r, i>>}
    <3>1. i \in j..k /\ i \in 1..(k - 1)
      BY <1>3, <2>3
    <3> QED
      BY <1>6, <2>1, <3>1
  <2> QED
    BY <2>3, <2>4 DEF Staged
<1>b. k \notin Staged(r)
  BY <1>3 DEF Staged
<1>8. \A q \in Requests \ {r} : Staged(q)' = Staged(q)
  BY <1>5 DEF Staged
<1>9. Imports' = Imports /\ \A q, j : Entry(q, j)' = Entry(q, j)
  BY <1>2 DEF Imports, Entry, Sole
<1>10. TypeOK' /\ IndexerTypeOK' /\ PlacesStay' /\ Consistent'
  BY <1>2 DEF TypeOK, IndexerTypeOK, indexerVars, PlacesStay, Consistent, NoDuplicates, References,
    Unlike, Refers
<1>11. AnswersAreTags'
  BY <1>1, <1>2, <1>5, <1>6 DEF AnswersAreTags
<1>12. StagedAreFresh'
  <2>1. ASSUME NEW j \in Staged(r)', NEW x \in Ids, db[x] # Null, SameKey(db[x], Entry(r, j))
        PROVE  FALSE
    BY <1>1, <1>7, <2>1 DEF StagedAreFresh, taken
  <2>2. ASSUME NEW j \in Staged(r)', NEW i \in Staged(r)', j # i, SameKey(Entry(r, i), Entry(r, j))
        PROVE  FALSE
    <3>1. CASE j = k
      BY <1>7, <1>b, <2>2, <3>1 DEF taken
    <3>2. CASE i = k
      <4>1. SameKey(Entry(r, j), Entry(r, k))
        BY <2>2, <3>2, Symmetric
      <4> QED
        BY <1>7, <1>b, <2>2, <3>2, <4>1 DEF taken
    <3>3. CASE j # k /\ i # k
      BY <1>1, <1>7, <2>2, <3>3 DEF StagedAreFresh
    <3> QED
      BY <3>1, <3>2, <3>3
  <2>3. ASSUME NEW q \in Imports \ {r}, NEW i \in Staged(q), NEW j \in Staged(r)',
               SameKey(Entry(q, i), Entry(r, j))
        PROVE  FALSE
    <3>1. CASE j = k
      BY <1>2, <2>3, <3>1 DEF Waits, Imports
    <3>2. CASE j # k
      BY <1>1, <1>7, <2>3, <3>2 DEF StagedAreFresh
    <3> QED
      BY <3>1, <3>2
  <2>4. ASSUME NEW q \in Imports, NEW j \in Staged(q)',
               \/ \E x \in Ids : db[x] # Null /\ SameKey(db[x], Entry(q, j))
               \/ \E i \in Staged(q)' : i # j /\ SameKey(Entry(q, i), Entry(q, j))
        PROVE  FALSE
    <3>1. CASE q = r
      BY <2>1, <2>2, <2>4, <3>1
    <3>2. CASE q # r
      BY <1>8, <2>4, <3>2 DEF StagedAreFresh, Imports
    <3> QED
      BY <3>1, <3>2
  <2>5. ASSUME NEW q \in Imports, NEW p \in Imports \ {q}, NEW j \in Staged(q)',
               NEW i \in Staged(p)', SameKey(Entry(p, i), Entry(q, j))
        PROVE  FALSE
    <3>1. CASE q = r
      BY <1>8, <2>3, <2>5, <3>1 DEF Imports
    <3>2. CASE p = r
      <4>1. SameKey(Entry(q, j), Entry(r, i)) /\ j \in Staged(q)
        BY <1>8, <2>5, <3>2, Symmetric DEF Imports
      <4> QED
        BY <2>3, <2>5, <3>2, <4>1
    <3>3. CASE q # r /\ p # r
      <4>1. j \in Staged(q) /\ i \in Staged(p)
        BY <1>8, <2>5, <3>3 DEF Imports
      <4> QED
        BY <2>5, <4>1 DEF StagedAreFresh
    <3> QED
      BY <3>1, <3>2, <3>3
  <2> QED
    BY <1>2, <1>9, <2>4, <2>5 DEF StagedAreFresh
<1>13. Quiet(r)
  <2>1. ~IsQuery(r)
    BY <1>1, CallsWrite DEF TypeOK
  <2> QED
    BY <1>2, <1>5, <2>1 DEF Quiet, OnTime, RowsStay, Follows, SamePlace, TypeOK
<1> QED
  BY <1>10, <1>11, <1>12, <1>13 DEF Keeps

(* So the one INSERT that does not look at the constraints need not.       *)
LEMMA ImportEndKeeps ==
  ASSUME IInv, NEW r \in Requests, UNCHANGED indexerVars, ImportEnd(r)
  PROVE  Keeps(r)
<1> DEFINE S == {<<r, k>> : k \in Staged(r)}
           new == [x \in S |-> Entry(r, x[2])]
           rows == With(new)
<1> USE DEF IInv
<1>1. r \in Imports /\ pc[r] = "write"
  BY WriterCalls DEF ImportEnd, Imports
<1>2. /\ call[r].org \in Orgs
      /\ \A k \in Staged(r) : /\ Entry(r, k) \in Row /\ Entry(r, k).table = "taxonomy"
                              /\ k \in 1..MaxRows
  BY <1>1, ImportFacts
<1>3. \A k \in Staged(r) : <<r, k>> \in Ids /\ db[<<r, k>>] = Null
  BY <1>1, <1>2, NewIds DEF PlacesStay
<1>4. ASSUME NEW x \in S
      PROVE  \E k \in Staged(r) : x = <<r, k>> /\ new[x] = Entry(r, k)
  BY <1>4
<1>5. S \in SUBSET Ids /\ new \in [S -> Row]
  BY <1>2, <1>3
<1>6. \A x \in S : x \in {r} \X (1..MaxRows) /\ db[x] = Null
  BY <1>2, <1>3
<1>7. Commit(r, rows) \/ GiveUp(r)
  BY DEF ImportEnd, Kept
<1>8. \A x \in Ids : rows[x] = (IF x \in S THEN new[x] ELSE db[x])
  BY <1>5 DEF With
<1>9. rows \in [Ids -> Row \cup {Null}]
  BY <1>5 DEF With, TypeOK
<1> HIDE DEF S, new, rows
<1>10. ASSUME NEW x \in S, NEW y \in Ids \ {x}, rows[y] # Null, SameKey(rows[y], rows[x])
       PROVE  FALSE
  <2>1. PICK k \in Staged(r) : x = <<r, k>> /\ rows[x] = Entry(r, k)
    BY <1>4, <1>5, <1>8
  <2>2. CASE y \in S
    <3>1. PICK j \in Staged(r) : y = <<r, j>> /\ rows[y] = Entry(r, j)
      BY <1>4, <1>5, <1>8, <2>2
    <3>2. j # k
      BY <1>10, <2>1, <3>1
    <3> QED
      BY <1>1, <1>10, <2>1, <3>1, <3>2 DEF StagedAreFresh
  <2>3. CASE y \notin S
    BY <1>1, <1>8, <1>10, <2>1, <2>3 DEF StagedAreFresh
  <2> QED
    BY <2>2, <2>3
<1>11. NoDuplicates(rows)
  <2> SUFFICES ASSUME NEW x \in Ids, rows[x] # Null, rows[x].table \in DOMAIN UniqueOn,
                      NEW y \in Ids \ {x}, rows[y] # Null, SameKey(rows[x], rows[y])
               PROVE  FALSE
    BY DEF NoDuplicates, Unlike
  <2>1. CASE x \in S
    BY <1>10, <2>1, Symmetric
  <2>2. CASE y \in S
    BY <1>10, <2>2
  <2>3. CASE x \notin S /\ y \notin S
    BY <1>8, <2>3 DEF Consistent, NoDuplicates, Unlike
  <2> QED
    BY <2>1, <2>2, <2>3
<1>12. \A x \in Ids : db[x] # Null => rows[x] = db[x]
  BY <1>6, <1>8
<1>13. References(rows)
  <2> SUFFICES ASSUME NEW x \in Ids, rows[x] # Null PROVE Refers(rows, x)
    BY DEF References
  <2>1. CASE x \in S
    <3>1. PICK k \in Staged(r) : rows[x] = Entry(r, k)
      BY <1>4, <1>8, <2>1
    <3>2. \A y \in ForeignKeys(Entry(r, k)) : y \in {call[r].org, Null}
      BY DEF ForeignKeys, Entry, Sole
    <3>3. call[r].org \in Ids /\ rows[call[r].org] # Null
      BY <1>2, <1>12, OrgIds DEF PlacesStay
    <3> QED
      BY <3>1, <3>2, <3>3 DEF Refers
  <2>2. CASE x \notin S
    BY <1>8, <1>12, <2>2 DEF Consistent, References, Refers
  <2> QED
    BY <2>1, <2>2
<1>14. ASSUME NEW q \in Imports \ {r}, NEW j \in Staged(q), NEW x \in Ids, rows[x] # Null,
              SameKey(rows[x], Entry(q, j))
       PROVE  FALSE
  <2>1. CASE x \in S
    <3>1. PICK k \in Staged(r) : rows[x] = Entry(r, k)
      BY <1>4, <1>8, <2>1
    <3> QED
      BY <1>1, <1>14, <3>1 DEF StagedAreFresh
  <2>2. CASE x \notin S
    BY <1>8, <1>14, <2>2 DEF StagedAreFresh
  <2> QED
    BY <2>1, <2>2
<1>16. AtHome(rows)
  <2>1. \A x \in Ids : rows[x] # Null /\ rows[x].table \in Written => rows[x] = db[x]
    BY <1>2, <1>4, <1>8 DEF Written
  <2> QED
    BY <1>12, <2>1 DEF AtHome, Housed, Consistent
<1>15. Lawful(r, rows)
  BY <1>6, <1>8, <1>9, <1>11, <1>12, <1>13, <1>14, <1>16 DEF Lawful, Follows, SamePlace
<1>17. CASE GiveUp(r)
  BY <1>1, <1>17, GiveUpKeeps
<1>18. CASE Commit(r, rows)
  BY <1>1, <1>15, <1>18, CommitKeeps
<1> QED
  BY <1>7, <1>17, <1>18

LEMMA ImportDeadlockKeeps ==
  ASSUME IInv, NEW r \in Requests, UNCHANGED indexerVars, ImportDeadlock(r)
  PROVE  Keeps(r)
<1>1. pc[r] = "write" /\ Refuse(r, "500")
  BY WriterCalls DEF IInv, ImportDeadlock
<1> QED
  BY <1>1, RefuseKeeps DEF Codes

LEMMA LibraryKeeps ==
  ASSUME IInv, NEW r \in Requests, UNCHANGED indexerVars, LibraryStep(r)
  PROVE  Keeps(r)
  BY KbKeeps, ApplyTemplateKeeps, TaxonomyKeeps, ImportTagKeeps, ImportEndKeeps,
     ImportDeadlockKeeps, TtpKeeps, PageKeeps, CreateCommentKeeps, CommentKeeps, CaseKeeps,
     ObservableKeeps DEF LibraryStep

-----------------------------------------------------------------------------
(* A request that reads before it writes has the rows that are committed.  *)
LEMMA ReadKeeps ==
  ASSUME IInv, NEW r \in Requests, UNCHANGED indexerVars, Read(r)
  PROVE  Keeps(r)
<1> USE DEF IInv
<1>1. pc[r] = "read" /\ call[r] \in Calls
  BY WritersAreCalls DEF Read
<1>2. /\ \A q \in Requests : pc'[q] = (IF q = r THEN "write" ELSE pc[q])
      /\ \A q \in Requests : seen'[q] = (IF q = r THEN db ELSE seen[q])
      /\ \A q \in Requests : began'[q] = (IF q = r THEN clock ELSE began[q])
      /\ UNCHANGED <<db, call, answer, ended>>
  BY DEF Read, Begin, TypeOK
<1>3. TypeOK'
  <2>1. pc' = [pc EXCEPT ![r] = "write"] /\ seen' = [seen EXCEPT ![r] = db]
    BY DEF Read
  <2>2. began' \in [Requests -> Nat] /\ clock' \in Nat
    BY DEF Read, Begin, TypeOK
  <2>3. \A q \in Requests : pc'[q] = "write" =>
          seen'[q] \in [Ids -> Row \cup {Null}] /\ call'[q] \in Calls
    BY <1>1, <1>2 DEF TypeOK
  <2> QED
    BY <1>2, <2>1, <2>2, <2>3 DEF TypeOK
<1>4. IndexerTypeOK' /\ Consistent'
  BY <1>2 DEF IndexerTypeOK, indexerVars, Consistent, NoDuplicates, References, Unlike, Refers
<1>5. PlacesStay'
  <2>1. \A q \in Requests : pc'[q] # "200" => \A k \in 1..MaxRows : db'[<<q, k>>] = Null
    BY <1>1, <1>2 DEF PlacesStay
  <2>2. ASSUME NEW q \in Requests, pc'[q] = "write", NEW x \in Ids, seen'[q][x] # Null
        PROVE  /\ db'[x] # Null => Follows(seen'[q][x], db'[x])
               /\ seen'[q][x].table \in Lasting => db'[x] # Null
               /\ \A p \in Requests, k \in 1..MaxRows : x = <<p, k>> => pc'[p] = "200"
    <3>1. CASE q = r
      <4>1. seen'[q][x] = db[x] /\ db'[x] = db[x]
        BY <1>2, <3>1
      <4>2. \A p \in Requests, k \in 1..MaxRows : x = <<p, k>> => pc[p] = "200" /\ p # r
        BY <1>1, <2>2, <4>1 DEF PlacesStay
      <4> QED
        BY <1>2, <2>2, <4>1, <4>2 DEF Follows, SamePlace
    <3>2. CASE q # r
      <4>1. pc[q] = "write" /\ seen'[q] = seen[q]
        BY <1>2, <2>2, <3>2
      <4>2. \A p \in Requests, k \in 1..MaxRows : x = <<p, k>> => pc[p] = "200" /\ p # r
        BY <1>1, <2>2, <4>1 DEF PlacesStay
      <4> QED
        BY <1>2, <2>2, <4>1, <4>2 DEF PlacesStay
    <3> QED
      BY <3>1, <3>2
  <2> QED
    BY <1>2, <2>1, <2>2 DEF PlacesStay
<1>6. call[r].op = "importMisp" => answer[r] = <<>> /\ Len(call[r].tags) \in Nat
  BY <1>1, LibraryCallShape DEF AnswersAreTags
<1>7. AnswersAreTags'
  <2>1. \A q \in Requests \ {r} : pc'[q] = pc[q] /\ call'[q] = call[q] /\ answer'[q] = answer[q]
    BY <1>2
  <2>2. call[r].op = "importMisp" =>
          answer'[r] \in Seq(SUBSET Ids) /\ Len(answer'[r]) <= Len(call'[r].tags)
    <3>1. <<>> \in Seq(SUBSET Ids) /\ Len(<<>>) = 0
      OBVIOUS
    <3>2. answer'[r] = answer[r] /\ call'[r] = call[r]
      BY <1>2
    <3>3. ASSUME call[r].op = "importMisp"
          PROVE  answer'[r] \in Seq(SUBSET Ids) /\ Len(answer'[r]) = 0 /\ Len(call'[r].tags) \in Nat
      BY <1>6, <3>1, <3>2, <3>3
    <3> QED
      BY <3>3
  <2>3. pc'[r] = "write"
    BY <1>2
  <2> QED
    BY <1>2, <2>1, <2>2, <2>3 DEF AnswersAreTags
<1>8. StagedAreFresh'
  <2>1. \A q \in Imports' \ {r} : q \in Imports
    BY <1>2 DEF Imports
  <2>2. r \in Imports' => Staged(r)' = {}
    BY <1>2, <1>6 DEF Staged, Imports
  <2>3. \A q \in Requests \ {r} : Staged(q)' = Staged(q) /\ \A k : Entry(q, k)' = Entry(q, k)
    BY <1>2 DEF Staged, Entry, Sole
  <2> QED
    BY <1>2, <2>1, <2>2, <2>3 DEF StagedAreFresh, Imports
<1>9. Quiet(r)
  <2>1. clock' > clock /\ clock' >= clock
    BY DEF Read, Begin, TypeOK
  <2>2. OnTime
    BY <1>1, <1>2, <2>1 DEF OnTime
  <2> QED
    BY <1>1, <1>2, <2>2, CallsWrite DEF Quiet, RowsStay, Follows, SamePlace
<1> QED
  BY <1>3, <1>4, <1>5, <1>7, <1>8, <1>9 DEF Keeps

-----------------------------------------------------------------------------
(* A view changes no row, and nothing of who writes.  It begins with its   *)
(* first answer, and it is done with one; or it is refused.                *)
Replies(r) ==
  /\ pc[r] \in {"read", "next"} /\ pc'[r] \in {"next", "200"} /\ seen'[r] = db
  /\ call[r].since # Null => pc[call[r].since] = "200"
  /\ \E rows : answer'[r] = Append(answer[r], rows)
  /\ IF Len(answer[r]) + 1 = 1 THEN began'[r] = clock /\ clock' = clock + 1
     ELSE UNCHANGED <<began, clock>>
OnlyAnswers(r) ==
  /\ IInv' /\ OnTime /\ UNCHANGED <<db, call, ended>>
  /\ \A q \in Requests \ {r} :
       pc'[q] = pc[q] /\ answer'[q] = answer[q] /\ seen'[q] = seen[q] /\ began'[q] = began[q]
  /\ call[r].op \notin Acting /\ pc'[r] # "write"
  /\ \/ pc'[r] \in {"next", "200", "404"} \/ call[r].op \in Uncaught
     \/ pc'[r] = "500" /\ ~Fits(call[r])
  /\ began'[r] # began[r] => Len(answer[r]) + 1 = 1
  /\ \/ Replies(r)
     \/ UNCHANGED <<seen, answer, began, clock>> /\ pc'[r] \notin {"write", "next", "200"}
LEMMA RefuseAnswers ==
  ASSUME IInv, NEW r \in Requests, pc[r] # "200", call[r].op \notin Acting, NEW code \in Codes,
         code = "404" \/ call[r].op \in Uncaught \/ (code = "500" /\ ~Fits(call[r])),
         Refuse(r, code), UNCHANGED indexerVars
  PROVE  OnlyAnswers(r)
<1>1. IInv' /\ OnTime
  BY RefuseKeeps DEF Keeps, Quiet
<1>2. /\ UNCHANGED <<db, call, seen, answer, began, ended>>
      /\ pc' = [pc EXCEPT ![r] = code] /\ code \notin {"200", "next", "write"}
      /\ clock' = clock
  BY DEF Refuse, Codes
<1>3. pc \in [Requests -> {"idle", "read", "next", "write", "200", "400", "401", "403", "404", "409", "500"}]
  BY DEF IInv, TypeOK
<1> QED
  BY <1>1, <1>2, <1>3 DEF OnlyAnswers
LEMMA AnswerKeeps ==
  ASSUME IInv, NEW r \in Requests, UNCHANGED indexerVars,
         NEW op, op \notin Acting, NEW statements, Answer(r, op, statements)
  PROVE  OnlyAnswers(r)
<1> USE DEF IInv
<1>1. pc[r] \in {"read", "next"} /\ call[r].op \notin Acting
  BY DEF Answer, Asks
<1>2. PICK rows : answer' = [answer EXCEPT ![r] = Append(@, rows)]
  BY DEF Answer
<1>3. PICK code \in {"200", "next"} : pc' = [pc EXCEPT ![r] = code]
  BY DEF Answer
<1>4. /\ seen' = [seen EXCEPT ![r] = db]
      /\ UNCHANGED <<db, call, ended>>
  BY DEF Answer
<1>5. /\ began' \in [Requests -> Nat] /\ clock' \in Nat /\ clock' >= clock
      /\ \A q \in Requests \ {r} : began'[q] = began[q]
      /\ began'[r] = began[r] \/ (began'[r] = clock /\ clock' > clock /\ Len(answer[r]) + 1 = 1)
  <2>1. began \in [Requests -> Nat] /\ clock \in Nat
    BY DEF TypeOK
  <2>2. CASE Begin(r) /\ Len(answer[r]) + 1 = 1
    BY <2>1, <2>2 DEF Begin
  <2>3. CASE UNCHANGED <<began, clock>>
    BY <2>1, <2>3
  <2> QED
    BY <2>2, <2>3 DEF Answer
<1>6. /\ pc'[r] \in {"200", "next"}
      /\ \A q \in Requests \ {r} :
           pc'[q] = pc[q] /\ seen'[q] = seen[q] /\ answer'[q] = answer[q]
  BY <1>2, <1>3, <1>4 DEF TypeOK
<1>7. TypeOK'
  BY <1>2, <1>3, <1>4, <1>5, <1>6 DEF TypeOK
<1>8. IndexerTypeOK' /\ Consistent'
  BY <1>4 DEF IndexerTypeOK, indexerVars, Consistent, NoDuplicates, References, Unlike, Refers
<1>9. PlacesStay'
  <2>1. \A q \in Requests : pc'[q] # "200" => \A k \in 1..MaxRows : db'[<<q, k>>] = Null
    BY <1>1, <1>4, <1>6 DEF PlacesStay
  <2>2. ASSUME NEW q \in Requests, pc'[q] = "write", NEW x \in Ids, seen'[q][x] # Null
        PROVE  /\ db'[x] # Null => Follows(seen'[q][x], db'[x])
               /\ seen'[q][x].table \in Lasting => db'[x] # Null
               /\ \A p \in Requests, k \in 1..MaxRows : x = <<p, k>> => pc'[p] = "200"
    <3>1. pc[q] = "write" /\ seen'[q] = seen[q]
      BY <1>6, <2>2
    <3>2. \A p \in Requests, k \in 1..MaxRows : x = <<p, k>> => pc[p] = "200" /\ p # r
      BY <1>1, <2>2, <3>1 DEF PlacesStay
    <3> QED
      BY <1>4, <1>6, <2>2, <3>1, <3>2 DEF PlacesStay
  <2> QED
    BY <1>4, <2>1, <2>2 DEF PlacesStay
<1>10. AnswersAreTags'
  BY <1>1, <1>4, <1>6 DEF AnswersAreTags
<1>11. StagedAreFresh'
  <2>1. Imports' \subseteq Imports \ {r}
    BY <1>1, <1>4, <1>6 DEF Imports
  <2>2. \A q \in Requests \ {r} : Staged(q)' = Staged(q) /\ \A k : Entry(q, k)' = Entry(q, k)
    BY <1>4, <1>5, <1>6 DEF Staged, Entry, Sole
  <2> QED
    BY <1>4, <2>1, <2>2 DEF StagedAreFresh, Imports
<1> QED
  <2>1. answer'[r] = Append(answer[r], rows)
    BY <1>2 DEF TypeOK
  <2>2. OnTime
    BY <1>1, <1>4, <1>5, <1>6 DEF OnTime
  <2>3. IF Len(answer[r]) + 1 = 1 THEN began'[r] = clock /\ clock' = clock + 1
        ELSE UNCHANGED <<began, clock>>
    <3>1. IF Len(answer[r]) + 1 = 1 THEN Begin(r) ELSE UNCHANGED <<began, clock>>
      BY DEF Answer
    <3> QED
      BY <3>1 DEF Begin, TypeOK
  <2>4. seen'[r] = db
    BY <1>4, <1>7 DEF TypeOK
  <2>5. call[r].since # Null => pc[call[r].since] = "200"
    BY DEF Answer, Asks
  <2>6. Replies(r)
    BY <1>1, <1>6, <2>1, <2>3, <2>4, <2>5 DEF Replies
  <2> QED
    BY <1>1, <1>4, <1>5, <1>6, <1>7, <1>8, <1>9, <1>10, <1>11, <2>2, <2>6 DEF OnlyAnswers

LEMMA AnswerIfKeeps ==
  ASSUME IInv, NEW r \in Requests, UNCHANGED indexerVars,
         NEW op, op \notin Acting, NEW found, NEW statements, AnswerIf(r, op, found, statements)
  PROVE  OnlyAnswers(r)
<1>1. pc[r] # "200" /\ call[r].op \notin Acting
  BY DEF AnswerIf, Asks
<1>2. CASE Refuse(r, "404")
  BY <1>1, <1>2, RefuseAnswers DEF Codes
<1>3. CASE Answer(r, op, <<{found}>> \o statements)
  BY <1>3, AnswerKeeps
<1> QED
  BY <1>2, <1>3 DEF AnswerIf

(* The views of accounts.                                                 *)
LEMMA AccountViewKeeps ==
  ASSUME IInv, NEW r \in Requests, UNCHANGED indexerVars, AccountView(r)
  PROVE  OnlyAnswers(r)
<1>1. CASE SearchUsers(r)
  BY <1>1, AnswerKeeps DEF SearchUsers, Acting, Deleting
<1>2. CASE ListRecentUsers(r)
  BY <1>2, AnswerKeeps DEF ListRecentUsers, Acting, Deleting
<1>3. CASE ListUsers(r)
  BY <1>3, AnswerKeeps DEF ListUsers, Acting, Deleting
<1>4. CASE GetUser(r)
  BY <1>4, AnswerIfKeeps DEF GetUser, Acting, Deleting
<1>5. CASE PeekInvite(r)
  BY <1>5, AnswerIfKeeps DEF PeekInvite, Acting, Deleting
<1>6. CASE UserRecentActivity(r)
  BY <1>6, AnswerKeeps DEF UserRecentActivity, Acting, Deleting
<1>7. CASE ListProfiles(r)
  BY <1>7, AnswerKeeps DEF ListProfiles, Acting, Deleting
<1>8. CASE GetProfile(r)
  BY <1>8, AnswerIfKeeps DEF GetProfile, Acting, Deleting
<1>9. CASE ListMyOrgs(r)
  BY <1>9, AnswerKeeps DEF ListMyOrgs, Acting, Deleting
<1>10. CASE GetOrg(r)
  BY <1>10, AnswerIfKeeps DEF GetOrg, Acting, Deleting
<1>11. CASE ListSharings(r)
  BY <1>11, AnswerKeeps DEF ListSharings, Acting, Deleting
<1>12. CASE ListMyKeys(r)
  BY <1>12, AnswerKeeps DEF ListMyKeys, Acting, Deleting
<1>13. CASE ListUserKeys(r)
  BY <1>13, AnswerKeeps DEF ListUserKeys, Acting, Deleting
<1>14. CASE ExportUser(r)
  BY <1>14, AnswerIfKeeps DEF ExportUser, Acting, Deleting
<1> QED
  BY <1>1, <1>2, <1>3, <1>4, <1>5, <1>6, <1>7, <1>8, <1>9, <1>10, <1>11, <1>12, <1>13, <1>14 DEF
     AccountView

(* The views of the library and of the audit log.                         *)
LEMMA LibraryViewKeeps ==
  ASSUME IInv, NEW r \in Requests, UNCHANGED indexerVars, LibraryView(r)
  PROVE  OnlyAnswers(r)
<1>1. CASE ListKbPages(r)
  BY <1>1, AnswerKeeps DEF ListKbPages, Acting, Deleting
<1>2. CASE ListRecentKbPages(r)
  BY <1>2, AnswerKeeps DEF ListRecentKbPages, Acting, Deleting
<1>3. CASE GetKbPage(r)
  BY <1>3, AnswerIfKeeps DEF GetKbPage, Acting, Deleting
<1>4. CASE ListRecentCaseTemplates(r)
  BY <1>4, AnswerKeeps DEF ListRecentCaseTemplates, Acting, Deleting
<1>5. CASE ListTemplates(r)
  BY <1>5, AnswerKeeps DEF ListTemplates, Acting, Deleting
<1>6. CASE ListTaxonomyEntries(r)
  BY <1>6, AnswerKeeps DEF ListTaxonomyEntries, Acting, Deleting
<1>7. CASE ListCatalog(r)
  BY <1>7, AnswerKeeps DEF ListCatalog, Acting, Deleting
<1>8. CASE ListCaseTtps(r)
  BY <1>8, AnswerIfKeeps DEF ListCaseTtps, Acting, Deleting
<1>9. CASE CasesByTechnique(r)
  BY <1>9, AnswerKeeps DEF CasesByTechnique, Acting, Deleting
<1>10. CASE ListCasePages(r)
  BY <1>10, AnswerIfKeeps DEF ListCasePages, Acting, Deleting
<1>11. CASE ListMyMentions(r)
  BY <1>11, AnswerKeeps DEF ListMyMentions, Acting, Deleting
<1>12. CASE UnreadMentionCount(r)
  BY <1>12, AnswerKeeps DEF UnreadMentionCount, Acting, Deleting
<1>13. CASE ListAudit(r)
  BY <1>13, AnswerKeeps DEF ListAudit, Acting, Deleting
<1>14. CASE ExportAuditCsv(r)
  BY <1>14, AnswerKeeps DEF ExportAuditCsv, Acting, Deleting
<1>15. CASE AuditSummary(r)
  BY <1>15, AnswerKeeps DEF AuditSummary, Acting, Deleting
<1>16. CASE ListEndpoints(r)
  BY <1>16, AnswerKeeps DEF ListEndpoints, Acting, Deleting
<1>17. CASE ListRules(r)
  BY <1>17, AnswerKeeps DEF ListRules, Acting, Deleting
<1>18. CASE ListDeliveries(r)
  BY <1>18, AnswerKeeps DEF ListDeliveries, Acting, Deleting
<1>19. CASE DeliveriesSummary(r)
  BY <1>19, AnswerKeeps DEF DeliveriesSummary, Acting, Deleting
<1>20. CASE ExportDeliveriesCsv(r)
  BY <1>20, AnswerKeeps DEF ExportDeliveriesCsv, Acting, Deleting
<1> QED
  BY <1>1, <1>2, <1>3, <1>4, <1>5, <1>6, <1>7, <1>8, <1>9, <1>10, <1>11, <1>12, <1>13, <1>14,
     <1>15, <1>16, <1>17, <1>18, <1>19, <1>20 DEF LibraryView

(* The views of cases and alerts.                                         *)
LEMMA CaseViewKeeps ==
  ASSUME IInv, NEW r \in Requests, UNCHANGED indexerVars, CaseView(r)
  PROVE  OnlyAnswers(r)
<1>1. CASE ListCases(r)
  BY <1>1, AnswerKeeps DEF ListCases, Acting, Deleting
<1>2. CASE ListRecentCases(r)
  BY <1>2, AnswerKeeps DEF ListRecentCases, Acting, Deleting
<1>3. CASE GetCase(r)
  BY <1>3, AnswerIfKeeps DEF GetCase, Acting, Deleting
<1>4. CASE ExportCasesCsv(r)
  BY <1>4, AnswerKeeps DEF ExportCasesCsv, Acting, Deleting
<1>5. CASE ListCaseContributors(r)
  BY <1>5, AnswerIfKeeps DEF ListCaseContributors, Acting, Deleting
<1>6. CASE MyCaseContributorRow(r)
  BY <1>6, AnswerIfKeeps DEF MyCaseContributorRow, Acting, Deleting
<1>7. CASE ListRelatedCases(r)
  BY <1>7, AnswerIfKeeps DEF ListRelatedCases, Acting, Deleting
<1>8. CASE ListLinks(r)
  BY <1>8, AnswerIfKeeps DEF ListLinks, Acting, Deleting
<1>9. CASE ExportTasksCsv(r)
  BY <1>9, AnswerKeeps DEF ExportTasksCsv, Acting, Deleting
<1>10. CASE ListRecentTasks(r)
  BY <1>10, AnswerKeeps DEF ListRecentTasks, Acting, Deleting
<1>11. CASE ListAllTasks(r)
  BY <1>11, AnswerKeeps DEF ListAllTasks, Acting, Deleting
<1>12. CASE ListTasks(r)
  BY <1>12, AnswerIfKeeps DEF ListTasks, Acting, Deleting
<1>13. CASE CaseTasksSummary(r)
  BY <1>13, AnswerIfKeeps DEF CaseTasksSummary, Acting, Deleting
<1>14. CASE ListTaskLogs(r)
  BY <1>14, AnswerIfKeeps DEF ListTaskLogs, Acting, Deleting
<1>15. CASE ListComments(r)
  BY <1>15, AnswerIfKeeps DEF ListComments, Acting, Deleting
<1>16. CASE CaseTimeline(r)
  BY <1>16, AnswerIfKeeps DEF CaseTimeline, Acting, Deleting
<1>17. CASE CaseTimelineSummary(r)
  BY <1>17, AnswerIfKeeps DEF CaseTimelineSummary, Acting, Deleting
<1>18. CASE CaseReport(r)
  BY <1>18, AnswerIfKeeps DEF CaseReport, Acting, Deleting
<1>19. CASE ListAlerts(r)
  BY <1>19, AnswerKeeps DEF ListAlerts, Acting, Deleting
<1>20. CASE ListRecentAlerts(r)
  BY <1>20, AnswerKeeps DEF ListRecentAlerts, Acting, Deleting
<1>21. CASE ExportAlertsCsv(r)
  BY <1>21, AnswerKeeps DEF ExportAlertsCsv, Acting, Deleting
<1>22. CASE GetAlert(r)
  BY <1>22, AnswerIfKeeps DEF GetAlert, Acting, Deleting
<1>23. CASE ListSimilarAlerts(r)
  BY <1>23, AnswerIfKeeps DEF ListSimilarAlerts, Acting, Deleting
<1>24. CASE AlertTimeline(r)
  BY <1>24, AnswerIfKeeps DEF AlertTimeline, Acting, Deleting
<1> QED
  BY <1>1, <1>2, <1>3, <1>4, <1>5, <1>6, <1>7, <1>8, <1>9, <1>10, <1>11, <1>12, <1>13, <1>14,
     <1>15, <1>16, <1>17, <1>18, <1>19, <1>20, <1>21, <1>22, <1>23, <1>24 DEF CaseView

(* The views of observables.                                              *)
LEMMA ObservableViewKeeps ==
  ASSUME IInv, NEW r \in Requests, UNCHANGED indexerVars, ObservableView(r)
  PROVE  OnlyAnswers(r)
<1>1. CASE SearchObservables(r)
  BY <1>1, AnswerKeeps DEF SearchObservables, Acting, Deleting
<1>2. CASE ListRecentObservables(r)
  BY <1>2, AnswerKeeps DEF ListRecentObservables, Acting, Deleting
<1>3. CASE ListObservables(r)
  BY <1>3, AnswerKeeps DEF ListObservables, Acting, Deleting
<1>4. CASE ExportObservablesCsv(r)
  BY <1>4, AnswerKeeps DEF ExportObservablesCsv, Acting, Deleting
<1>5. CASE GetObservable(r)
  BY <1>5, AnswerIfKeeps DEF GetObservable, Acting, Deleting
<1>6. CASE FindSimilar(r)
  BY <1>6, AnswerIfKeeps DEF FindSimilar, Acting, Deleting
<1>7. CASE ObservableCaseRefs(r)
  BY <1>7, AnswerIfKeeps DEF ObservableCaseRefs, Acting, Deleting
<1>8. CASE ListCaseObservables(r)
  BY <1>8, AnswerIfKeeps DEF ListCaseObservables, Acting, Deleting
<1>9. CASE CaseObservablePapSummary(r)
  BY <1>9, AnswerIfKeeps DEF CaseObservablePapSummary, Acting, Deleting
<1>10. CASE CaseObservableTlpSummary(r)
  BY <1>10, AnswerIfKeeps DEF CaseObservableTlpSummary, Acting, Deleting
<1>11. CASE CaseObservableTags(r)
  BY <1>11, AnswerIfKeeps DEF CaseObservableTags, Acting, Deleting
<1>12. CASE CaseObservableSummary(r)
  BY <1>12, AnswerIfKeeps DEF CaseObservableSummary, Acting, Deleting
<1>13. CASE ExportObservablesToMisp(r)
  BY <1>13, AnswerIfKeeps DEF ExportObservablesToMisp, Acting, Deleting
<1>14. CASE CaseObservableSimilarityCounts(r)
  BY <1>14, AnswerIfKeeps DEF CaseObservableSimilarityCounts, Acting, Deleting
<1>15. CASE ListCaseAttachments(r)
  BY <1>15, AnswerKeeps DEF ListCaseAttachments, Acting, Deleting
<1>16. CASE ListShares(r)
  BY <1>16, AnswerKeeps DEF ListShares, Acting, Deleting
<1>17. CASE ListMySharedCases(r)
  BY <1>17, AnswerKeeps DEF ListMySharedCases, Acting, Deleting
<1>18. CASE ListPortalComments(r)
  BY <1>18, AnswerIfKeeps DEF ListPortalComments, Acting, Deleting
<1>19. CASE Search(r)
  BY <1>19, AnswerKeeps DEF Search, Acting, Deleting
<1> QED
  BY <1>1, <1>2, <1>3, <1>4, <1>5, <1>6, <1>7, <1>8, <1>9, <1>10, <1>11, <1>12, <1>13, <1>14,
     <1>15, <1>16, <1>17, <1>18, <1>19 DEF ObservableView

(* The views that count.                                                  *)
LEMMA FiguresKeeps ==
  ASSUME IInv, NEW r \in Requests, UNCHANGED indexerVars, Figures(r)
  PROVE  OnlyAnswers(r)
<1>1. CASE CasesPerDay(r)
  BY <1>1, AnswerKeeps DEF CasesPerDay, CountPerDay, Acting, Deleting
<1>2. CASE AlertsPerDay(r)
  BY <1>2, AnswerKeeps DEF AlertsPerDay, CountPerDay, Acting, Deleting
<1>3. CASE AuditPerDay(r)
  BY <1>3, AnswerKeeps DEF AuditPerDay, CountPerDay, Acting, Deleting
<1>4. CASE NotificationsPerDay(r)
  BY <1>4, AnswerKeeps DEF NotificationsPerDay, CountPerDay, Acting, Deleting
<1>5. CASE TtpsHeatmap(r)
  BY <1>5, AnswerKeeps DEF TtpsHeatmap, Acting, Deleting
<1>6. CASE CaseMttr(r)
  BY <1>6, AnswerKeeps DEF CaseMttr, Acting, Deleting
<1>7. CASE SlowestOpenCases(r)
  BY <1>7, AnswerKeeps DEF SlowestOpenCases, Acting, Deleting
<1>8. CASE ObservablesByType(r)
  BY <1>8, AnswerKeeps DEF ObservablesByType, Count, Acting, Deleting
<1>9. CASE ObservablesByTlp(r)
  BY <1>9, AnswerKeeps DEF ObservablesByTlp, Count, Acting, Deleting
<1>10. CASE ObservablesByPap(r)
  BY <1>10, AnswerKeeps DEF ObservablesByPap, Count, Acting, Deleting
<1>11. CASE CaseStages(r)
  BY <1>11, AnswerKeeps DEF CaseStages, Count, Acting, Deleting
<1>12. CASE CasesByTlp(r)
  BY <1>12, AnswerKeeps DEF CasesByTlp, Count, Acting, Deleting
<1>13. CASE CasesByAssignee(r)
  BY <1>13, AnswerKeeps DEF CasesByAssignee, Count, Acting, Deleting
<1>14. CASE AlertsByStatus(r)
  BY <1>14, AnswerKeeps DEF AlertsByStatus, Count, Acting, Deleting
<1>15. CASE AlertsBySource(r)
  BY <1>15, AnswerKeeps DEF AlertsBySource, Acting, Deleting
<1>16. CASE TasksByStatus(r)
  BY <1>16, AnswerKeeps DEF TasksByStatus, Count, Acting, Deleting
<1> QED
  BY <1>1, <1>2, <1>3, <1>4, <1>5, <1>6, <1>7, <1>8, <1>9, <1>10, <1>11, <1>12, <1>13, <1>14,
     <1>15, <1>16 DEF Figures

LEMMA SearchKeeps ==
  ASSUME IInv, NEW r \in Requests, SearchSimilarCases(r)
  PROVE  OnlyAnswers(r)
<1>1. CASE Asks(r, "similarCases") /\ Refuse(r, "500")
  <2>1. pc[r] # "200" /\ call[r].op \notin Acting /\ call[r].op \in Uncaught
    BY <1>1 DEF Asks, Acting, Deleting, Uncaught
  <2> QED
    BY <1>1, <2>1, RefuseAnswers DEF SearchSimilarCases, Codes
<1>2. CASE \E statements : Answer(r, "similarCases", statements)
  BY <1>2, AnswerKeeps DEF SearchSimilarCases, Acting, Deleting
<1> QED
  BY <1>1, <1>2 DEF SearchSimilarCases

LEMMA RefuseViewKeeps ==
  ASSUME IInv, NEW r \in Requests, UNCHANGED indexerVars, RefuseView(r)
  PROVE  OnlyAnswers(r)
<1>1. pc[r] # "200" /\ IsQuery(r) /\ ~Fits(call[r]) /\ Refuse(r, "500")
  BY DEF RefuseView, Asks
<1>2. call[r] \in AllCalls /\ call[r] \notin Calls
  BY <1>1, CallsWrite DEF IInv, TypeOK, IsQuery
<1>3. call[r] \in Queries(STRING \ Acting)
  BY <1>2 DEF AllCalls
<1>4. call[r].op \notin Acting
  BY <1>3 DEF Queries
<1> QED
  BY <1>1, <1>4, RefuseAnswers DEF Codes

-----------------------------------------------------------------------------
(* The indexer changes nothing that the requests see.                      *)
LEMMA RestKeeps ==
  ASSUME IInv, UNCHANGED tableVars
  PROVE  (TypeOK /\ PlacesStay /\ Consistent /\ AnswersAreTags /\ StagedAreFresh)'
<1> USE DEF IInv, tableVars
<1>1. TypeOK'
  BY DEF TypeOK
<1>2. PlacesStay'
  BY DEF PlacesStay
<1>3. Consistent'
  BY DEF Consistent, NoDuplicates, References, AtHome, Housed, Unlike, Refers
<1>4. AnswersAreTags'
  BY DEF AnswersAreTags
<1>5. StagedAreFresh'
  <2>1. /\ Imports' = Imports
        /\ \A q : Staged(q)' = Staged(q) /\ \A k : Entry(q, k)' = Entry(q, k)
    BY DEF Imports, Staged, Entry, Sole
  <2> QED
    BY <2>1 DEF StagedAreFresh
<1> QED
  BY <1>1, <1>2, <1>3, <1>4, <1>5

LEMMA IndexerKeeps ==
  ASSUME IInv, \/ \E w \in Workers : Query(w) \/ Index(w) \/ LoseRound(w)
               \/ Backfill
  PROVE  IInv'
<1> USE DEF IInv
<1>1. UNCHANGED tableVars
  BY DEF Query, Index, LoseRound, Backfill
<1>2. TypeOK' /\ PlacesStay' /\ Consistent' /\ AnswersAreTags' /\ StagedAreFresh'
  BY <1>1, RestKeeps
<1>3. IndexerTypeOK'
  <2>1. ASSUME NEW w \in Workers, Query(w) PROVE IndexerTypeOK'
    <3>1. PICK rows \in Newest(ClosedCases, Changed, Window) :
            \E first \in Newest(rows \ embedded, Changed, Batch) :
              todo' = [todo EXCEPT ![w] = first]
      BY <2>1 DEF Query
    <3>2. rows \subseteq Ids
      BY <3>1 DEF Newest, Page, ClosedCases
    <3>3. PICK first \in SUBSET Ids : todo' = [todo EXCEPT ![w] = first]
      BY <3>1, <3>2 DEF Newest, Page
    <3> QED
      BY <2>1, <3>3 DEF Query, IndexerTypeOK
  <2>2. ASSUME NEW w \in Workers, Index(w) PROVE IndexerTypeOK'
    BY <2>2 DEF Index, IndexerTypeOK
  <2>3. ASSUME NEW w \in Workers, LoseRound(w) PROVE IndexerTypeOK'
    BY <2>3, IndexerAssumption DEF LoseRound, IndexerTypeOK
  <2>4. CASE Backfill
    BY <2>4 DEF Backfill, IndexerTypeOK
  <2> QED
    BY <2>1, <2>2, <2>3, <2>4
<1> QED
  BY <1>2, <1>3

-----------------------------------------------------------------------------
LEMMA InitIInv == BackOfficeInit => IInv
<1> SUFFICES ASSUME BackOfficeInit PROVE IInv
  OBVIOUS
<1> USE DEF BackOfficeInit, Init
<1>1. db \in [Ids -> Row \cup {Null}] /\ \A x \in First : db[x] = FirstRow[x] /\ db[x] \in Row
  BY FirstAssumption, OrgIds
<1>2. \A x \in Ids : db[x] # Null => x \in First
  OBVIOUS
<1>3. call \in [Requests -> AllCalls]
  BY TrafficAssumption
<1>4. TypeOK
  BY <1>1, <1>3, IdsAssumption DEF TypeOK
<1>5. IndexerTypeOK
  BY IndexerAssumption DEF IndexerInit, IndexerTypeOK
<1>6. PlacesStay
  <2>1. /\ \A o \in Orgs : db[o] # Null /\ db[o].table = "organization"
        /\ \A u \in Callers : db[u] # Null /\ db[u].table = "user"
    BY <1>1, NullOut DEF Orgs, Callers
  <2>2. \A q \in Requests : \A k \in 1..MaxRows : db[<<q, k>>] = Null
    <3> SUFFICES ASSUME NEW q \in Requests, NEW k \in 1..MaxRows PROVE db[<<q, k>>] = Null
      OBVIOUS
    <3>1. <<q, k>> \in Ids /\ <<q, k>> \notin First
      <4>1. <<q, k>> \in Requests \X (1..MaxRows)
        OBVIOUS
      <4> QED
        BY <4>1, IdsAssumption, NewIds
    <3> QED
      BY <1>2, <3>1
  <2>3. \A r \in Requests : pc[r] # "write"
    OBVIOUS
  <2> QED
    BY <2>1, <2>2, <2>3 DEF PlacesStay
<1>7. Consistent
  <2>1. NoDuplicates(db)
    BY <1>1, <1>2, FirstAssumption DEF NoDuplicates, Unlike
  <2>2. References(db)
    BY <1>1, <1>2, FirstAssumption, NullOut, OrgIds DEF References, Refers
  <2>3. AtHome(db)
    BY <1>1, <1>2, HomeAssumption, NullOut, OrgIds DEF AtHome, Housed, Written
  <2> QED
    BY <2>1, <2>2, <2>3 DEF Consistent
<1>8. AnswersAreTags /\ StagedAreFresh
  BY DEF AnswersAreTags, StagedAreFresh, Imports
<1> QED
  BY <1>4, <1>5, <1>6, <1>7, <1>8 DEF IInv

LEMMA ViewKeeps ==
  ASSUME IInv, NEW r \in Requests,
         (View(r) /\ UNCHANGED indexerVars) \/ SearchSimilarCases(r)
  PROVE  OnlyAnswers(r)
  BY AccountViewKeeps, LibraryViewKeeps, CaseViewKeeps, ObservableViewKeeps, FiguresKeeps,
     SearchKeeps, RefuseViewKeeps DEF View

LEMMA NextIInv == IInv /\ [Next]_vars => IInv' /\ RowsStay
<1> SUFFICES ASSUME IInv, [Next]_vars PROVE IInv' /\ RowsStay
  OBVIOUS
<1>1. ASSUME db' = db PROVE RowsStay
  BY <1>1 DEF RowsStay, Follows, SamePlace
<1>2. CASE UNCHANGED vars
  BY <1>1, <1>2, RestKeeps DEF vars, tableVars, indexerVars, IInv, IndexerTypeOK
<1>3. ASSUME NEW r \in Requests, Read(r) \/ AccountStep(r) \/ LibraryStep(r),
             UNCHANGED indexerVars
      PROVE  IInv' /\ RowsStay
  BY <1>3, ReadKeeps, AccountKeeps, LibraryKeeps DEF Keeps, Quiet
<1>4. ASSUME NEW r \in Requests,
             (View(r) /\ UNCHANGED indexerVars) \/ SearchSimilarCases(r)
      PROVE  IInv' /\ RowsStay
  BY <1>1, <1>4, ViewKeeps DEF OnlyAnswers
<1>5. CASE (\E w \in Workers : Query(w) \/ Index(w) \/ LoseRound(w)) \/ Backfill
  <2>1. db' = db
    BY <1>5 DEF Query, Index, LoseRound, Backfill, tableVars
  <2> QED
    BY <1>1, <1>5, <2>1, IndexerKeeps
<1> QED
  BY <1>2, <1>3, <1>4, <1>5 DEF Next

(* Every state of the back office is well-formed: whatever requests run    *)
(* beside each other, no two rows have in common what is unique, no row    *)
(* refers to one that is not there and none is written about a case of     *)
(* another organization, though an import checks none of this when it      *)
(* commits what it inserted tag by tag (taxonomies.py:133-202).            *)
THEOREM Invariance == Spec => []IInv
  BY InitIInv, NextIInv, PTL DEF Spec

(* No handler moves a row to another table, organization or parent, none   *)
(* deletes an organization, a user, a membership, a case or an observable, *)
(* and what was deleted is not inserted again.                             *)
THEOREM RowsKeepTheirPlace == Spec => [][RowsStay]_vars
<1>1. IInv /\ [Next]_vars => [RowsStay]_vars
  BY NextIInv
<1> QED
  BY <1>1, Invariance, PTL DEF Spec

-----------------------------------------------------------------------------
(* Answers.  What a request read is what is there, unless somebody else    *)
(* committed since; and where it is, the constraints that the handlers     *)
(* look at before they write refuse nothing: no foreign key refers to the  *)
(* tables whose rows are deleted (LeavesAreFree), and no invitation takes  *)
(* the address of an erased user (EmailsAreOwn).                           *)
Overtaken(r) == \E s \in Requests \ {r} : began[s] # 0 /\ ended[s] > began[r]
TakenWhenRead(r) ==
  \E x \in Ids : /\ seen[r][x] # Null /\ seen[r][x].name = call[r].name
                 /\ seen[r][x].table = SayTaken[call[r].op]
OnClock ==
  clock # 0 /\ \A r \in Requests : began[r] < clock /\ (pc[r] = "write" => began[r] # 0)
ReadsAreFresh == \A r \in Requests : pc[r] = "write" => seen[r] = db \/ Overtaken(r)
LeavesAreFree ==
  \A x \in Ids : db[x] # Null =>
    \A y \in ForeignKeys(db[x]) \ {Null} : db[y].table \in Referred
EmailsAreOwn ==
  \A x \in Ids : db[x] # Null /\ db[x].table = "user" => db[x].name \in Names \cup {x}
FailuresMeet ==
  \A r \in Requests : pc[r] = "500" /\ Fits(call[r]) /\ call[r].op \notin Uncaught =>
    Overtaken(r) \/ Imports \ {r} # {}
RefusalsSaw ==
  \A r \in Requests : pc[r] = "409" /\ call[r].op \in DOMAIN SayTaken =>
    Overtaken(r) \/ TakenWhenRead(r)
Dropped(x) == \E s \in Requests : Done(s) /\ call[s].op = "deleteTaxonomy" /\ call[s].id = x
TagsAreThere ==
  \A r \in Requests : call[r].op = "importMisp" =>
    /\ \A k \in 1..Len(answer[r]) : k \in 1..MaxRows /\ answer[r][k] \in {{}, {<<r, k>>}}
    /\ \A k \in 1..MaxRows : db[<<r, k>>] # Null => db[<<r, k>>].table = "taxonomy"
    /\ Done(r) => \A k \in Staged(r) : db[<<r, k>>] # Null \/ Dropped(<<r, k>>)
AnswerIInv ==
  /\ OnClock /\ ReadsAreFresh /\ LeavesAreFree /\ EmailsAreOwn
  /\ FailuresMeet /\ RefusalsSaw /\ TagsAreThere

LEMMA AnswerIInvImplies == IInv /\ AnswerIInv => AnswersAreTrue
<1> SUFFICES ASSUME IInv, AnswerIInv, NEW r \in Requests
             PROVE  /\ pc[r] = "500" /\ Fits(call[r]) /\ call[r].op \notin Uncaught =>
                         Beside(r) # {}
                    /\ pc[r] = "409" /\ call[r].op \in DOMAIN SayTaken =>
                         Beside(r) # {} \/ TakenWhenRead(r)
                    /\ Done(r) /\ call[r].op = "importMisp" =>
                         \A k \in Counted(r) :
                           \/ \E j \in k..Len(answer[r]) : answer[r][j] = {}
                           \/ db[<<r, k>>] # Null \/ Dropped(<<r, k>>)
  BY DEF AnswersAreTrue, TakenWhenRead, Dropped
<1> USE DEF AnswerIInv
<1>1. Overtaken(r) => Beside(r) # {}
  BY DEF Overtaken, Beside
<1>2. \A q \in Imports : began[q] # 0
  BY DEF Imports, OnClock
<1>3. Imports \ {r} # {} => Beside(r) # {}
  BY <1>2 DEF Imports, Beside
<1>4. pc[r] = "500" /\ Fits(call[r]) /\ call[r].op \notin Uncaught => Beside(r) # {}
  BY <1>1, <1>3 DEF FailuresMeet
<1>5. ASSUME Done(r), call[r].op = "importMisp", NEW k \in Counted(r),
             \A j \in k..Len(answer[r]) : answer[r][j] # {}
      PROVE  db[<<r, k>>] # Null \/ Dropped(<<r, k>>)
  <2>1. k \in 1..Len(answer[r])
    BY DEF Counted
  <2>2. \A j \in k..Len(answer[r]) : answer[r][j] = {<<r, j>>}
    BY <1>5, <2>1 DEF TagsAreThere
  <2>3. k \in Staged(r)
    BY <2>1, <2>2 DEF Staged
  <2> QED
    BY <1>5, <2>3 DEF TagsAreThere
<1> QED
  BY <1>1, <1>4, <1>5 DEF RefusalsSaw

(* What the step of a handler may be: a refusal that is excused, a commit  *)
(* of rows that keep to what is allowed, a tag of an import.               *)
Linked == IInv /\ LeavesAreFree /\ EmailsAreOwn
Unasked(r) == call[r].op # "importMisp"
Excused(r, code) ==
  /\ code = "500" /\ Fits(call[r]) /\ call[r].op \notin Uncaught =>
       seen[r] # db \/ Imports \ {r} # {}
  /\ code = "409" /\ call[r].op \in DOMAIN SayTaken => seen[r] # db \/ TakenWhenRead(r)
  /\ Unasked(r) \/ Imports \ {r} # {}
Links(row, rows) == \A y \in ForeignKeys(row) \ {Null} : rows[y].table \in Referred
Emailed(row, x) == row.table = "user" => row.name \in Names \cup {x}
Allowed(r, rows) ==
  /\ \A x \in Ids : rows[x] # Null => Links(rows[x], rows) /\ Emailed(rows[x], x)
  /\ \A x \in Ids : db[x] # Null /\ db[x].table = "taxonomy" /\ rows[x] = Null =>
       call[r].op = "deleteTaxonomy" /\ call[r].id = x
  /\ ~Unasked(r) =>
       /\ \A k \in 1..MaxRows : rows[<<r, k>>] # Null => rows[<<r, k>>].table = "taxonomy"
       /\ \A k \in Staged(r) : rows[<<r, k>>] # Null
Told(r) ==
  \/ \E code \in Codes : Refuse(r, code) /\ Excused(r, code)
  \/ \E rows : Commit(r, rows) /\ Allowed(r, rows)
  \/ ImportTag(r)
  \/ GiveUp(r) /\ ~Fits(call[r])

LEMMA RefuseTells ==
  ASSUME NEW r \in Requests, Unasked(r), NEW code \in Codes \ {"500"}, Refuse(r, code),
         code = "409" => call[r].op \notin DOMAIN SayTaken
  PROVE  Told(r)
  BY DEF Told, Excused
LEMMA SameTells ==
  ASSUME Linked, NEW r \in Requests, Unasked(r), Commit(r, db)
  PROVE  Told(r)
<1>1. \A x \in Ids : db[x] # Null => Links(db[x], db) /\ Emailed(db[x], x)
  BY DEF Linked, LeavesAreFree, EmailsAreOwn, Links, Emailed
<1>2. Allowed(r, db)
  BY <1>1 DEF Allowed
<1> QED
  BY <1>2 DEF Told

(* What a foreign key of a row may name, and what it names once the row is *)
(* committed.                                                              *)
Found(r, y) ==
  y \in Orgs \cup Callers \/ (y \in Ids /\ seen[r][y] # Null /\ seen[r][y].table \in Referred)
LEMMA FoundRows ==
  ASSUME IInv, NEW r \in Requests, pc[r] = "write", RowsStay, NEW y, Found(r, y)
  PROVE  /\ y \in Ids
         /\ seen[r] = db => db[y] # Null
         /\ db[y] # Null => db[y].table \in Referred
         /\ db'[y] # Null => db[y] # Null /\ db'[y].table \in Referred
<1>1. CASE y \in Orgs \cup Callers
  <2>1. y \in Ids /\ db[y] # Null /\ db[y].table \in Referred
    BY <1>1, OrgIds DEF IInv, PlacesStay, Referred
  <2> QED
    BY <2>1 DEF RowsStay, Follows, SamePlace
<1>2. CASE y \in Ids /\ seen[r][y] # Null /\ seen[r][y].table \in Referred
  <2>1. /\ db[y] # Null => db[y].table \in Referred
        /\ \A q \in Requests, k \in 1..MaxRows : y = <<q, k>> => pc[q] = "200"
    BY <1>2 DEF IInv, PlacesStay, Follows, SamePlace
  <2> QED
    BY <1>2, <2>1 DEF RowsStay, Follows, SamePlace
<1> QED
  BY <1>1, <1>2 DEF Found

Points(r, S, new, x) ==
  \A y \in ForeignKeys(new[x]) \ {Null} :
    \/ Found(r, y)
    \/ y \in S /\ new[y].table \in Referred
    \/ db[x] # Null /\ y \in ForeignKeys(db[x])
(* An INSERT that keeps to this, and whose rows are like no others if what *)
(* was read is what is there.                                              *)
LEMMA InsertTells ==
  ASSUME Linked, NEW r \in Requests, pc[r] = "write", RowsStay, Unasked(r),
         NEW S \in SUBSET Ids, NEW new \in [S -> Row], NEW clash \in {"409", "500"},
         \A x \in S : Points(r, S, new, x) /\ Emailed(new[x], x),
         seen[r] = db => \/ \A x \in S : Unlike(With(new), x)
                         \/ clash = "500" /\ call[r].op \in Uncaught
                         \/ clash = "409" /\ TakenWhenRead(r),
         Insert(r, new, clash)
  PROVE  Told(r)
<1> DEFINE rows == With(new)
<1>1. \A x \in Ids : rows[x] = (IF x \in S THEN new[x] ELSE db[x])
  BY DEF With
<1>2. \A x \in S : rows[x] # Null
  BY <1>1, NullOut
<1>3. \A x \in Ids : db[x] # Null => rows[x] # Null
  BY <1>1, <1>2
<1>4. \/ \A x \in S : Unlike(rows, x) /\ Refers(rows, x)
      \/ Refuse(r, clash) \/ (Refuse(r, "500") /\ ~Fits(call[r]))
  BY DEF Insert
<1>5. \/ \E x \in S : ~Unlike(rows, x) \/ ~Refers(rows, x)
      \/ Commit(r, rows) \/ (Refuse(r, "500") /\ ~Fits(call[r]))
  BY DEF Insert
<1>9. CASE Refuse(r, "500") /\ ~Fits(call[r])
  BY <1>9 DEF Told, Excused, Codes
<1> HIDE DEF rows
<1>6. ASSUME seen[r] = db, NEW x \in S
      PROVE  Refers(rows, x)
  <2> SUFFICES ASSUME NEW y \in ForeignKeys(rows[x]) \ {Null}
               PROVE  y \in Ids /\ rows[y] # Null
    BY DEF Refers
  <2>1. y \in ForeignKeys(new[x]) \ {Null} /\ x \in Ids
    BY <1>1
  <2>2. CASE Found(r, y)
    BY <1>3, <1>6, <2>2, FoundRows DEF Linked
  <2>3. CASE y \in S
    BY <1>2, <2>3
  <2>4. CASE db[x] # Null /\ y \in ForeignKeys(db[x])
    BY <1>3, <2>1, <2>4 DEF Linked, IInv, Consistent, References, Refers
  <2> QED
    BY <2>1, <2>2, <2>3, <2>4 DEF Points
<1>7. CASE Refuse(r, clash) /\ \E x \in S : ~Unlike(rows, x) \/ ~Refers(rows, x)
  <2>1. Excused(r, clash)
    BY <1>6, <1>7 DEF Excused, rows
  <2> QED
    BY <1>7, <2>1 DEF Told, Codes
<1>8. CASE Commit(r, rows) /\ \A x \in S : Unlike(rows, x) /\ Refers(rows, x)
  <2>1. db' = rows
    BY <1>8 DEF Commit
  <2>2. ASSUME NEW x \in Ids, rows[x] # Null, NEW y \in ForeignKeys(rows[x]) \ {Null}
        PROVE  rows[y].table \in Referred
    <3>1. CASE x \in S
      <4>1. y \in ForeignKeys(new[x]) /\ y \in Ids /\ rows[y] # Null
        BY <1>1, <1>8, <2>2, <3>1 DEF Refers
      <4>2. CASE Found(r, y)
        BY <2>1, <4>1, <4>2, FoundRows DEF Linked
      <4>3. CASE y \in S /\ new[y].table \in Referred
        BY <1>1, <4>1, <4>3
      <4>4. CASE db[x] # Null /\ y \in ForeignKeys(db[x])
        <5>1. db[y] # Null /\ db[y].table \in Referred
          BY <2>2, <4>1, <4>4 DEF Linked, LeavesAreFree, IInv, Consistent, References, Refers
        <5> QED
          BY <2>1, <4>1, <5>1 DEF RowsStay, Follows, SamePlace
      <4> QED
        BY <2>2, <3>1, <4>1, <4>2, <4>3, <4>4 DEF Points
    <3>2. CASE x \notin S
      <4>1. rows[x] = db[x] /\ db[x] # Null
        BY <1>1, <2>2, <3>2
      <4>2. y \in Ids /\ db[y] # Null /\ db[y].table \in Referred
        BY <2>2, <4>1 DEF Linked, LeavesAreFree, IInv, Consistent, References, Refers
      <4> QED
        BY <1>3, <2>1, <4>2 DEF RowsStay, Follows, SamePlace
    <3> QED
      BY <3>1, <3>2
  <2>3. \A x \in Ids : rows[x] # Null => Emailed(rows[x], x)
    BY <1>1 DEF Linked, EmailsAreOwn, Emailed
  <2>4. Allowed(r, rows)
    BY <1>3, <2>2, <2>3 DEF Allowed, Links
  <2> QED
    BY <1>8, <2>4 DEF Told
<1> QED
  BY <1>4, <1>5, <1>7, <1>8, <1>9

(* Rows that keep what is unique about them are like no others.            *)
LEMMA KeyColumns ==
  /\ \A t \in DOMAIN UniqueOn : UniqueOn[t] \subseteq {"org", "under", "name"}
  /\ "name" \notin UniqueOn["mfa"] /\ "name" \notin UniqueOn["member"]
  BY DEF UniqueOn
KeepsKey(x, row) ==
  /\ db[x] # Null /\ SamePlace(db[x], row)
  /\ row.name = db[x].name \/ row.table \in {"mfa", "member"}
LEMMA KeysStay ==
  ASSUME NEW x, NEW y, NEW a, NEW b, KeepsKey(x, a), KeepsKey(y, b), SameKey(a, b)
  PROVE  SameKey(db[x], db[y])
<1>1. /\ a.table = b.table /\ a.table \in DOMAIN UniqueOn
      /\ \A column \in UniqueOn[a.table] : a[column] = b[column]
  BY DEF SameKey
<1>2. /\ db[x].table = a.table /\ db[y].table = b.table
      /\ db[x]["org"] = a["org"] /\ db[x]["under"] = a["under"]
      /\ db[y]["org"] = b["org"] /\ db[y]["under"] = b["under"]
      /\ "name" \in UniqueOn[a.table] => db[x]["name"] = a["name"] /\ db[y]["name"] = b["name"]
  BY <1>1, KeyColumns DEF KeepsKey, SamePlace
<1>3. \A column \in UniqueOn[a.table] : db[x][column] = db[y][column]
  BY <1>1, <1>2, KeyColumns
<1> QED
  BY <1>1, <1>2, <1>3 DEF SameKey
LEMMA KeptAreUnlike ==
  ASSUME IInv, NEW S \in SUBSET Ids, NEW new \in [S -> Row],
         \A x \in S : \/ new[x].table \notin DOMAIN UniqueOn \/ KeepsKey(x, new[x])
                      \/ Unlike(With(new), x),
         NEW x \in S
  PROVE  Unlike(With(new), x)
<1> DEFINE rows == With(new)
<1>1. \A y \in Ids : rows[y] = (IF y \in S THEN new[y] ELSE db[y])
  BY DEF With
<1> HIDE DEF rows
<1> SUFFICES ASSUME NEW y \in Ids \ {x}, rows[y] # Null, SameKey(rows[x], rows[y]), x \in Ids
             PROVE  FALSE
  BY DEF Unlike, rows
<1>2. SameKey(rows[y], rows[x])
  BY Symmetric
<1>3. rows[x].table \in DOMAIN UniqueOn /\ rows[y].table \in DOMAIN UniqueOn
  BY <1>2 DEF SameKey
<1>4. rows[x] = new[x] /\ (KeepsKey(x, new[x]) \/ Unlike(rows, x))
  BY <1>1, <1>3 DEF rows
<1>5. ~Unlike(rows, x)
  BY DEF Unlike
<1>6. KeepsKey(y, rows[y])
  <2>1. CASE y \in S
    <3>1. ~Unlike(rows, y)
      BY <1>1, <1>2, NullOut DEF Unlike
    <3>2. rows[y] = new[y]
      BY <1>1, <2>1
    <3> QED
      BY <1>3, <2>1, <3>1, <3>2 DEF rows
  <2>2. CASE y \notin S
    BY <1>1, <2>2 DEF KeepsKey, SamePlace
  <2> QED
    BY <2>1, <2>2
<1>7. SameKey(db[x], db[y]) /\ db[x] # Null /\ db[y] # Null
  BY <1>4, <1>5, <1>6, KeysStay DEF KeepsKey
<1> QED
  BY <1>7 DEF IInv, Consistent, NoDuplicates, Unlike, SameKey

(* What an UPDATE makes of a row: its place, its author, and but for what  *)
(* it sets its name.                                                       *)
LEMMA UpdatedKeeps ==
  ASSUME IInv, NEW r \in Requests, NEW x \in Ids, db[x] # Null, NEW columns, Typed(columns)
  PROVE  LET row == Updated(r, x, columns)
         IN  /\ row \in Row /\ SamePlace(db[x], row) /\ row.by = db[x].by
             /\ row.name = db[x].name \/ ("name" \in DOMAIN columns /\ row.name = columns["name"])
<1>1. db[x] \in Row
  BY DEF IInv, TypeOK
<1>2. Updated(r, x, columns).by = db[x].by
  BY <1>1 DEF Updated, Row
<1>3. Updated(r, x, columns).name = Column(r, x, columns, "name")
  BY <1>1 DEF Updated, Row
<1> QED
  BY <1>1, <1>2, <1>3, UpdatedType DEF IInv, Follows, Column, Sent
(* Columns that name nobody else: no name, a name that is not unique, or   *)
(* one that is where nobody catches the error.                             *)
Renames(r, columns, table) ==
  \/ "name" \notin DOMAIN columns
  \/ table = "mfa"
  \/ table = "member" /\ Found(r, columns["name"])
  \/ table \in {"profile", "organization"} /\ call[r].op \in Uncaught
LEMMA UpdatedLinks ==
  ASSUME Linked, NEW r \in Requests, NEW x \in Ids, db[x] # Null, NEW columns, Typed(columns),
         Renames(r, columns, db[x].table)
  PROVE  LET row == Updated(r, x, columns)
         IN  /\ \A y \in ForeignKeys(row) \ {Null} : Found(r, y) \/ y \in ForeignKeys(db[x])
             /\ Emailed(row, x)
             /\ KeepsKey(x, row) \/ call[r].op \in Uncaught
<1> DEFINE row == Updated(r, x, columns)
<1>1. /\ row \in Row /\ SamePlace(db[x], row) /\ row.by = db[x].by
      /\ row.name = db[x].name \/ ("name" \in DOMAIN columns /\ row.name = columns["name"])
  BY UpdatedKeeps DEF Linked
<1> HIDE DEF row
<1>2. \A y \in ForeignKeys(row) \ {Null} : Found(r, y) \/ y \in ForeignKeys(db[x])
  BY <1>1 DEF ForeignKeys, SamePlace, Renames
<1>3. Emailed(row, x)
  BY <1>1 DEF Emailed, SamePlace, Renames, Linked, EmailsAreOwn
<1>4. KeepsKey(x, row) \/ call[r].op \in Uncaught
  BY <1>1 DEF KeepsKey, SamePlace, Renames
<1> QED
  BY <1>2, <1>3, <1>4 DEF row
LEMMA UpdateTells ==
  ASSUME Linked, NEW r \in Requests, pc[r] = "write", RowsStay, Unasked(r),
         NEW x \in Ids, NEW columns, Typed(columns), NEW table, Renames(r, columns, table),
         Sees(r, x, table) \/ (x \in Callers /\ table = "user"), Update(r, x, columns)
  PROVE  Told(r)
<1> DEFINE S == {z \in {x} : db[z] # Null}
           new == [y \in S |-> Updated(r, y, columns)]
<1>1. /\ db[x] # Null => db[x].table = table
      /\ seen[r] = db => db[x] # Null
  BY SeenStays DEF Linked, Sees, IInv, PlacesStay
<1>2. CASE Refuse(r, "500") /\ db[x] = Null
  <2>1. Excused(r, "500")
    BY <1>1, <1>2 DEF Excused
  <2> QED
    BY <1>2, <2>1 DEF Told, Codes
<1>3. CASE Insert(r, new, "500")
  <2>1. \A y \in S : y = x /\ db[x] # Null /\ Updated(r, x, columns) \in Row
    BY UpdatedType DEF Linked, IInv
  <2>2. new \in [S -> Row] /\ S \in SUBSET Ids /\ \A y \in S : new[y] = Updated(r, y, columns)
    BY <2>1
  <2> HIDE DEF new, S
  <2>3. \A y \in S : Points(r, S, new, y) /\ Emailed(new[y], y)
    BY <1>1, <2>1, <2>2, UpdatedLinks DEF Points
  <2>4. \A y \in S : KeepsKey(y, new[y]) \/ call[r].op \in Uncaught
    BY <1>1, <2>1, <2>2, UpdatedLinks
  <2>5. call[r].op \in Uncaught \/ \A y \in S : Unlike(With(new), y)
    BY <2>2, <2>4, KeptAreUnlike DEF Linked
  <2> QED
    BY <1>3, <2>2, <2>3, <2>5, InsertTells
<1> QED
  BY <1>2, <1>3 DEF Update

(* A DELETE of a row that no foreign key may name.                         *)
LEMMA DeleteTells ==
  ASSUME Linked, NEW r \in Requests, pc[r] = "write", RowsStay, Unasked(r),
         NEW x \in Ids, NEW table, Sees(r, x, table), table \notin Referred \/ call[r].op \in Uncaught,
         table = "taxonomy" => call[r].op = "deleteTaxonomy" /\ call[r].id = x,
         Delete(r, x)
  PROVE  Told(r)
<1> DEFINE rows == With([y \in {x} |-> Null])
<1>1. /\ db[x] # Null => db[x].table = table
      /\ seen[r] = db => db[x] # Null
      /\ x # Null
  BY SeenStays, NullOut DEF Linked, Sees
<1>2. CASE Refuse(r, "500") /\ \E y \in Ids \ {x} : db[y] # Null /\ x \in ForeignKeys(db[y])
  <2>1. db[x].table \in Referred
    BY <1>1, <1>2 DEF Linked, LeavesAreFree
  <2>2. Excused(r, "500")
    BY <1>1, <2>1 DEF Excused
  <2> QED
    BY <1>2, <2>2 DEF Told, Codes
<1>3. CASE Commit(r, rows) /\ \A y \in Ids \ {x} : db[y] # Null => x \notin ForeignKeys(db[y])
  <2>1. \A y \in Ids : rows[y] = (IF y = x THEN Null ELSE db[y])
    BY DEF With
  <2> HIDE DEF rows
  <2>2. \A y \in Ids : rows[y] # Null => Links(rows[y], rows) /\ Emailed(rows[y], y)
    <3> SUFFICES ASSUME NEW y \in Ids, rows[y] # Null
                 PROVE  Links(rows[y], rows) /\ Emailed(rows[y], y)
      OBVIOUS
    <3>1. rows[y] = db[y] /\ db[y] # Null /\ y # x
      BY <2>1
    <3>2. \A z \in ForeignKeys(db[y]) \ {Null} : z \in Ids /\ z # x /\ db[z].table \in Referred
      BY <1>3, <3>1 DEF Linked, LeavesAreFree, IInv, Consistent, References, Refers
    <3> QED
      BY <2>1, <3>1, <3>2 DEF Links, Emailed, Linked, EmailsAreOwn
  <2>3. Allowed(r, rows)
    BY <1>1, <2>1, <2>2 DEF Allowed
  <2> QED
    BY <1>3, <2>3 DEF Told
<1> QED
  BY <1>2, <1>3 DEF Delete

(* What a new row refers to.                                               *)
LEMMA SoleLinks ==
  ASSUME NEW r \in Requests, NEW table, NEW org, NEW under, NEW name, NEW state, NEW by,
         org = Null \/ Found(r, org), under = Null \/ Found(r, under), by = Null \/ Found(r, by),
         table \in {"member", "sharing"} => Found(r, name)
  PROVE  \A y \in ForeignKeys(Sole(r, table, org, under, name, state, by)) \ {Null} : Found(r, y)
  BY DEF ForeignKeys, Sole
LEMMA TakenNames ==
  \A table \in {"kb", "template", "taxonomy", "case_ttp", "case_page"} :
    table \in DOMAIN UniqueOn /\ "name" \in UniqueOn[table]
  BY DEF UniqueOn
(* One new row, which is unlike others if what was read is what is there,  *)
(* or whose refusal is an answer that its name is taken.                   *)
LEMMA SoleTells ==
  ASSUME Linked, NEW r \in Requests, pc[r] = "write", RowsStay, Unasked(r),
         NEW table \in TableNames \ {"user", "member"}, NEW org, NEW under, NEW name, NEW state,
         NEW by, NEW clash \in {"409", "500"},
         org = Null \/ Found(r, org), under = Null \/ Found(r, under), by = Null \/ Found(r, by),
         table = "sharing" => Found(r, name),
         Sole(r, table, org, under, name, state, by) \in Row,
         clash = "409" => /\ call[r].op \in DOMAIN SayTaken /\ table = SayTaken[call[r].op]
                          /\ name = call[r].name
                          /\ table \in {"kb", "template", "taxonomy", "case_ttp", "case_page"},
         clash = "500" =>
           \/ call[r].op \in Uncaught \/ table \notin DOMAIN UniqueOn
           \/ \A y \in Ids : seen[r][y] # Null =>
                ~SameKey(Sole(r, table, org, under, name, state, by), seen[r][y]),
         InsertOne(r, Sole(r, table, org, under, name, state, by), clash)
  PROVE  Told(r)
<1> DEFINE row == Sole(r, table, org, under, name, state, by)
           S == {<<r, 1>>}
           new == [x \in S |-> row]
<1>1. row.table = table /\ row["name"] = name /\ row \in Row
  BY DEF Sole
<1>2. \A y \in ForeignKeys(row) \ {Null} : Found(r, y)
  BY SoleLinks
<1>3. Insert(r, new, clash)
  BY DEF InsertOne
<1>4. table \notin DOMAIN UniqueOn => \A b : ~SameKey(row, b)
  BY <1>1 DEF SameKey
<1> HIDE DEF row
<1>5. /\ new \in [S -> Row] /\ S \in SUBSET Ids /\ <<r, 1>> \in S
      /\ \A x \in S : x = <<r, 1>> /\ new[x] = row
  BY <1>1, NewIds
<1>6. \A y \in Ids : With(new)[y] = (IF y \in S THEN row ELSE db[y])
  BY <1>5 DEF With
<1> HIDE DEF new, S
<1>7. \A x \in S : Points(r, S, new, x) /\ Emailed(new[x], x)
  BY <1>1, <1>2, <1>5 DEF Points, Emailed
<1>8. ASSUME seen[r] = db, ~(call[r].op \in Uncaught /\ clash = "500"),
             NEW x \in S, ~Unlike(With(new), x)
      PROVE  clash = "409" /\ TakenWhenRead(r)
  <2>1. PICK y \in Ids : db[y] # Null /\ SameKey(row, db[y])
    BY <1>5, <1>6, <1>8 DEF Unlike
  <2>2. clash = "409"
    BY <1>4, <1>8, <2>1 DEF row
  <2>3. "name" \in UniqueOn[row.table]
    BY <1>1, <2>2, TakenNames
  <2>4. db[y]["name"] = name /\ db[y].table = table
    BY <1>1, <2>1, <2>3 DEF SameKey
  <2>5. db[y].name = call[r].name /\ db[y].table = SayTaken[call[r].op]
    BY <2>2, <2>4
  <2> QED
    BY <1>8, <2>1, <2>2, <2>5 DEF TakenWhenRead
<1> QED
  BY <1>3, <1>5, <1>7, <1>8, InsertTells

(* Who asks, and for which organization.                                   *)
LEMMA Askers ==
  ASSUME NEW r
  PROVE  /\ \A u \in Callers : Found(r, u) /\ u \in Ids
         /\ \A o \in Orgs : Found(r, o) /\ o \in Ids
         /\ \A x \in Ids, table \in Referred : Sees(r, x, table) => Found(r, x)
         /\ \A x \in Ids, table \in Referred : SeesOwn(r, x, table) => Found(r, x)
  BY OrgIds DEF Found, Sees, SeesOwn
LEMMA PlainColumns ==
  ASSUME NEW r
  PROVE  \A table : /\ \A s : Renames(r, [state |-> s], table)
                    /\ Renames(r, [gone |-> TRUE], table)
                    /\ \A t : Renames(r, [at |-> t], table)
                    /\ \A s, t : Renames(r, [state |-> s, at |-> t], table)
  BY DEF Renames
LEMMA HandlerCalls ==
  ASSUME Linked, NEW r \in Requests, NEW op, Of(r, op)
  PROVE  /\ pc[r] = "write" /\ call[r] \in Calls /\ call[r].op = op
         /\ op # "importMisp" => Unasked(r)
  BY WriterCalls DEF Linked, IInv, Unasked

(* Users and invitations.                                                  *)
LEMMA InviteUserTells ==
  ASSUME Linked, NEW r \in Requests, RowsStay, InviteUser(r)
  PROVE  Told(r)
<1> DEFINE c == call[r]
           S == {<<r, 1>>, <<r, 2>>}
           user == Sole(r, "user", Null, Null, c.email, "pending_invite", Null)
           member == Sole(r, "member", c.org, <<r, 1>>, c.profile, "", Null)
           new == [x \in S |-> IF x = <<r, 1>> THEN user ELSE member]
<1>1. pc[r] = "write" /\ call[r] \in Calls /\ call[r].op = "invite" /\ Unasked(r)
  <2>1. Of(r, "invite")
    BY DEF InviteUser
  <2> QED
    BY <2>1, HandlerCalls
<1>2. c.org \in Orgs /\ c.email \in Names /\ c.profile \in Ids /\ c.org \in Ids
  BY <1>1, AccountCallShape, OrgIds
<1>3. CASE Refuse(r, "409") \/ Refuse(r, "400")
  BY <1>1, <1>3, RefuseTells DEF Codes, SayTaken
<1>4. CASE /\ ~\E u \in Ids : Sees(r, u, "user") /\ seen[r][u].name = c.email
           /\ SeesOwn(r, c.profile, "profile") /\ Insert(r, new, "500")
  <2>1. user \in Row /\ user.table = "user" /\ user["name"] = c.email /\ ForeignKeys(user) = {Null}
    <3>1. user \in Row
      BY <1>2, SoleType, TableMembers, StatesAssumption DEF Linked, IInv
    <3> QED
      BY <3>1 DEF Sole, ForeignKeys
  <2>2. /\ member \in Row /\ member.table = "member" /\ member["under"] = <<r, 1>>
        /\ ForeignKeys(member) = {c.org, <<r, 1>>, Null, c.profile}
    <3>1. member \in Row
      BY <1>2, SoleType, TableMembers, StatesAssumption, NewIds DEF Linked, IInv
    <3> QED
      BY <3>1 DEF Sole, ForeignKeys
  <2> HIDE DEF user, member
  <2>3. /\ new \in [S -> Row] /\ S \in SUBSET Ids /\ <<r, 1>> \in S /\ <<r, 2>> \in S
        /\ new[<<r, 1>>] = user /\ new[<<r, 2>>] = member /\ <<r, 1>> # <<r, 2>>
        /\ \A x \in S : x \in {<<r, 1>>, <<r, 2>>}
    BY <2>1, <2>2, NewIds
  <2>4. \A y \in Ids : With(new)[y] = (IF y \in S THEN new[y] ELSE db[y])
    BY <2>3 DEF With
  <2> HIDE DEF new, S
  <2>5. Points(r, S, new, <<r, 1>>) /\ Emailed(new[<<r, 1>>], <<r, 1>>)
    BY <1>2, <2>1, <2>3 DEF Points, Emailed
  <2>6. Points(r, S, new, <<r, 2>>) /\ Emailed(new[<<r, 2>>], <<r, 2>>)
    <3>1. Found(r, c.org) /\ Found(r, c.profile)
      BY <1>2, <1>4, Askers DEF Referred
    <3> QED
      BY <2>1, <2>2, <2>3, <3>1 DEF Points, Emailed, Referred
  <2>7. ~SameKey(user, member) /\ ~SameKey(member, user)
    BY <2>1, <2>2 DEF SameKey
  <2>8. ASSUME seen[r] = db, NEW y \in Ids, db[y] # Null
        PROVE  ~SameKey(user, db[y]) /\ ~SameKey(member, db[y])
    <3>1. "name" \in UniqueOn["user"] /\ "under" \in UniqueOn["member"]
      BY DEF UniqueOn
    <3>2. ~SameKey(user, db[y])
      <4>1. SameKey(user, db[y]) => db[y].table = "user" /\ db[y]["name"] = c.email
        BY <2>1, <3>1 DEF SameKey
      <4> QED
        BY <1>4, <2>8, <4>1 DEF Sees
    <3>3. ~SameKey(member, db[y])
      <4>1. SameKey(member, db[y]) => db[y]["under"] = <<r, 1>>
        BY <2>2, <3>1 DEF SameKey
      <4>2. db[<<r, 1>>] = Null /\ <<r, 1>> # Null
        BY <1>1, NewIds, NullOut DEF Linked, IInv, PlacesStay
      <4>3. db[y].under = <<r, 1>> => db[<<r, 1>>] # Null
        BY <2>8, <4>2 DEF Linked, IInv, Consistent, References, Refers, ForeignKeys
      <4> QED
        BY <4>1, <4>2, <4>3
    <3> QED
      BY <3>2, <3>3
  <2>9. seen[r] = db => \A x \in S : Unlike(With(new), x)
    <3> SUFFICES ASSUME seen[r] = db, NEW x \in S, NEW y \in Ids \ {x}, With(new)[y] # Null
                 PROVE  ~SameKey(With(new)[x], With(new)[y])
      BY DEF Unlike
    <3>1. x \in Ids /\ With(new)[x] \in {user, member} /\ (With(new)[x] = user <=> x = <<r, 1>>)
      BY <2>1, <2>2, <2>3, <2>4
    <3>2. CASE y \in S
      BY <2>3, <2>4, <2>7, <3>1, <3>2
    <3>3. CASE y \notin S
      BY <2>4, <2>8, <3>1, <3>3
    <3> QED
      BY <3>2, <3>3
  <2>10. \A x \in S : Points(r, S, new, x) /\ Emailed(new[x], x)
    BY <2>3, <2>5, <2>6
  <2> QED
    BY <1>1, <1>4, <2>3, <2>9, <2>10, InsertTells
<1> QED
  BY <1>3, <1>4 DEF InviteUser

LEMMA PatchUserTells ==
  ASSUME Linked, NEW r \in Requests, RowsStay, PatchUser(r)
  PROVE  Told(r)
<1> DEFINE c == call[r]
           mine == Membership(seen[r], c.id, c.org)
<1>1. pc[r] = "write" /\ call[r] \in Calls /\ call[r].op = "patchUser" /\ Unasked(r)
  BY HandlerCalls DEF PatchUser
<1>2. /\ c.profile \in Ids \cup {Null}
      /\ \A m \in mine : m \in Ids /\ Sees(r, m, "member")
  BY <1>1, AccountCallShape DEF Membership, Sees
<1>3. CASE Refuse(r, "404") \/ Refuse(r, "400")
  BY <1>1, <1>3, RefuseTells DEF Codes
<1>4. CASE Commit(r, db)
  BY <1>1, <1>4, SameTells
<1>5. CASE /\ c.profile # Null /\ SeesOwn(r, c.profile, "profile")
           /\ \E m \in mine : Update(r, m, [name |-> c.profile])
  <2>1. Found(r, c.profile) /\ c.profile \in Ids
    BY <1>2, <1>5, Askers DEF Referred
  <2>2. Renames(r, [name |-> c.profile], "member") /\ Typed([name |-> c.profile])
    BY <2>1, TypedColumns DEF Renames
  <2> QED
    BY <1>1, <1>2, <1>5, <2>2, UpdateTells
<1>6. CASE Refuse(r, "500") /\ ~Fits(call[r])
  BY <1>1, <1>6 DEF Told, Excused, Codes
<1> QED
  BY <1>3, <1>4, <1>5, <1>6 DEF PatchUser

LEMMA OnUserTells ==
  ASSUME Linked, NEW r \in Requests, RowsStay, pc[r] = "write", Unasked(r), call[r].id \in Ids,
         NEW columns, Typed(columns), "name" \notin DOMAIN columns, OnUser(r, columns)
  PROVE  Told(r)
<1>1. CASE Refuse(r, "404")
  BY <1>1, RefuseTells DEF Codes
<1>2. CASE Sees(r, call[r].id, "user") /\ Update(r, call[r].id, columns)
  BY <1>2, UpdateTells DEF Renames
<1> QED
  BY <1>1, <1>2 DEF OnUser
LEMMA UserStatesTell ==
  ASSUME Linked, NEW r \in Requests, RowsStay,
         DeleteUser(r) \/ LockUser(r) \/ UnlockUser(r) \/ AcceptInvite(r)
  PROVE  Told(r)
<1>1. CASE DeleteUser(r)
  <2>1. pc[r] = "write" /\ call[r] \in Calls /\ call[r].op = "deleteUser" /\ Unasked(r)
    BY <1>1, HandlerCalls DEF DeleteUser
  <2>2. call[r].id \in Ids
    BY <2>1, AccountCallShape
  <2> QED
    BY <1>1, <2>1, <2>2, RefuseTells, OnUserTells, TypedColumns DEF DeleteUser, Codes
<1>2. CASE LockUser(r)
  <2>1. pc[r] = "write" /\ call[r] \in Calls /\ call[r].op = "lock" /\ Unasked(r)
    BY <1>2, HandlerCalls DEF LockUser
  <2> QED
    BY <1>2, <2>1, AccountCallShape, OnUserTells, TypedColumns, StatesAssumption DEF LockUser
<1>3. CASE UnlockUser(r)
  <2>1. pc[r] = "write" /\ call[r] \in Calls /\ call[r].op = "unlock" /\ Unasked(r)
    BY <1>3, HandlerCalls DEF UnlockUser
  <2> QED
    BY <1>3, <2>1, AccountCallShape, OnUserTells, TypedColumns, StatesAssumption DEF UnlockUser
<1>4. CASE AcceptInvite(r)
  <2>1. pc[r] = "write" /\ call[r] \in Calls /\ call[r].op = "accept" /\ Unasked(r)
    BY <1>4, HandlerCalls DEF AcceptInvite
  <2>2. call[r].id \in Ids /\ Typed([state |-> "active"])
    BY <2>1, AccountCallShape, TypedColumns, StatesAssumption
  <2>3. CASE Refuse(r, "400")
    BY <2>1, <2>3, RefuseTells DEF Codes
  <2>4. CASE MayAccept(r, call[r].id) /\ Update(r, call[r].id, [state |-> "active"])
    BY <2>1, <2>2, <2>4, UpdateTells, PlainColumns DEF MayAccept
  <2> QED
    BY <1>4, <2>3, <2>4 DEF AcceptInvite
<1> QED
  BY <1>1, <1>2, <1>3, <1>4

(* Second factors, profiles, organizations, keys, and erasure.             *)
LEMMA MfaTells ==
  ASSUME Linked, NEW r \in Requests, RowsStay,
         MfaEnroll(r) \/ MfaConfirm(r) \/ MfaDisable(r) \/ MfaRegenerate(r) \/ AdminResetMfa(r)
  PROVE  Told(r)
<1>1. /\ "mfa" \notin Referred /\ "mfa" # "taxonomy"
      /\ \A op \in {"enroll", "confirm", "disable", "regenerate"} : op \notin DOMAIN SayTaken
  BY DEF Referred, SayTaken
<1>2. \A u : \A m \in SecretOf(r, u) : m \in Ids /\ Sees(r, m, "mfa")
  BY DEF SecretOf
<1>3. \A u : \A m \in Confirmed(r, u) : m \in Ids /\ Sees(r, m, "mfa")
  BY <1>2 DEF Confirmed
<1>4. began[r] \in Nat
  BY DEF Linked, IInv, TypeOK
<1>5. CASE MfaEnroll(r)
  <2> DEFINE u == call[r].user
             row == Sole(r, "mfa", Null, u, r, "enrolling", u)
             columns == [name |-> r, state |-> "enrolling"]
  <2>1. pc[r] = "write" /\ call[r] \in Calls /\ call[r].op = "enroll" /\ Unasked(r)
    BY <1>5, HandlerCalls DEF MfaEnroll
  <2>2. u \in Callers /\ u \in Ids /\ Found(r, u)
    BY <2>1, AccountCallShape, Askers
  <2>3. row \in Row
    BY <2>2, SoleType, TableMembers, StatesAssumption DEF Linked, IInv
  <2>4. Typed(columns) /\ Renames(r, columns, "mfa")
    BY StatesAssumption DEF Typed, Renames
  <2>5. CASE Refuse(r, "409")
    BY <1>1, <2>1, <2>5, RefuseTells DEF Codes
  <2>6. CASE SecretOf(r, u) = {} /\ InsertOne(r, row, "500")
    <3>1. \A y \in Ids : seen[r][y] # Null => ~SameKey(row, seen[r][y])
      <4> SUFFICES ASSUME NEW y \in Ids, seen[r][y] # Null, SameKey(row, seen[r][y])
                   PROVE  FALSE
        OBVIOUS
      <4>1. "under" \in UniqueOn["mfa"]
        BY DEF UniqueOn
      <4>2. row.table = "mfa" /\ row["under"] = u
        BY DEF Sole
      <4>3. seen[r][y].table = "mfa" /\ seen[r][y]["under"] = u
        BY <4>1, <4>2 DEF SameKey
      <4> QED
        BY <2>6, <4>3 DEF SecretOf, Sees
    <3>2. "mfa" \in TableNames \ {"user", "member"}
      BY TableMembers
    <3> QED
      BY <2>1, <2>2, <2>3, <2>6, <3>1, <3>2, SoleTells
  <2>7. CASE \E m \in SecretOf(r, u) : Update(r, m, columns)
    BY <1>2, <2>1, <2>4, <2>7, UpdateTells
  <2> QED
    BY <1>5, <2>5, <2>6, <2>7 DEF MfaEnroll
<1>6. CASE MfaConfirm(r)
  <2> DEFINE columns == [state |-> "confirmed", at |-> began[r]]
  <2>1. pc[r] = "write" /\ call[r].op = "confirm" /\ Unasked(r)
    BY <1>6, HandlerCalls DEF MfaConfirm
  <2>2. Typed(columns) /\ Renames(r, columns, "mfa")
    BY <1>4, StatesAssumption DEF Typed, Renames
  <2>3. CASE Refuse(r, "409") \/ Refuse(r, "400")
    BY <1>1, <2>1, <2>3, RefuseTells DEF Codes
  <2>4. CASE \E m \in SecretOf(r, call[r].user) : Update(r, m, columns)
    BY <1>2, <2>1, <2>2, <2>4, UpdateTells
  <2> QED
    BY <1>6, <2>3, <2>4 DEF MfaConfirm
<1>7. ASSUME pc[r] = "write", Unasked(r), Refused(r) # "none", Refuse(r, Refused(r))
      PROVE  Told(r)
  BY <1>7, RefuseTells DEF Refused, Codes
<1>8. ASSUME pc[r] = "write", Unasked(r), NEW m \in Ids, Sees(r, m, "mfa"), Delete(r, m)
      PROVE  Told(r)
  BY <1>1, <1>8, DeleteTells
<1>9. CASE MfaDisable(r)
  <2>1. pc[r] = "write" /\ Unasked(r)
    BY <1>9, HandlerCalls DEF MfaDisable
  <2> QED
    BY <1>3, <1>7, <1>8, <1>9, <2>1 DEF MfaDisable
<1>10. CASE MfaRegenerate(r)
  <2>1. pc[r] = "write" /\ Unasked(r)
    BY <1>10, HandlerCalls DEF MfaRegenerate
  <2>2. Typed([at |-> began[r]]) /\ Renames(r, [at |-> began[r]], "mfa")
    BY <1>4, TypedColumns DEF Renames
  <2> QED
    BY <1>3, <1>7, <1>10, <2>1, <2>2, UpdateTells DEF MfaRegenerate
<1>11. CASE AdminResetMfa(r)
  <2>1. pc[r] = "write" /\ Unasked(r)
    BY <1>11, HandlerCalls DEF AdminResetMfa
  <2> QED
    BY <1>2, <1>8, <1>11, <2>1, SameTells DEF AdminResetMfa
<1> QED
  BY <1>5, <1>6, <1>9, <1>10, <1>11

LEMMA ProfileTells ==
  ASSUME Linked, NEW r \in Requests, RowsStay,
         CreateProfile(r) \/ PatchProfile(r) \/ DeleteProfile(r)
  PROVE  Told(r)
<1>0. /\ {"createProfile", "patchProfile", "deleteProfile"} \subseteq Uncaught
      /\ "deleteProfile" \notin DOMAIN SayTaken
  BY DEF Uncaught, SayTaken
<1>1. CASE CreateProfile(r)
  <2> DEFINE row == Sole(r, "profile", call[r].org, Null, call[r].name, "", Null)
  <2>1. pc[r] = "write" /\ call[r] \in Calls /\ call[r].op = "createProfile" /\ Unasked(r)
    <3>1. Of(r, "createProfile")
      BY <1>1 DEF CreateProfile
    <3> QED
      BY <3>1, HandlerCalls
  <2>2. call[r].org \in Ids /\ Found(r, call[r].org) /\ call[r].name \in Names
    BY <2>1, OrgCallShape, Askers
  <2>3. row \in Row /\ "profile" \in TableNames \ {"user", "member"}
    BY <2>2, SoleType, TableMembers, StatesAssumption DEF Linked, IInv
  <2>4. InsertOne(r, row, "500")
    BY <1>1 DEF CreateProfile
  <2> QED
    BY <1>0, <2>1, <2>2, <2>3, <2>4, SoleTells
<1>2. CASE PatchProfile(r)
  <2>1. pc[r] = "write" /\ call[r] \in Calls /\ call[r].op = "patchProfile" /\ Unasked(r)
    BY <1>2, HandlerCalls DEF PatchProfile
  <2>2. call[r].id \in Ids /\ call[r].name \in Names
    BY <2>1, OrgCallShape
  <2>3. CASE Refuse(r, "404") \/ Refuse(r, "400")
    BY <2>1, <2>3, RefuseTells DEF Codes
  <2>4. CASE Sees(r, call[r].id, "profile") /\ Update(r, call[r].id, [name |-> call[r].name])
    <3>1. Renames(r, [name |-> call[r].name], "profile")
      BY <1>0, <2>1 DEF Renames
    <3> QED
      BY <2>1, <2>2, <2>4, <3>1, UpdateTells, TypedColumns
  <2> QED
    BY <1>2, <2>3, <2>4 DEF PatchProfile, SeesOwn
<1>3. CASE DeleteProfile(r)
  <2>1. pc[r] = "write" /\ call[r] \in Calls /\ call[r].op = "deleteProfile" /\ Unasked(r)
    <3>1. Of(r, "deleteProfile")
      BY <1>3 DEF DeleteProfile
    <3> QED
      BY <3>1, HandlerCalls
  <2>2. call[r].id \in Ids
    BY <2>1, OrgCallShape
  <2>3. CASE Refuse(r, "404") \/ Refuse(r, "400") \/ Refuse(r, "409")
    BY <1>0, <2>1, <2>3, RefuseTells DEF Codes
  <2>4. CASE Refuse(r, "500")
    BY <1>0, <2>1, <2>4 DEF Told, Excused, Codes
  <2>5. CASE Sees(r, call[r].id, "profile") /\ Delete(r, call[r].id)
    BY <1>0, <2>1, <2>2, <2>5, DeleteTells
  <2> QED
    BY <1>3, <2>3, <2>4, <2>5 DEF DeleteProfile, SeesOwn
<1> QED
  BY <1>1, <1>2, <1>3

LEMMA OrgTells ==
  ASSUME Linked, NEW r \in Requests, RowsStay,
         PatchOrg(r) \/ CreateSharing(r) \/ DeleteSharing(r)
  PROVE  Told(r)
<1>0. {"patchOrg", "createSharing"} \subseteq Uncaught
  BY DEF Uncaught
<1>1. CASE PatchOrg(r)
  <2>1. pc[r] = "write" /\ call[r] \in Calls /\ call[r].op = "patchOrg" /\ Unasked(r)
    BY <1>1, HandlerCalls DEF PatchOrg
  <2>2. call[r].id \in Ids /\ call[r].name \in Names
    BY <2>1, OrgCallShape
  <2>3. CASE Refuse(r, "404")
    BY <2>1, <2>3, RefuseTells DEF Codes
  <2>4. CASE /\ Sees(r, call[r].id, "organization")
             /\ Update(r, call[r].id, [name |-> call[r].name])
    <3>1. Renames(r, [name |-> call[r].name], "organization")
      BY <1>0, <2>1 DEF Renames
    <3> QED
      BY <2>1, <2>2, <2>4, <3>1, UpdateTells, TypedColumns
  <2> QED
    BY <1>1, <2>3, <2>4 DEF PatchOrg
<1>2. CASE CreateSharing(r)
  <2> DEFINE row == Sole(r, "sharing", call[r].org, Null, call[r].target, "", call[r].user)
  <2>1. pc[r] = "write" /\ call[r] \in Calls /\ call[r].op = "createSharing" /\ Unasked(r)
    <3>1. Of(r, "createSharing")
      BY <1>2 DEF CreateSharing
    <3> QED
      BY <3>1, HandlerCalls
  <2>2. /\ call[r].org \in Ids /\ call[r].user \in Ids /\ call[r].target \in Ids
        /\ Found(r, call[r].org) /\ Found(r, call[r].user)
    BY <2>1, OrgCallShape, Askers
  <2>3. row \in Row /\ "sharing" \in TableNames \ {"user", "member"}
    BY <2>2, SoleType, TableMembers, StatesAssumption DEF Linked, IInv
  <2>4. CASE Refuse(r, "404") \/ Refuse(r, "400")
    BY <2>1, <2>4, RefuseTells DEF Codes
  <2>5. CASE Sees(r, call[r].target, "organization") /\ InsertOne(r, row, "500")
    <3>1. Found(r, call[r].target)
      BY <2>2, <2>5, Askers DEF Referred
    <3> QED
      BY <1>0, <2>1, <2>2, <2>3, <2>5, <3>1, SoleTells
  <2> QED
    BY <1>2, <2>4, <2>5 DEF CreateSharing
<1>3. CASE DeleteSharing(r)
  <2>1. pc[r] = "write" /\ call[r] \in Calls /\ call[r].op = "deleteSharing" /\ Unasked(r)
    BY <1>3, HandlerCalls DEF DeleteSharing
  <2>2. call[r].id \in Ids /\ "sharing" \notin Referred
    BY <2>1, OrgCallShape DEF Referred
  <2>3. CASE Refuse(r, "404")
    BY <2>1, <2>3, RefuseTells DEF Codes
  <2>4. CASE Sees(r, call[r].id, "sharing") /\ Delete(r, call[r].id)
    BY <2>1, <2>2, <2>4, DeleteTells
  <2> QED
    BY <1>3, <2>3, <2>4 DEF DeleteSharing, SeesOwn
<1> QED
  BY <1>1, <1>2, <1>3

LEMMA KeyTells ==
  ASSUME Linked, NEW r \in Requests, RowsStay,
         CreateMyKey(r) \/ RevokeMyKey(r) \/ AdminRevokeKey(r)
  PROVE  Told(r)
<1>1. CASE CreateMyKey(r)
  <2> DEFINE row == Sole(r, "api_key", Null, Null, r, "active", call[r].user)
  <2>1. pc[r] = "write" /\ call[r] \in Calls /\ call[r].op = "createKey" /\ Unasked(r)
    BY <1>1, HandlerCalls DEF CreateMyKey
  <2>2. call[r].user \in Ids /\ Found(r, call[r].user)
    BY <2>1, OrgCallShape, Askers
  <2>3. /\ row \in Row /\ "api_key" \in TableNames \ {"user", "member"}
        /\ "api_key" \notin DOMAIN UniqueOn
    BY <2>2, SoleType, TableMembers, StatesAssumption, Constrained DEF Linked, IInv
  <2>4. CASE Refuse(r, "400")
    BY <2>1, <2>4, RefuseTells DEF Codes
  <2>5. CASE InsertOne(r, row, "500")
    BY <2>1, <2>2, <2>3, <2>5, SoleTells
  <2> QED
    BY <1>1, <2>4, <2>5 DEF CreateMyKey
<1>2. ASSUME pc[r] = "write", Unasked(r), call[r].id \in Ids, Revoke(r)
      PROVE  Told(r)
  <2>1. Typed([state |-> "revoked"]) /\ Renames(r, [state |-> "revoked"], "api_key")
    BY TypedColumns, StatesAssumption, PlainColumns
  <2> QED
    BY <1>2, <2>1, RefuseTells, UpdateTells DEF Revoke, Codes
<1>3. CASE RevokeMyKey(r) \/ AdminRevokeKey(r)
  <2>1. /\ pc[r] = "write" /\ call[r] \in Calls /\ Unasked(r)
        /\ call[r].op \in {"revokeKey", "adminRevokeKey"}
    BY <1>3, HandlerCalls DEF RevokeMyKey, AdminRevokeKey
  <2> QED
    BY <1>2, <1>3, <2>1, OrgCallShape DEF RevokeMyKey, AdminRevokeKey
<1> QED
  BY <1>1, <1>3

LEMMA EraseUserTells ==
  ASSUME Linked, NEW r \in Requests, RowsStay, EraseUser(r)
  PROVE  Told(r)
<1> DEFINE u == call[r].id
           S == Authored(db, u)
           user == [name |-> u, state |-> "locked"]
           record == Sole(r, "audit", Null, u, Null, "gdpr_erased", call[r].user)
           T == {u, <<r, 1>>} \cup S
           new == [x \in T |->
                     CASE x = u -> Updated(r, u, user)
                       [] x \in S -> [db[x] EXCEPT !.state = "erased", !.at = began[r]]
                       [] OTHER -> record]
<1>a. Of(r, "erase")
  BY DEF EraseUser
<1>1. pc[r] = "write" /\ call[r] \in Calls /\ call[r].op = "erase" /\ Unasked(r)
  BY <1>a, HandlerCalls
<1>2. u \in Ids /\ call[r].user \in Ids /\ Found(r, call[r].user)
  BY <1>1, OrgCallShape, Askers
<1>3. CASE Refuse(r, "404")
  BY <1>1, <1>3, RefuseTells DEF Codes
<1>4. CASE Sees(r, u, "user") /\ Insert(r, new, "500")
  <2>1. db[u] # Null /\ db[u].table = "user" /\ Found(r, u)
    <3>1. IInv /\ "user" \in Lasting /\ "user" \in Referred
      BY DEF Linked, Lasting, Referred
    <3> QED
      BY <1>1, <1>2, <1>4, <3>1, SeenStays, Askers
  <2>2. Typed(user)
    BY <1>2, StatesAssumption DEF Typed
  <2>3. LET row == Updated(r, u, user)
        IN  /\ row \in Row /\ row.table = "user" /\ ForeignKeys(row) = ForeignKeys(db[u])
            /\ row.name \in {db[u].name, u}
    <3> DEFINE row == Updated(r, u, user)
    <3>1. /\ row \in Row /\ SamePlace(db[u], row) /\ row.by = db[u].by
          /\ row.name = db[u].name \/ row.name = u
      BY <1>2, <2>1, <2>2, UpdatedKeeps DEF Linked
    <3> HIDE DEF row
    <3>2. row \in Row /\ row.table = "user" /\ ForeignKeys(row) = ForeignKeys(db[u])
          /\ row.name \in {db[u].name, u}
      BY <2>1, <3>1 DEF ForeignKeys, SamePlace
    <3> QED
      BY <3>2 DEF row
  <2>4. \A x \in S : x \in Ids /\ db[x] # Null /\ db[x].table \in {"comment", "log", "ai_call"}
    BY DEF Authored
  <2>5. ASSUME NEW x \in S
        PROVE  LET row == [db[x] EXCEPT !.state = "erased", !.at = began[r]]
               IN  /\ row \in Row /\ row.table = db[x].table
                   /\ ForeignKeys(row) = ForeignKeys(db[x])
    <3>1. db[x] \in Row /\ began[r] \in Nat /\ "erased" \in States
      BY <2>4, <2>5, StatesAssumption DEF Linked, IInv, TypeOK
    <3> QED
      BY <3>1 DEF Row, ForeignKeys
  <2>6. /\ record \in Row /\ record.table = "audit"
        /\ \A y \in ForeignKeys(record) \ {Null} : Found(r, y)
    <3>1. record \in Row
      BY <1>2, SoleType, TableMembers, StatesAssumption DEF Linked, IInv
    <3>2. record.table = "audit"
      BY DEF Sole
    <3> QED
      BY <1>2, <2>1, <3>1, <3>2, SoleLinks
  <2> HIDE DEF S, user, record
  <2>7. db[<<r, 1>>] = Null
    BY <1>1, NewIds DEF Linked, IInv, PlacesStay
  <2>8. /\ new \in [T -> Row] /\ T \in SUBSET Ids /\ u \in T
        /\ new[u].table = "user" /\ ForeignKeys(new[u]) = ForeignKeys(db[u])
        /\ new[u].name \in {db[u].name, u}
        /\ \A x \in T \ {u} :
             \/ /\ new[x].table \in {"comment", "log", "ai_call"} /\ db[x] # Null
                /\ ForeignKeys(new[x]) = ForeignKeys(db[x])
             \/ new[x] = record
    <3>1. \A x \in T \ {u} :
            \/ /\ x \in S /\ new[x] = [db[x] EXCEPT !.state = "erased", !.at = began[r]]
            \/ new[x] = record
      OBVIOUS
    <3>2. new[u] = Updated(r, u, user) /\ u \in T
      BY <2>1, <2>4
    <3>3. T \in SUBSET Ids
      BY <1>2, <2>4, NewIds
    <3>4. \A x \in T \ {u} :
             \/ /\ new[x].table \in {"comment", "log", "ai_call"} /\ db[x] # Null
                /\ ForeignKeys(new[x]) = ForeignKeys(db[x]) /\ new[x] \in Row
             \/ new[x] = record
      BY <2>4, <2>5, <3>1
    <3>5. \A x \in T : new[x] \in Row
      BY <2>3, <2>6, <3>2, <3>4
    <3>6. new \in [T -> Row]
      BY <3>5
    <3> HIDE DEF new, T
    <3> QED
      BY <2>3, <3>2, <3>3, <3>4, <3>6
  <2> HIDE DEF new, T
  <2>9. \A y \in Ids : With(new)[y] = (IF y \in T THEN new[y] ELSE db[y])
    BY <2>8 DEF With
  <2>10. \A x \in T : Points(r, T, new, x) /\ Emailed(new[x], x)
    BY <2>1, <2>6, <2>8 DEF Points, Emailed, Linked, EmailsAreOwn
  <2>11. Unlike(With(new), u)
    <3> SUFFICES ASSUME NEW y \in Ids \ {u}, With(new)[y] # Null,
                        SameKey(With(new)[u], With(new)[y])
                 PROVE  FALSE
      BY DEF Unlike
    <3>1. "name" \in UniqueOn["user"] /\ UniqueOn["user"] = {"name"} /\ "user" \in DOMAIN UniqueOn
      BY DEF UniqueOn
    <3>2. With(new)[u] = new[u]
      BY <1>2, <2>8, <2>9
    <3>3. With(new)[y].table = "user" /\ With(new)[y]["name"] = new[u]["name"]
      BY <2>8, <3>1, <3>2 DEF SameKey
    <3>4. y \notin T
      BY <2>6, <2>8, <2>9, <3>3
    <3>5. db[y] # Null /\ db[y].table = "user" /\ db[y]["name"] = new[u]["name"]
      BY <2>9, <3>3, <3>4
    <3>6. db[y].name \in Names \cup {y}
      BY <3>5 DEF Linked, EmailsAreOwn
    <3>7. CASE new[u].name = u
      BY <1>2, <3>5, <3>6, <3>7, EmailAssumption
    <3>8. CASE new[u].name = db[u].name
      <4>1. SameKey(db[u], db[y])
        BY <2>1, <3>1, <3>5, <3>8 DEF SameKey
      <4> QED
        BY <1>2, <2>1, <3>1, <3>5, <4>1 DEF Linked, IInv, Consistent, NoDuplicates, Unlike
    <3> QED
      BY <2>8, <3>7, <3>8
  <2>12. \A x \in T : Unlike(With(new), x)
    <3>1. \A x \in T : new[x].table \notin DOMAIN UniqueOn \/ Unlike(With(new), x)
      BY <2>6, <2>8, <2>11, Constrained
    <3> QED
      BY <2>8, <3>1, KeptAreUnlike DEF Linked
  <2> QED
    BY <1>1, <1>4, <2>8, <2>10, <2>12, InsertTells
<1> QED
  BY <1>3, <1>4 DEF EraseUser

LEMMA AccountTells ==
  ASSUME Linked, NEW r \in Requests, RowsStay, AccountStep(r)
  PROVE  Told(r)
  BY InviteUserTells, PatchUserTells, UserStatesTell, MfaTells, ProfileTells, OrgTells, KeyTells,
     EraseUserTells DEF AccountStep

-----------------------------------------------------------------------------
(* What the library tells: the ways of most handlers.                      *)
Entries == {"kb", "template", "taxonomy", "case_ttp", "case_page"}
LEMMA EntriesAreRows ==
  Entries \subseteq TableNames \ {"user", "member", "sharing"} /\ Entries \cap Referred = {}
  BY TableMembers DEF Entries, Referred
LEMMA CreateTells ==
  ASSUME Linked, NEW r \in Requests, pc[r] = "write", RowsStay, Unasked(r),
         call[r].org \in Orgs, call[r].user \in Callers, call[r].name \in Names,
         NEW table \in Entries, call[r].op \in DOMAIN SayTaken, SayTaken[call[r].op] = table,
         NEW state \in States \cup Requests, NEW under \in Ids \cup {Null},
         under = Null \/ Found(r, under),
         NEW by \in {Null, call[r].user},
         InsertOne(r, Sole(r, table, call[r].org, under, call[r].name, state, by), "409")
  PROVE  Told(r)
<1>1. /\ call[r].org \in Ids /\ call[r].user \in Ids
      /\ Found(r, call[r].org) /\ Found(r, call[r].user)
  BY Askers
<1>2. Sole(r, table, call[r].org, under, call[r].name, state, by) \in Row
  <2>1. by \in Ids \cup {Null} /\ table \in TableNames /\ TypeOK
    BY <1>1, EntriesAreRows DEF Linked, IInv
  <2> QED
    BY <1>1, <2>1, SoleType
<1>3. /\ table \in {"kb", "template", "taxonomy", "case_ttp", "case_page"}
      /\ table \in TableNames \ {"user", "member"} /\ table # "sharing"
  BY EntriesAreRows DEF Entries
<1>4. by = Null \/ Found(r, by)
  BY <1>1
<1> QED
  BY <1>1, <1>2, <1>3, <1>4, SoleTells

LEMMA RewriteTells ==
  ASSUME Linked, NEW r \in Requests, pc[r] = "write", RowsStay, Unasked(r), call[r].id \in Ids,
         NEW table, Rewrite(r, table)
  PROVE  Told(r)
<1>1. Typed([state |-> r]) /\ Renames(r, [state |-> r], table)
  BY TypedColumns, PlainColumns
<1>2. CASE Refuse(r, "404")
  BY <1>2, RefuseTells DEF Codes
<1>3. CASE Sees(r, call[r].id, table) /\ Update(r, call[r].id, [state |-> r])
  BY <1>1, <1>3, UpdateTells
<1> QED
  BY <1>2, <1>3 DEF Rewrite, SeesOwn

LEMMA RemoveTells ==
  ASSUME Linked, NEW r \in Requests, pc[r] = "write", RowsStay, Unasked(r), call[r].id \in Ids,
         NEW table \in Entries, table = "taxonomy" => call[r].op = "deleteTaxonomy",
         Remove(r, table)
  PROVE  Told(r)
<1>1. CASE Refuse(r, "404")
  BY <1>1, RefuseTells DEF Codes
<1>2. CASE Sees(r, call[r].id, table) /\ Delete(r, call[r].id)
  BY <1>2, EntriesAreRows, DeleteTells
<1> QED
  BY <1>1, <1>2 DEF Remove, SeesOwn

LEMMA JoinTells ==
  ASSUME Linked, NEW r \in Requests, pc[r] = "write", RowsStay, Unasked(r),
         call[r].org \in Orgs, call[r].user \in Callers, call[r].name \in Names,
         call[r].under \in Ids, SeesCase(r),
         NEW table \in Entries, call[r].op \in DOMAIN SayTaken, SayTaken[call[r].op] = table,
         Join(r, table)
  PROVE  Told(r)
<1>1. Found(r, call[r].under)
  BY Askers DEF SeesCase, Referred
<1> QED
  BY <1>1, CreateTells DEF Join

LEMMA KbTells ==
  ASSUME Linked, NEW r \in Requests, RowsStay,
         \/ CreateKbPage(r) \/ PatchKbPage(r) \/ CloneKbPage(r) \/ DeleteKbPage(r)
         \/ CreateTemplate(r) \/ PatchTemplate(r) \/ CloneCaseTemplate(r) \/ DeleteTemplate(r)
  PROVE  Told(r)
<1>0. /\ {"kb", "template"} \subseteq Entries
      /\ {"createKb", "cloneKb", "createTemplate", "cloneTemplate"} \subseteq DOMAIN SayTaken
      /\ SayTaken["createKb"] = "kb" /\ SayTaken["cloneKb"] = "kb"
      /\ SayTaken["createTemplate"] = "template" /\ SayTaken["cloneTemplate"] = "template"
  BY DEF Entries, SayTaken
<1>1. ASSUME NEW op \in {"createKb", "createTemplate"}, Of(r, op), Create(r, SayTaken[op])
      PROVE  Told(r)
  <2>1. pc[r] = "write" /\ call[r] \in Calls /\ call[r].op = op /\ Unasked(r)
    BY <1>1, HandlerCalls
  <2>2. call[r].org \in Orgs /\ call[r].user \in Callers /\ call[r].name \in Names
    BY <2>1, LibraryCallShape
  <2> QED
    BY <1>0, <1>1, <2>1, <2>2, CreateTells DEF Create
<1>2. ASSUME NEW op \in {"cloneKb", "cloneTemplate"}, Of(r, op), Clone(r, SayTaken[op])
      PROVE  Told(r)
  <2>1. pc[r] = "write" /\ call[r] \in Calls /\ call[r].op = op /\ Unasked(r)
    BY <1>2, HandlerCalls
  <2>2. /\ call[r].org \in Orgs /\ call[r].user \in Callers /\ call[r].name \in Names
        /\ call[r].id \in Ids
    BY <2>1, LibraryCallShape
  <2>3. CASE Refuse(r, "404")
    BY <2>1, <2>3, RefuseTells DEF Codes
  <2>4. CASE /\ SeesOwn(r, call[r].id, SayTaken[op])
             /\ InsertOne(r, Sole(r, SayTaken[op], call[r].org, Null, call[r].name,
                                  seen[r][call[r].id].state, call[r].user), "409")
    <3>1. seen[r][call[r].id] \in Row
      BY <2>1, <2>2, <2>4, SeenRow DEF Linked, SeesOwn, Sees
    <3>2. seen[r][call[r].id].state \in States \cup Requests
      BY <3>1 DEF Row
    <3> QED
      BY <1>0, <2>1, <2>2, <2>4, <3>2, CreateTells
  <2> QED
    BY <1>2, <2>3, <2>4 DEF Clone
<1>3. ASSUME NEW op \in {"patchKb", "patchTemplate", "deleteKb", "deleteTemplate"}, Of(r, op),
             NEW table \in {"kb", "template"}, Rewrite(r, table) \/ Remove(r, table)
      PROVE  Told(r)
  <2>1. pc[r] = "write" /\ call[r] \in Calls /\ call[r].op = op /\ Unasked(r)
    BY <1>3, HandlerCalls
  <2>2. call[r].id \in Ids
    BY <2>1, LibraryCallShape
  <2> QED
    BY <1>0, <1>3, <2>1, <2>2, RewriteTells, RemoveTells
<1> QED
  BY <1>0, <1>1, <1>2, <1>3
     DEF CreateKbPage, PatchKbPage, CloneKbPage, DeleteKbPage, CreateTemplate, PatchTemplate,
         CloneCaseTemplate, DeleteTemplate

LEMMA ApplyTemplateTells ==
  ASSUME Linked, NEW r \in Requests, RowsStay, ApplyTemplate(r)
  PROVE  Told(r)
<1> DEFINE o == call[r].org
           S == {<<r, k>> : k \in 1..(1 + TemplateTasks)}
           case(n) == Sole(r, "case", o, Null, <<"number", n>>, "open", call[r].user)
           task == Sole(r, "task", o, <<r, 1>>, r, "Waiting", Null)
           new(n) == [x \in S |-> IF x = <<r, 1>> THEN case(n) ELSE task]
<1>a. Of(r, "applyTemplate")
  BY DEF ApplyTemplate
<1>1. pc[r] = "write" /\ call[r] \in Calls /\ call[r].op = "applyTemplate" /\ Unasked(r)
  BY <1>a, HandlerCalls
<1>2. o \in Ids /\ call[r].user \in Ids /\ Found(r, o) /\ Found(r, call[r].user)
  BY <1>1, LibraryCallShape, Askers
<1>3. CASE Refuse(r, "404")
  BY <1>1, <1>3, RefuseTells DEF Codes
<1>4. ASSUME NEW n \in 1..MaxNumber, IsNext(seen[r], o, n), Insert(r, new(n), "500")
      PROVE  Told(r)
  <2>1. <<"number", n>> \in Numbers
    BY DEF Numbers
  <2>2. /\ case(n) \in Row /\ case(n).table = "case" /\ case(n)["org"] = o
        /\ case(n)["name"] = <<"number", n>> /\ ForeignKeys(case(n)) = {o, Null, call[r].user}
    <3>1. case(n) \in Row
      BY <1>2, <2>1, SoleType, TableMembers, StatesAssumption DEF Linked, IInv
    <3> QED
      BY <3>1 DEF Sole, ForeignKeys
  <2>3. task \in Row /\ task.table = "task" /\ ForeignKeys(task) = {o, <<r, 1>>, Null}
    <3>1. task \in Row
      BY <1>2, SoleType, TableMembers, StatesAssumption, NewIds DEF Linked, IInv
    <3> QED
      BY <3>1 DEF Sole, ForeignKeys
  <2>4. S \in SUBSET Ids /\ <<r, 1>> \in S
    <3>1. \A x \in S : x \in {r} \X (1..MaxRows)
      BY TemplateAssumption, IdsAssumption
    <3>2. 1 \in 1..(1 + TemplateTasks)
      BY TemplateAssumption, IdsAssumption
    <3> QED
      BY <3>1, <3>2 DEF Ids
  <2>5. /\ new(n) \in [S -> Row] /\ new(n)[<<r, 1>>] = case(n)
        /\ \A x \in S \ {<<r, 1>>} : new(n)[x] = task
    BY <2>2, <2>3, <2>4
  <2> DEFINE made == new(n)
             first == case(n)
  <2> HIDE DEF S, case, task, new
  <2>6. ~Numbered(seen[r], o, n)
    BY <1>4, IdsAssumption DEF IsNext
  <2> HIDE DEF made, first
  <2>7. \A y \in Ids : With(made)[y] = (IF y \in S THEN made[y] ELSE db[y])
    BY <2>5 DEF With, made
  <2>8. \A x \in S : Points(r, S, made, x) /\ Emailed(made[x], x)
    <3>1. \A x \in S : made[x] = first \/ made[x] = task
      BY <2>5 DEF made, first
    <3>2. /\ made[<<r, 1>>].table \in Referred
          /\ first.table # "user" /\ task.table # "user"
          /\ ForeignKeys(first) = {o, Null, call[r].user}
      BY <2>2, <2>3, <2>5 DEF made, first, Referred
    <3> QED
      BY <1>2, <2>3, <2>4, <3>1, <3>2 DEF Points, Emailed
  <2>9. ASSUME seen[r] = db PROVE \A x \in S : Unlike(With(made), x)
    <3>1. Unlike(With(made), <<r, 1>>)
      <4> SUFFICES ASSUME NEW y \in Ids \ {<<r, 1>>}, With(made)[y] # Null,
                          SameKey(With(made)[<<r, 1>>], With(made)[y])
                   PROVE  FALSE
        BY DEF Unlike
      <4>1. "org" \in UniqueOn["case"] /\ "name" \in UniqueOn["case"]
        BY DEF UniqueOn
      <4>2. With(made)[<<r, 1>>] = first /\ first.table = "case" /\ first["org"] = o
            /\ first["name"] = <<"number", n>>
        BY <2>2, <2>4, <2>5, <2>7 DEF made, first
      <4>3. /\ With(made)[y].table = "case" /\ With(made)[y]["org"] = o
            /\ With(made)[y]["name"] = <<"number", n>>
        BY <4>1, <4>2 DEF SameKey
      <4>4. y \notin S
        BY <2>3, <2>5, <2>7, <4>3 DEF made
      <4> QED
        BY <2>6, <2>7, <2>9, <4>3, <4>4 DEF Numbered
    <3>2. \A x \in S : made[x].table \notin DOMAIN UniqueOn \/ Unlike(With(made), x)
      BY <2>3, <2>5, <3>1, Constrained DEF made
    <3>3. made \in [S -> Row]
      BY <2>5 DEF made
    <3> QED
      BY <2>4, <3>2, <3>3, KeptAreUnlike DEF Linked
  <2>10. made \in [S -> Row] /\ Insert(r, made, "500")
    BY <1>4, <2>5 DEF made
  <2> QED
    BY <1>1, <2>4, <2>8, <2>9, <2>10, InsertTells
<1> QED
  BY <1>3, <1>4 DEF ApplyTemplate

LEMMA TaxonomyTells ==
  ASSUME Linked, NEW r \in Requests, RowsStay, CreateTaxonomyEntry(r) \/ DeleteTaxonomyEntry(r)
  PROVE  Told(r)
<1>0. "taxonomy" \in Entries /\ "createTaxonomy" \in DOMAIN SayTaken
      /\ SayTaken["createTaxonomy"] = "taxonomy"
  BY DEF Entries, SayTaken
<1>1. CASE CreateTaxonomyEntry(r)
  <2>a. Of(r, "createTaxonomy")
    BY <1>1 DEF CreateTaxonomyEntry
  <2>1. pc[r] = "write" /\ call[r] \in Calls /\ call[r].op = "createTaxonomy" /\ Unasked(r)
    BY <2>a, HandlerCalls
  <2>2. call[r].org \in Ids /\ call[r].name \in Names /\ Found(r, call[r].org)
    BY <2>1, LibraryCallShape, Askers
  <2>3. Sole(r, "taxonomy", call[r].org, Null, call[r].name, "", Null) \in Row
    BY <2>2, SoleType, TableMembers, StatesAssumption DEF Linked, IInv
  <2>4. InsertOne(r, Sole(r, "taxonomy", call[r].org, Null, call[r].name, "", Null), "409")
    BY <1>1 DEF CreateTaxonomyEntry
  <2> QED
    BY <1>0, <2>1, <2>2, <2>3, <2>4, EntriesAreRows, SoleTells
<1>2. CASE DeleteTaxonomyEntry(r)
  <2>1. /\ pc[r] = "write" /\ call[r] \in Calls /\ call[r].op = "deleteTaxonomy" /\ Unasked(r)
    BY <1>2, HandlerCalls DEF DeleteTaxonomyEntry
  <2> QED
    BY <1>0, <1>2, <2>1, LibraryCallShape, RemoveTells DEF DeleteTaxonomyEntry
<1> QED
  BY <1>1, <1>2

LEMMA TtpTells ==
  ASSUME Linked, NEW r \in Requests, RowsStay,
         UpsertCatalogEntry(r) \/ AddCaseTtp(r) \/ PatchCaseTtp(r) \/ RemoveCaseTtp(r)
  PROVE  Told(r)
<1>1. CASE UpsertCatalogEntry(r)
  <2> DEFINE row == Sole(r, "technique", Null, Null, call[r].name, r, Null)
  <2>a. Of(r, "upsertTechnique")
    BY <1>1 DEF UpsertCatalogEntry
  <2>1. pc[r] = "write" /\ call[r] \in Calls /\ call[r].op = "upsertTechnique" /\ Unasked(r)
    BY <2>a, HandlerCalls
  <2>2. call[r].name \in Names /\ \A x \in Technique(r, call[r].name) : x \in Ids /\ Sees(r, x, "technique")
    BY <2>1, CaseCallShape DEF Technique
  <2>3. row \in Row /\ "technique" \in TableNames \ {"user", "member"}
    BY <2>2, SoleType, TableMembers DEF Linked, IInv
  <2>4. CASE Technique(r, call[r].name) = {} /\ InsertOne(r, row, "500")
    <3>1. \A y \in Ids : seen[r][y] # Null => ~SameKey(row, seen[r][y])
      <4> SUFFICES ASSUME NEW y \in Ids, seen[r][y] # Null, SameKey(row, seen[r][y])
                   PROVE  FALSE
        OBVIOUS
      <4>1. "name" \in UniqueOn["technique"]
        BY DEF UniqueOn
      <4>2. row.table = "technique" /\ row["name"] = call[r].name
        BY DEF Sole
      <4>3. seen[r][y].table = "technique" /\ seen[r][y]["name"] = call[r].name
        BY <4>1, <4>2 DEF SameKey
      <4> QED
        BY <2>4, <4>3 DEF Technique, Sees
    <3> QED
      BY <2>1, <2>3, <2>4, <3>1, SoleTells
  <2>5. CASE \E x \in Technique(r, call[r].name) : Update(r, x, [state |-> r])
    BY <2>1, <2>2, <2>5, UpdateTells, TypedColumns, PlainColumns
  <2> QED
    BY <1>1, <2>4, <2>5 DEF UpsertCatalogEntry
<1>0. "case_ttp" \in Entries /\ "addTtp" \in DOMAIN SayTaken /\ SayTaken["addTtp"] = "case_ttp"
  BY DEF Entries, SayTaken
<1>2. CASE AddCaseTtp(r)
  <2>1. pc[r] = "write" /\ call[r] \in Calls /\ call[r].op = "addTtp" /\ Unasked(r)
    BY <1>2, HandlerCalls DEF AddCaseTtp
  <2>2. /\ call[r].org \in Orgs /\ call[r].user \in Callers /\ call[r].under \in Ids
        /\ call[r].name \in Names
    BY <2>1, CaseCallShape
  <2>3. CASE Refuse(r, "404")
    BY <2>1, <2>3, RefuseTells DEF Codes
  <2>4. CASE SeesCase(r) /\ Join(r, "case_ttp")
    BY <1>0, <2>1, <2>2, <2>4, JoinTells
  <2> QED
    BY <1>2, <2>3, <2>4 DEF AddCaseTtp
<1>3. CASE PatchCaseTtp(r) \/ RemoveCaseTtp(r)
  <2>1. /\ pc[r] = "write" /\ call[r] \in Calls /\ call[r].op \in {"patchTtp", "removeTtp"}
        /\ Unasked(r)
    BY <1>3, HandlerCalls DEF PatchCaseTtp, RemoveCaseTtp
  <2>2. call[r].id \in Ids
    BY <2>1, CaseCallShape
  <2> QED
    BY <1>0, <1>3, <2>1, <2>2, RewriteTells, RemoveTells DEF PatchCaseTtp, RemoveCaseTtp
<1> QED
  BY <1>1, <1>2, <1>3

LEMMA PageTells ==
  ASSUME Linked, NEW r \in Requests, RowsStay,
         CreateCasePage(r) \/ PatchCasePage(r) \/ DeleteCasePage(r)
  PROVE  Told(r)
<1>0. /\ "case_page" \in Entries /\ "createPage" \in DOMAIN SayTaken
      /\ SayTaken["createPage"] = "case_page"
  BY DEF Entries, SayTaken
<1>1. CASE CreateCasePage(r)
  <2>1. pc[r] = "write" /\ call[r] \in Calls /\ call[r].op = "createPage" /\ Unasked(r)
    BY <1>1, HandlerCalls DEF CreateCasePage
  <2>2. /\ call[r].org \in Orgs /\ call[r].user \in Callers /\ call[r].under \in Ids
        /\ call[r].name \in Names
    BY <2>1, CaseCallShape
  <2>3. CASE Refuse(r, "404")
    BY <2>1, <2>3, RefuseTells DEF Codes
  <2>4. CASE SeesCase(r) /\ Join(r, "case_page")
    BY <1>0, <2>1, <2>2, <2>4, JoinTells
  <2> QED
    BY <1>1, <2>3, <2>4 DEF CreateCasePage
<1>2. CASE PatchCasePage(r) \/ DeleteCasePage(r)
  <2>1. /\ pc[r] = "write" /\ call[r] \in Calls /\ call[r].op \in {"patchPage", "deletePage"}
        /\ Unasked(r)
    BY <1>2, HandlerCalls DEF PatchCasePage, DeleteCasePage
  <2>2. call[r].id \in Ids
    BY <2>1, CaseCallShape
  <2> QED
    BY <1>0, <1>2, <2>1, <2>2, RewriteTells, RemoveTells DEF PatchCasePage, DeleteCasePage
<1> QED
  BY <1>1, <1>2

(* Comments, with the mentions they make.                                  *)
LEMMA CreateCommentTells ==
  ASSUME Linked, NEW r \in Requests, RowsStay, CreateComment(r)
  PROVE  Told(r)
<1> DEFINE o == call[r].org
           S(n) == {<<r, k>> : k \in 1..n}
           comment == Sole(r, "comment", o, call[r].under, r, "said", call[r].user)
           mention(u) == Sole(r, "audit", o, u, Null, "mentioned", call[r].user)
           new(n, who) == [x \in S(n) |-> IF x = <<r, 1>> THEN comment ELSE mention(who[x[2]])]
<1>a. Of(r, "comment")
  BY DEF CreateComment
<1>1. pc[r] = "write" /\ call[r] \in Calls /\ call[r].op = "comment" /\ Unasked(r)
  BY <1>a, HandlerCalls
<1>2. /\ o \in Ids /\ call[r].user \in Ids /\ call[r].under \in Ids
      /\ Found(r, o) /\ Found(r, call[r].user)
  BY <1>1, CaseCallShape, Askers
<1>3. \A u \in Mentioned(r) : u \in Ids /\ Found(r, u)
  <2>1. \A u \in Mentioned(r) : u \in Ids /\ Sees(r, u, "user")
    BY DEF Mentioned, Members, Sees
  <2> QED
    BY <2>1, Askers DEF Referred
<1>4. CASE Refuse(r, "404")
  BY <1>1, <1>4, RefuseTells DEF Codes
<1>5. ASSUME NEW n \in 1..MaxRows, NEW who \in [2..n -> Mentioned(r)], SeesCase(r),
             Insert(r, new(n, who), "500")
      PROVE  Told(r)
  <2>1. /\ comment \in Row /\ comment.table = "comment"
        /\ \A y \in ForeignKeys(comment) \ {Null} : Found(r, y)
    <3>1. comment \in Row
      BY <1>2, SoleType, TableMembers, StatesAssumption DEF Linked, IInv
    <3>2. Found(r, call[r].under)
      BY <1>2, <1>5, Askers DEF SeesCase, Referred
    <3>3. comment.table = "comment"
      BY DEF Sole
    <3> QED
      BY <1>2, <3>1, <3>2, <3>3, SoleLinks
  <2>2. ASSUME NEW u \in Mentioned(r)
        PROVE  /\ mention(u) \in Row /\ mention(u).table = "audit"
               /\ \A y \in ForeignKeys(mention(u)) \ {Null} : Found(r, y)
    <3>1. mention(u) \in Row
      BY <1>2, <1>3, SoleType, TableMembers, StatesAssumption DEF Linked, IInv
    <3>2. mention(u).table = "audit"
      BY DEF Sole
    <3> QED
      BY <1>2, <1>3, <3>1, <3>2, SoleLinks
  <2> DEFINE made == new(n, who)
             T == S(n)
  <2>3. \A x \in T : x \in {r} \X (1..MaxRows)
    BY IdsAssumption
  <2>4. ASSUME NEW x \in T
        PROVE  made[x] = comment \/ \E u \in Mentioned(r) : made[x] = mention(u)
    <3>1. PICK k \in 1..n : x = <<r, k>>
      BY <2>4
    <3>2. CASE k = 1
      BY <3>1, <3>2
    <3>3. CASE k # 1
      <4>1. x # <<r, 1>> /\ x[2] = k /\ k \in 2..n
        BY <3>1, <3>3
      <4>2. who[k] \in Mentioned(r)
        BY <4>1
      <4>3. made[x] = mention(who[k])
        BY <2>4, <4>1
      <4> QED
        BY <4>2, <4>3
    <3> QED
      BY <3>2, <3>3
  <2>5. made = [x \in T |-> made[x]]
    OBVIOUS
  <2> HIDE DEF comment, mention, new, S
  <2> HIDE DEF made, T
  <2>6. \A x \in T : /\ made[x] \in Row /\ made[x].table \in {"comment", "audit"}
                     /\ \A y \in ForeignKeys(made[x]) \ {Null} : Found(r, y)
    BY <2>1, <2>2, <2>4
  <2>7. made \in [T -> Row] /\ T \in SUBSET Ids
    <3>1. T \in SUBSET Ids
      BY <2>3 DEF Ids
    <3> QED
      BY <2>5, <2>6, <3>1
  <2>8. \A x \in T : Points(r, T, made, x) /\ Emailed(made[x], x)
    BY <2>6 DEF Points, Emailed
  <2>9. \A x \in T : made[x].table \notin DOMAIN UniqueOn
    BY <2>6, Constrained
  <2>10. \A x \in T : Unlike(With(made), x)
    BY <2>7, <2>9, KeptAreUnlike DEF Linked
  <2>11. Insert(r, made, "500")
    BY <1>5 DEF made
  <2> QED
    BY <1>1, <2>7, <2>8, <2>10, <2>11, InsertTells
<1> QED
  BY <1>4, <1>5 DEF CreateComment

LEMMA CommentTells ==
  ASSUME Linked, NEW r \in Requests, RowsStay, PatchComment(r) \/ MarkMentionsSeen(r)
  PROVE  Told(r)
<1>1. CASE PatchComment(r)
  <2>1. pc[r] = "write" /\ call[r] \in Calls /\ call[r].op = "editComment" /\ Unasked(r)
    BY <1>1, HandlerCalls DEF PatchComment
  <2>2. call[r].id \in Ids
    BY <2>1, CaseCallShape
  <2>3. CASE Refuse(r, "404") \/ Refuse(r, "403")
    BY <2>1, <2>3, RefuseTells DEF Codes
  <2>4. CASE Sees(r, call[r].id, "comment") /\ Update(r, call[r].id, [state |-> r])
    BY <2>1, <2>2, <2>4, UpdateTells, TypedColumns, PlainColumns
  <2> QED
    BY <1>1, <2>3, <2>4 DEF PatchComment, SeesOwn
<1>2. CASE MarkMentionsSeen(r)
  <2>1. pc[r] = "write" /\ call[r] \in Calls /\ call[r].op = "seen" /\ Unasked(r)
    BY <1>2, HandlerCalls DEF MarkMentionsSeen
  <2>2. call[r].user \in Callers /\ call[r].user \in Ids
    BY <2>1, CaseCallShape, Askers
  <2>3. began[r] \in Nat /\ clock \in Nat
    BY DEF Linked, IInv, TypeOK
  <2>4. PICK now \in began[r]..clock : Update(r, call[r].user, [at |-> now])
    BY <1>2 DEF MarkMentionsSeen
  <2>5. Typed([at |-> now]) /\ Renames(r, [at |-> now], "user")
    <3>1. now \in Nat
      BY <2>3
    <3> QED
      BY <3>1, TypedColumns, PlainColumns
  <2> QED
    BY <2>1, <2>2, <2>4, <2>5, UpdateTells
<1> QED
  BY <1>1, <1>2

(* Cases, each with its record in the audit log, and observables.          *)
LEMMA ChangeCasesTells ==
  ASSUME Linked, NEW r \in Requests, pc[r] = "write", RowsStay, Unasked(r),
         call[r].org \in Orgs, call[r].user \in Callers, NEW columns, Typed(columns),
         "name" \notin DOMAIN columns, NEW S \in SUBSET Ids, \A x \in S : Sees(r, x, "case"),
         ChangeCases(r, S, columns)
  PROVE  Told(r)
<1> DEFINE record(c) == Sole(r, "audit", call[r].org, c, Null, "", call[r].user)
           own(n) == {<<r, k>> : k \in 1..n}
           all(n) == S \cup own(n)
           new(n, about) ==
             [x \in all(n) |-> IF x \in S THEN Updated(r, x, columns) ELSE record(about[x[2]])]
<1>0. PICK n \in 0..MaxRows : \E about \in [1..n -> S] : Insert(r, new(n, about), "500")
  BY DEF ChangeCases
<1>1. PICK about \in [1..n -> S] : Insert(r, new(n, about), "500")
  BY <1>0
<1> DEFINE made == new(n, about)
           T == all(n)
<1>2. \A x \in S : db[x] # Null /\ db[x].table = "case" /\ Found(r, x)
  <2>1. IInv /\ "case" \in Lasting /\ "case" \in Referred
    BY DEF Linked, Lasting, Referred
  <2> QED
    BY <2>1, SeenStays, Askers
<1>3. call[r].org \in Ids /\ call[r].user \in Ids /\ Found(r, call[r].org) /\ Found(r, call[r].user)
  BY Askers
<1>4. ASSUME NEW x \in S
      PROVE  /\ Updated(r, x, columns) \in Row
             /\ \A y \in ForeignKeys(Updated(r, x, columns)) \ {Null} :
                  Found(r, y) \/ y \in ForeignKeys(db[x])
             /\ Emailed(Updated(r, x, columns), x)
             /\ KeepsKey(x, Updated(r, x, columns)) \/ call[r].op \in Uncaught
  <2>1. x \in Ids /\ db[x] # Null /\ Renames(r, columns, db[x].table)
    BY <1>2 DEF Renames
  <2>2. Updated(r, x, columns) \in Row
    BY <2>1, UpdatedKeeps DEF Linked
  <2> QED
    BY <2>1, <2>2, UpdatedLinks
<1>5. ASSUME NEW c \in S
      PROVE  /\ record(c) \in Row /\ record(c).table = "audit"
             /\ \A y \in ForeignKeys(record(c)) \ {Null} : Found(r, y)
  <2>1. record(c) \in Row
    BY <1>3, SoleType, TableMembers, StatesAssumption DEF Linked, IInv
  <2>2. record(c).table = "audit"
    BY DEF Sole
  <2> QED
    BY <1>2, <1>3, <2>1, <2>2, SoleLinks
<1>6. \A x \in own(n) : x \in {r} \X (1..MaxRows) /\ \E k \in 1..n : x = <<r, k>>
  BY IdsAssumption
<1>7. \A x \in T \ S : \E c \in S : made[x] = record(c)
  <2> SUFFICES ASSUME NEW x \in T \ S PROVE \E c \in S : made[x] = record(c)
    OBVIOUS
  <2>1. PICK k \in 1..n : x = <<r, k>>
    BY <1>6
  <2>2. x[2] = k /\ about[k] \in S
    BY <2>1
  <2> QED
    BY <2>2
<1>8. \A x \in S : made[x] = Updated(r, x, columns)
  OBVIOUS
<1>9. made = [x \in T |-> made[x]] /\ T \in SUBSET Ids /\ S \subseteq T
  BY <1>6 DEF Ids
<1> HIDE DEF record, own, all, new
<1> HIDE DEF made, T
<1>10. made \in [T -> Row]
  <2>1. \A x \in S : made[x] \in Row
    BY <1>4, <1>8
  <2>2. \A x \in T \ S : made[x] \in Row
    BY <1>5, <1>7
  <2> QED
    BY <1>9, <2>1, <2>2
<1>11. \A x \in T : Points(r, T, made, x) /\ Emailed(made[x], x)
  <2>1. ASSUME NEW x \in S PROVE Points(r, T, made, x) /\ Emailed(made[x], x)
    BY <1>2, <1>4, <1>8 DEF Points
  <2>2. ASSUME NEW x \in T \ S PROVE Points(r, T, made, x) /\ Emailed(made[x], x)
    BY <1>5, <1>7 DEF Points, Emailed
  <2> QED
    BY <2>1, <2>2
<1>12. (\A x \in T : Unlike(With(made), x)) \/ call[r].op \in Uncaught
  <2>1. ASSUME call[r].op \notin Uncaught, NEW x \in T
        PROVE  made[x].table \notin DOMAIN UniqueOn \/ KeepsKey(x, made[x])
    BY <1>4, <1>5, <1>7, <1>8, <2>1, Constrained
  <2> QED
    BY <1>9, <1>10, <2>1, KeptAreUnlike DEF Linked
<1>13. Insert(r, made, "500")
  BY <1>1 DEF made
<1> QED
  BY <1>9, <1>10, <1>11, <1>12, <1>13, InsertTells

LEMMA CaseTells ==
  ASSUME Linked, NEW r \in Requests, RowsStay, PatchCase(r) \/ BulkPatchCases(r) \/ DeleteCase(r)
  PROVE  Told(r)
<1>1. ASSUME pc[r] = "write", Unasked(r), call[r].id \in Ids, call[r].org \in Orgs,
             call[r].user \in Callers, NEW columns, Typed(columns), "name" \notin DOMAIN columns,
             ChangeCase(r, columns)
      PROVE  Told(r)
  <2>1. CASE Refuse(r, "404")
    BY <1>1, <2>1, RefuseTells DEF Codes
  <2>2. CASE SeesLive(r, call[r].id, "case") /\ ChangeCases(r, {call[r].id}, columns)
    <3>1. {call[r].id} \in SUBSET Ids /\ \A x \in {call[r].id} : Sees(r, x, "case")
      BY <1>1, <2>2 DEF SeesLive, SeesOwn
    <3> QED
      BY <1>1, <2>2, <3>1, ChangeCasesTells
  <2> QED
    BY <1>1, <2>1, <2>2 DEF ChangeCase
<1>2. CASE PatchCase(r)
  <2>1. pc[r] = "write" /\ call[r] \in Calls /\ call[r].op = "patchCase" /\ Unasked(r)
    BY <1>2, HandlerCalls DEF PatchCase
  <2>2. /\ call[r].id \in Ids /\ call[r].org \in Orgs /\ call[r].user \in Callers
        /\ call[r].state \in States
    BY <2>1, CaseCallShape
  <2> QED
    BY <1>1, <1>2, <2>1, <2>2, TypedColumns DEF PatchCase
<1>3. CASE DeleteCase(r)
  <2>1. pc[r] = "write" /\ call[r] \in Calls /\ call[r].op = "deleteCase" /\ Unasked(r)
    BY <1>3, HandlerCalls DEF DeleteCase
  <2>2. call[r].id \in Ids /\ call[r].org \in Orgs /\ call[r].user \in Callers
    BY <2>1, CaseCallShape
  <2> QED
    BY <1>1, <1>3, <2>1, <2>2, TypedColumns DEF DeleteCase
<1>4. CASE BulkPatchCases(r)
  <2> DEFINE S == {c \in call[r].ids : SeesLive(r, c, "case")}
  <2>1. pc[r] = "write" /\ call[r] \in Calls /\ call[r].op = "bulkPatchCases" /\ Unasked(r)
    BY <1>4, HandlerCalls DEF BulkPatchCases
  <2>2. /\ call[r].ids \subseteq Ids /\ call[r].org \in Orgs /\ call[r].user \in Callers
        /\ call[r].state \in States
    BY <2>1, CaseCallShape
  <2>3. S \in SUBSET Ids /\ \A x \in S : Sees(r, x, "case")
    BY <2>2 DEF SeesLive, SeesOwn
  <2>4. ChangeCases(r, S, [state |-> call[r].state])
    BY <1>4 DEF BulkPatchCases
  <2> HIDE DEF S
  <2> QED
    BY <2>1, <2>2, <2>3, <2>4, ChangeCasesTells, TypedColumns
<1> QED
  BY <1>2, <1>3, <1>4

LEMMA ObservableTells ==
  ASSUME Linked, NEW r \in Requests, RowsStay,
         PatchObservable(r) \/ DeleteObservable(r) \/ BulkPatchObservables(r)
  PROVE  Told(r)
<1>1. CASE PatchObservable(r) \/ DeleteObservable(r)
  <2>1. /\ pc[r] = "write" /\ call[r] \in Calls /\ Unasked(r)
        /\ call[r].op \in {"patchObservable", "deleteObservable"}
    BY <1>1, HandlerCalls DEF PatchObservable, DeleteObservable
  <2>2. call[r].id \in Ids
    BY <2>1, CaseCallShape
  <2>3. ASSUME NEW columns, Typed(columns), Renames(r, columns, "observable"),
               ChangeObservable(r, columns)
        PROVE  Told(r)
    <3>1. CASE Refuse(r, "404")
      BY <2>1, <3>1, RefuseTells DEF Codes
    <3>2. CASE Sees(r, call[r].id, "observable") /\ Update(r, call[r].id, columns)
      BY <2>1, <2>2, <2>3, <3>2, UpdateTells
    <3> QED
      BY <2>3, <3>1, <3>2 DEF ChangeObservable, SeesLive, SeesOwn
  <2> QED
    BY <1>1, <2>3, TypedColumns, PlainColumns DEF PatchObservable, DeleteObservable
<1>2. CASE BulkPatchObservables(r)
  <2> DEFINE S == {y \in call[r].ids : SeesLive(r, y, "observable")}
             columns == [state |-> r]
             new == [x \in S |-> Updated(r, x, columns)]
  <2>1. pc[r] = "write" /\ call[r] \in Calls /\ call[r].op = "bulkPatchObservables" /\ Unasked(r)
    BY <1>2, HandlerCalls DEF BulkPatchObservables
  <2>2. S \in SUBSET Ids
    BY <2>1, CaseCallShape
  <2>3. \A x \in S : Sees(r, x, "observable")
    BY DEF SeesLive, SeesOwn
  <2>4. Insert(r, new, "500")
    BY <1>2 DEF BulkPatchObservables
  <2>5. Typed(columns) /\ \A table : Renames(r, columns, table)
    BY TypedColumns, PlainColumns
  <2> HIDE DEF S, columns
  <2>6. \A x \in S : db[x] # Null
    <3>1. IInv /\ "observable" \in Lasting
      BY DEF Linked, Lasting
    <3> QED
      BY <2>1, <2>2, <2>3, <3>1, SeenStays
  <2>7. ASSUME NEW x \in S
        PROVE  /\ Updated(r, x, columns) \in Row /\ Emailed(Updated(r, x, columns), x)
               /\ \A y \in ForeignKeys(Updated(r, x, columns)) \ {Null} :
                    Found(r, y) \/ y \in ForeignKeys(db[x])
               /\ KeepsKey(x, Updated(r, x, columns)) \/ call[r].op \in Uncaught
    <3>1. x \in Ids /\ db[x] # Null /\ Renames(r, columns, db[x].table)
      BY <2>2, <2>5, <2>6
    <3>2. Updated(r, x, columns) \in Row
      BY <2>5, <3>1, UpdatedKeeps DEF Linked
    <3> QED
      BY <2>5, <3>1, <3>2, UpdatedLinks
  <2>8. new \in [S -> Row] /\ \A x \in S : new[x] = Updated(r, x, columns)
    BY <2>7
  <2> HIDE DEF new
  <2>9. \A x \in S : Points(r, S, new, x) /\ Emailed(new[x], x)
    BY <2>6, <2>7, <2>8 DEF Points
  <2>10. (\A x \in S : Unlike(With(new), x)) \/ call[r].op \in Uncaught
    <3>1. \A x \in S : KeepsKey(x, new[x]) \/ call[r].op \in Uncaught
      BY <2>7, <2>8
    <3> QED
      BY <2>2, <2>8, <3>1, KeptAreUnlike DEF Linked
  <2> QED
    BY <2>1, <2>2, <2>4, <2>8, <2>9, <2>10, InsertTells
<1> QED
  BY <1>1, <1>2

(* An import ends with the entries it kept, or with an error for which     *)
(* another import is the reason.                                           *)
LEMMA ImportTells ==
  ASSUME Linked, NEW r \in Requests, RowsStay, ImportTag(r) \/ ImportDeadlock(r) \/ ImportEnd(r)
  PROVE  Told(r)
<1>1. CASE ImportTag(r)
  BY <1>1 DEF Told
<1>2. CASE ImportDeadlock(r)
  <2>1. Imports \ {r} # {} /\ Refuse(r, "500")
    BY <1>2 DEF ImportDeadlock, Imports, Of
  <2> QED
    BY <2>1 DEF Told, Excused, Codes
<1>3. CASE ImportEnd(r)
  <2> DEFINE S == {<<r, k>> : k \in Staged(r)}
             new == [x \in S |-> Entry(r, x[2])]
             rows == With(new)
  <2>1. r \in Imports /\ pc[r] = "write"
    BY <1>3 DEF ImportEnd, Imports, Of
  <2>2. /\ call[r].org \in Orgs
        /\ \A k \in Staged(r) : /\ Entry(r, k) \in Row /\ Entry(r, k).table = "taxonomy"
                                /\ k \in 1..MaxRows
    BY <2>1, ImportFacts DEF Linked
  <2>3. \A k \in Staged(r) : <<r, k>> \in Ids /\ <<r, k>> \in S
    BY <2>2, NewIds
  <2>4. \A k \in 1..MaxRows : db[<<r, k>>] = Null
    BY <2>1 DEF Linked, IInv, PlacesStay
  <2>5. \A x \in S : \E k \in Staged(r) : x = <<r, k>> /\ new[x] = Entry(r, k)
    OBVIOUS
  <2>6. S \in SUBSET Ids /\ DOMAIN new = S
    BY <2>3
  <2>7. Commit(r, rows) \/ (GiveUp(r) /\ ~Fits(call[r]))
    BY <1>3 DEF ImportEnd, Kept
  <2>8. \A x \in Ids : rows[x] = (IF x \in S THEN new[x] ELSE db[x])
    BY <2>6 DEF With
  <2> HIDE DEF S, new, rows
  <2>9. \A x \in Ids : db[x] # Null => rows[x] = db[x]
    BY <2>2, <2>4, <2>5, <2>8
  <2>10. \A x \in S : /\ rows[x] # Null /\ rows[x].table = "taxonomy"
                      /\ ForeignKeys(rows[x]) = {call[r].org, Null}
    <3>1. \A k : ForeignKeys(Entry(r, k)) = {call[r].org, Null}
      BY DEF Entry, Sole, ForeignKeys
    <3> QED
      BY <2>2, <2>5, <2>6, <2>8, <3>1, NullOut
  <2>11. rows[call[r].org].table \in Referred
    <3>1. /\ call[r].org \in Ids /\ db[call[r].org] # Null
          /\ db[call[r].org].table = "organization"
      BY <2>2, OrgIds DEF Linked, IInv, PlacesStay
    <3> QED
      BY <2>9, <3>1 DEF Referred
  <2>12. ASSUME NEW x \in Ids, rows[x] # Null PROVE Links(rows[x], rows) /\ Emailed(rows[x], x)
    <3>1. CASE x \in S
      BY <2>10, <2>11, <3>1 DEF Links, Emailed
    <3>2. CASE x \notin S
      <4>1. rows[x] = db[x] /\ db[x] # Null
        BY <2>8, <2>12, <3>2
      <4>2. \A y \in ForeignKeys(db[x]) \ {Null} :
              y \in Ids /\ db[y] # Null /\ db[y].table \in Referred
        BY <4>1 DEF Linked, LeavesAreFree, IInv, Consistent, References, Refers
      <4> QED
        BY <2>9, <4>1, <4>2 DEF Links, Emailed, Linked, EmailsAreOwn
    <3> QED
      BY <3>1, <3>2
  <2>13. \A k \in 1..MaxRows : rows[<<r, k>>] # Null => rows[<<r, k>>].table = "taxonomy"
    BY <2>1, <2>4, <2>8, <2>10, NewIds DEF Imports
  <2>14. \A k \in Staged(r) : rows[<<r, k>>] # Null
    BY <2>3, <2>10
  <2>15. Allowed(r, rows)
    BY <2>9, <2>12, <2>13, <2>14 DEF Allowed
  <2> QED
    BY <2>7, <2>15 DEF Told
<1> QED
  BY <1>1, <1>2, <1>3

LEMMA LibraryTells ==
  ASSUME Linked, NEW r \in Requests, RowsStay, LibraryStep(r)
  PROVE  Told(r)
  BY KbTells, ApplyTemplateTells, TaxonomyTells, ImportTells, TtpTells, PageTells,
     CreateCommentTells, CommentTells, CaseTells, ObservableTells DEF LibraryStep

-----------------------------------------------------------------------------
(* What is told stays true.                                                *)
LEMMA StillOvertaken ==
  ASSUME IInv, OnClock, OnTime, NEW q \in Requests, began'[q] = began[q], Overtaken(q)
  PROVE  Overtaken(q)'
<1>1. PICK s \in Requests \ {q} : began[s] # 0 /\ ended[s] > began[q]
  BY DEF Overtaken
<1>2. began[q] < clock /\ clock # 0
  BY DEF OnClock
<1>3. began'[s] # 0
  BY <1>1, <1>2 DEF OnTime
<1>4. ended'[s] > began[q]
  BY <1>1, <1>2 DEF OnTime, IInv, TypeOK
<1> QED
  BY <1>1, <1>3, <1>4 DEF Overtaken
LEMMA StillOnClock ==
  ASSUME IInv, IInv', OnClock, OnTime,
         \A q \in Requests : pc'[q] = "write" => pc[q] = "write" \/ began'[q] = clock
  PROVE  OnClock'
<1>1. clock \in Nat /\ clock' \in Nat /\ clock # 0 /\ clock' >= clock
  BY DEF IInv, TypeOK, OnClock, OnTime
<1>2. \A q \in Requests : began'[q] < clock'
  BY <1>1 DEF IInv, TypeOK, OnClock, OnTime
<1>3. \A q \in Requests : pc'[q] = "write" => began'[q] # 0
  BY <1>1 DEF OnClock, OnTime
<1> QED
  BY <1>1, <1>2, <1>3 DEF OnClock
LEMMA StillDropped ==
  ASSUME OnTime, call' = call, NEW x, Dropped(x)
  PROVE  Dropped(x)'
  BY DEF Dropped, Done, OnTime

(* A step that commits nothing: r goes on with what it reads, or with what *)
(* it had read; it fails if that is excused, or nobody catches the error;  *)
(* an import goes on, or waited for another; and it answers with a tag.    *)
CommitsNothing(r) ==
  /\ db' = db /\ call' = call
  /\ \A q \in Requests \ {r} : /\ pc'[q] = pc[q] /\ seen'[q] = seen[q]
                               /\ began'[q] = began[q] /\ answer'[q] = answer[q]
  /\ pc'[r] = "write" =>
       \/ pc[r] = "write" /\ began'[r] = began[r] /\ seen'[r] = seen[r]
       \/ began'[r] = clock /\ seen'[r] = db
  /\ pc'[r] \in {"500", "409"} /\ call[r].op \notin Uncaught =>
       /\ \/ pc[r] = "write" /\ Excused(r, pc'[r])
          \/ pc'[r] = "500" /\ ~Fits(call[r])
       /\ began'[r] = began[r] /\ seen'[r] = seen[r]
  /\ r \in Imports => pc'[r] = "write" \/ Imports \ {r} # {}
  /\ call[r].op = "importMisp" =>
       /\ Done(r)' => Done(r)
       /\ \/ answer'[r] = answer[r]
          \/ /\ ~Done(r) /\ Len(answer'[r]) \in 1..MaxRows
             /\ \A k \in 1..(Len(answer'[r]) - 1) :
                  k \in 1..MaxRows /\ answer'[r][k] \in {{}, {<<r, k>>}}
             /\ answer'[r][Len(answer'[r])] \in {{}, {<<r, Len(answer'[r])>>}}
LEMMA NothingCommitted ==
  ASSUME IInv, IInv', AnswerIInv, OnTime, NEW r \in Requests, CommitsNothing(r)
  PROVE  AnswerIInv'
<1> USE DEF CommitsNothing
<1> USE DEF AnswerIInv
<1>1. OnClock'
  BY StillOnClock
<1>2. ReadsAreFresh'
  <2> SUFFICES ASSUME NEW q \in Requests, pc'[q] = "write"
               PROVE  seen'[q] = db' \/ Overtaken(q)'
    BY DEF ReadsAreFresh
  <2>1. CASE q = r /\ seen'[r] = db
    BY <2>1
  <2>2. CASE pc[q] = "write" /\ seen'[q] = seen[q] /\ began'[q] = began[q]
    BY <2>2, StillOvertaken DEF ReadsAreFresh
  <2> QED
    BY <2>1, <2>2
<1>3. LeavesAreFree' /\ EmailsAreOwn'
  BY DEF LeavesAreFree, EmailsAreOwn
<1>4. FailuresMeet'
  <2> SUFFICES ASSUME NEW q \in Requests, pc'[q] = "500", Fits(call[q]),
                      call[q].op \notin Uncaught
               PROVE  Overtaken(q)' \/ Imports' \ {q} # {}
    BY DEF FailuresMeet, Fits
  <2>1. began'[q] = began[q]
    OBVIOUS
  <2>2. Overtaken(q) \/ Imports \ {q} # {}
    <3>1. CASE pc[q] = "500"
      BY <3>1 DEF FailuresMeet
    <3>2. CASE q = r /\ pc[r] = "write" /\ Excused(r, "500")
      BY <3>2 DEF Excused, ReadsAreFresh
    <3> QED
      BY <3>1, <3>2
  <2>3. ASSUME NEW p \in Imports \ {q} PROVE Imports' \ {q} # {}
    <3>1. CASE p # r
      BY <3>1 DEF Imports
    <3>2. CASE p = r /\ pc'[r] = "write"
      BY <2>3, <3>2 DEF Imports
    <3>3. CASE p = r /\ Imports \ {r} # {}
      <4>1. PICK s \in Imports : s # r
        BY <3>3
      <4>2. pc[q] = "500" /\ pc[s] = "write"
        BY <2>3, <3>3, <4>1 DEF Imports
      <4> QED
        BY <4>1, <4>2 DEF Imports
    <3> QED
      BY <2>3, <3>1, <3>2, <3>3
  <2> QED
    BY <2>1, <2>2, <2>3, StillOvertaken
<1>5. RefusalsSaw'
  <2> SUFFICES ASSUME NEW q \in Requests, pc'[q] = "409", call[q].op \in DOMAIN SayTaken
               PROVE  Overtaken(q)' \/ TakenWhenRead(q)'
    BY DEF RefusalsSaw
  <2>1. call[q].op \notin Uncaught
    BY DEF Uncaught, SayTaken
  <2>2. began'[q] = began[q] /\ seen'[q] = seen[q]
    BY <2>1
  <2>3. Overtaken(q) \/ TakenWhenRead(q)
    <3>1. CASE pc[q] = "409"
      BY <3>1 DEF RefusalsSaw
    <3>2. CASE q = r /\ pc[r] = "write" /\ Excused(r, "409")
      BY <3>2 DEF Excused, ReadsAreFresh
    <3> QED
      BY <2>1, <3>1, <3>2
  <2> QED
    BY <2>2, <2>3, StillOvertaken DEF TakenWhenRead
<1>6. TagsAreThere'
  <2> SUFFICES ASSUME NEW q \in Requests, call[q].op = "importMisp"
               PROVE  /\ \A k \in 1..Len(answer'[q]) :
                           k \in 1..MaxRows /\ answer'[q][k] \in {{}, {<<q, k>>}}
                      /\ \A k \in 1..MaxRows : db[<<q, k>>] # Null => db[<<q, k>>].table = "taxonomy"
                      /\ Done(q)' => \A k \in Staged(q)' : db[<<q, k>>] # Null \/ Dropped(<<q, k>>)'
    BY DEF TagsAreThere
  <2>1. \A k \in 1..MaxRows : db[<<q, k>>] # Null => db[<<q, k>>].table = "taxonomy"
    BY DEF TagsAreThere
  <2>2. CASE answer'[q] = answer[q]
    <3>1. Staged(q)' = Staged(q)
      BY <2>2 DEF Staged
    <3>2. Done(q)' => Done(q)
      BY DEF Done
    <3> QED
      BY <2>1, <2>2, <3>1, <3>2, StillDropped DEF TagsAreThere
  <2>3. CASE q = r /\ answer'[q] # answer[q]
    <3>1. \A k \in 1..Len(answer'[r]) : k = Len(answer'[r]) \/ k \in 1..(Len(answer'[r]) - 1)
      BY <2>3
    <3> QED
      BY <2>1, <2>3, <3>1
  <2> QED
    BY <2>2, <2>3
<1> QED
  BY <1>1, <1>2, <1>3, <1>4, <1>5, <1>6

(* A commit: whoever is still at work has been overtaken.                  *)
LEMMA Committing ==
  ASSUME IInv, IInv', AnswerIInv, OnTime, RowsStay, NEW r \in Requests, pc[r] = "write",
         NEW rows, Commit(r, rows), Allowed(r, rows)
  PROVE  AnswerIInv'
<1> USE DEF AnswerIInv
<1>1. /\ db' = rows /\ call' = call /\ seen' = seen /\ answer' = answer /\ began' = began
      /\ pc' = [pc EXCEPT ![r] = "200"] /\ ended' = [ended EXCEPT ![r] = clock]
  BY DEF Commit
<1>2. /\ \A q \in Requests : pc'[q] = (IF q = r THEN "200" ELSE pc[q])
      /\ ended'[r] = clock
  BY <1>1 DEF IInv, TypeOK
<1>3. OnClock'
  BY <1>1, <1>2, StillOnClock
<1>4. \A q \in Requests \ {r} : Overtaken(q)'
  <2>1. began'[r] # 0 /\ \A q \in Requests : ended'[r] > began'[q]
    BY <1>1, <1>2 DEF OnClock, IInv, TypeOK
  <2> QED
    BY <2>1 DEF Overtaken
<1>5. ReadsAreFresh' /\ FailuresMeet' /\ RefusalsSaw'
  BY <1>2, <1>4 DEF ReadsAreFresh, FailuresMeet, RefusalsSaw
<1>6. LeavesAreFree' /\ EmailsAreOwn'
  BY <1>1 DEF Allowed, Links, Emailed, LeavesAreFree, EmailsAreOwn
<1>7. TagsAreThere'
  <2>0. \A q : Staged(q)' = Staged(q)
    BY <1>1 DEF Staged
  <2> SUFFICES ASSUME NEW q \in Requests, call[q].op = "importMisp"
               PROVE  /\ \A k \in 1..Len(answer[q]) :
                           k \in 1..MaxRows /\ answer[q][k] \in {{}, {<<q, k>>}}
                      /\ \A k \in 1..MaxRows : rows[<<q, k>>] # Null => rows[<<q, k>>].table = "taxonomy"
                      /\ Done(q)' => \A k \in Staged(q) : rows[<<q, k>>] # Null \/ Dropped(<<q, k>>)'
    BY <1>1, <2>0 DEF TagsAreThere
  <2>1. \A k \in 1..Len(answer[q]) : k \in 1..MaxRows /\ answer[q][k] \in {{}, {<<q, k>>}}
    BY DEF TagsAreThere
  <2>2. CASE q = r
    BY <2>1, <2>2 DEF Allowed, Unasked
  <2>3. CASE q # r /\ ~Done(q)
    <3>1. pc'[q] # "200"
      BY <1>2, <2>3 DEF Done
    <3>2. \A k \in 1..MaxRows : rows[<<q, k>>] = Null
      BY <1>1, <3>1 DEF IInv, PlacesStay
    <3> QED
      BY <2>1, <3>1, <3>2 DEF Done
  <2>4. CASE q # r /\ Done(q)
    <3>1. ASSUME NEW k \in 1..MaxRows, rows[<<q, k>>] # Null
          PROVE  rows[<<q, k>>].table = "taxonomy"
      <4>1. <<q, k>> \in Ids
        BY NewIds
      <4>2. db[<<q, k>>] # Null
        BY <1>1, <2>4, <3>1, <4>1 DEF RowsStay, Done
      <4>3. rows[<<q, k>>].table = db[<<q, k>>].table
        BY <1>1, <3>1, <4>1, <4>2 DEF RowsStay, Follows, SamePlace
      <4> QED
        BY <4>2, <4>3 DEF TagsAreThere
    <3>2. ASSUME NEW k \in Staged(q), rows[<<q, k>>] = Null
          PROVE  Dropped(<<q, k>>)'
      <4>1. k \in 1..MaxRows /\ <<q, k>> \in Ids
        BY <2>1, NewIds DEF Staged
      <4>2. CASE Dropped(<<q, k>>)
        BY <1>1, <4>2, StillDropped
      <4>3. CASE db[<<q, k>>] # Null
        <5>1. db[<<q, k>>].table = "taxonomy"
          BY <4>1, <4>3 DEF TagsAreThere
        <5>2. call[r].op = "deleteTaxonomy" /\ call[r].id = <<q, k>>
          BY <3>2, <4>1, <4>3, <5>1 DEF Allowed
        <5> QED
          BY <1>1, <1>2, <5>2 DEF Dropped, Done
      <4> QED
        BY <2>4, <4>2, <4>3 DEF TagsAreThere
    <3> QED
      BY <2>1, <3>1, <3>2
  <2> QED
    BY <2>2, <2>3, <2>4
<1> QED
  BY <1>3, <1>5, <1>6, <1>7

(* An import that gives up: it too overtakes whoever is still at work.     *)
LEMMA GivingUp ==
  ASSUME IInv, IInv', AnswerIInv, OnTime, NEW r \in Requests, pc[r] = "write",
         GiveUp(r), ~Fits(call[r])
  PROVE  AnswerIInv'
<1> USE DEF AnswerIInv
<1>1. /\ UNCHANGED <<db, call, seen, answer, began>>
      /\ pc' = [pc EXCEPT ![r] = "500"] /\ ended' = [ended EXCEPT ![r] = clock]
  BY DEF GiveUp
<1>2. /\ \A q \in Requests : pc'[q] = (IF q = r THEN "500" ELSE pc[q])
      /\ ended'[r] = clock
  BY <1>1 DEF IInv, TypeOK
<1>3. OnClock'
  BY <1>1, <1>2, StillOnClock
<1>4. \A q \in Requests \ {r} : Overtaken(q)'
  <2>1. began'[r] # 0 /\ \A q \in Requests : ended'[r] > began'[q]
    BY <1>1, <1>2 DEF OnClock, IInv, TypeOK
  <2> QED
    BY <2>1 DEF Overtaken
<1>5. ReadsAreFresh' /\ FailuresMeet' /\ RefusalsSaw'
  <2>1. ~Fits(call'[r])
    BY <1>1
  <2> QED
    BY <1>2, <1>4, <2>1 DEF ReadsAreFresh, FailuresMeet, RefusalsSaw
<1>6. LeavesAreFree' /\ EmailsAreOwn'
  BY <1>1 DEF LeavesAreFree, EmailsAreOwn
<1>7. TagsAreThere'
  <2>1. \A q : Staged(q)' = Staged(q) /\ (Dropped(q) => Dropped(q)')
    BY <1>1, StillDropped DEF Staged
  <2>2. \A q \in Requests : Done(q)' => Done(q)
    BY <1>2 DEF Done
  <2> QED
    BY <1>1, <2>1, <2>2 DEF TagsAreThere
<1> QED
  BY <1>3, <1>5, <1>6, <1>7

(* Every handler keeps it.                                                 *)
LEMMA HandlersWrite ==
  ASSUME NEW r, AccountStep(r) \/ LibraryStep(r)
  PROVE  pc[r] = "write"
<1>1. CASE AccountStep(r)
  BY <1>1 DEF AccountStep, Of, InviteUser, PatchUser, DeleteUser, LockUser, UnlockUser, AcceptInvite,
    MfaEnroll, MfaConfirm, MfaDisable, MfaRegenerate, AdminResetMfa, CreateProfile, PatchProfile,
    DeleteProfile, PatchOrg, CreateSharing, DeleteSharing, CreateMyKey, RevokeMyKey,
    AdminRevokeKey, EraseUser
<1>2. CASE LibraryStep(r)
  BY <1>2 DEF LibraryStep, Of, CreateKbPage, PatchKbPage, CloneKbPage, DeleteKbPage, CreateTemplate,
    PatchTemplate, CloneCaseTemplate, DeleteTemplate, ApplyTemplate, CreateTaxonomyEntry,
    DeleteTaxonomyEntry, ImportTag, ImportDeadlock, ImportEnd, UpsertCatalogEntry, AddCaseTtp,
    PatchCaseTtp, RemoveCaseTtp, CreateCasePage, PatchCasePage, DeleteCasePage, CreateComment,
    PatchComment, MarkMentionsSeen, PatchCase, BulkPatchCases, DeleteCase, PatchObservable,
    DeleteObservable, BulkPatchObservables
<1> QED
  BY <1>1, <1>2
LEMMA TagCommitsNothing ==
  ASSUME IInv, AnswerIInv, NEW r \in Requests, ImportTag(r)
  PROVE  CommitsNothing(r)
<1> DEFINE k == Len(answer[r]) + 1
<1>1. r \in Imports /\ pc[r] = "write" /\ call[r].op = "importMisp"
  BY DEF ImportTag, Of, Imports
<1>2. UNCHANGED <<db, call, pc, seen, began>> /\ k <= Len(call[r].tags)
  BY DEF ImportTag
<1>3. PICK step \in {{}, {<<r, k>>}} : answer' = [answer EXCEPT ![r] = Append(@, step)]
  BY DEF ImportTag
<1>4. /\ answer[r] \in Seq(SUBSET Ids) /\ Len(answer[r]) \in Nat
      /\ Len(call[r].tags) \in 0..MaxRows
  BY <1>1, ImportFacts
<1>5. k \in 1..MaxRows
  BY <1>2, <1>4, IdsAssumption
<1>6. \A q \in Requests : answer'[q] = (IF q = r THEN Append(answer[r], step) ELSE answer[q])
  BY <1>3 DEF IInv, TypeOK
<1>7. step \in SUBSET Ids
  <2>1. <<r, k>> \in Ids
    BY <1>5, NewIds
  <2>2. {} \in SUBSET Ids /\ {<<r, k>>} \in SUBSET Ids
    BY <2>1
  <2> QED
    BY <1>3, <2>2
<1>8. /\ Len(answer'[r]) = k /\ answer'[r][k] = step
      /\ \A j \in 1..(k - 1) : j \in 1..Len(answer[r]) /\ answer'[r][j] = answer[r][j]
  <2>1. answer'[r] = Append(answer[r], step)
    BY <1>6
  <2> QED
    BY <1>4, <1>7, <2>1, AppendFacts
<1>9. \A j \in 1..(k - 1) : j \in 1..MaxRows /\ answer'[r][j] \in {{}, {<<r, j>>}}
  BY <1>1, <1>8 DEF AnswerIInv, TagsAreThere
<1> QED
  BY <1>1, <1>2, <1>3, <1>5, <1>6, <1>8, <1>9 DEF CommitsNothing, Done
LEMMA HandlersKeepAnswers ==
  ASSUME IInv, AnswerIInv, NEW r \in Requests, UNCHANGED indexerVars,
         AccountStep(r) \/ LibraryStep(r)
  PROVE  AnswerIInv'
<1>1. IInv' /\ RowsStay /\ OnTime /\ pc[r] = "write"
  BY HandlersWrite, AccountKeeps, LibraryKeeps DEF Keeps, Quiet
<1>2. Told(r)
  BY <1>1, AccountTells, LibraryTells DEF Linked, AnswerIInv
<1>3. CASE ImportTag(r)
  BY <1>1, <1>3, TagCommitsNothing, NothingCommitted
<1>4. ASSUME NEW code \in Codes, Refuse(r, code), Excused(r, code)
      PROVE  AnswerIInv'
  <2>1. /\ UNCHANGED <<db, call, seen, answer, began>>
        /\ \A q \in Requests : pc'[q] = (IF q = r THEN code ELSE pc[q])
    BY <1>4 DEF Refuse, IInv, TypeOK
  <2>2. code # "200" /\ code # "write"
    BY DEF Codes
  <2>3. r \in Imports => Imports \ {r} # {}
    BY <1>4 DEF Excused, Unasked, Imports
  <2>4. CommitsNothing(r)
    BY <1>1, <1>4, <2>1, <2>2, <2>3 DEF CommitsNothing, Done
  <2> QED
    BY <1>1, <2>4, NothingCommitted
<1>5. ASSUME NEW rows, Commit(r, rows), Allowed(r, rows)
      PROVE  AnswerIInv'
  BY <1>1, <1>5, Committing
<1>6. CASE GiveUp(r) /\ ~Fits(call[r])
  BY <1>1, <1>6, GivingUp
<1> QED
  BY <1>2, <1>3, <1>4, <1>5, <1>6 DEF Told
LEMMA ReadsKeepAnswers ==
  ASSUME IInv, AnswerIInv, NEW r \in Requests, UNCHANGED indexerVars, Read(r)
  PROVE  AnswerIInv'
<1>1. IInv' /\ OnTime
  BY ReadKeeps DEF Keeps, Quiet
<1>2. pc[r] = "read"
  BY DEF Read
<1>3. /\ \A q \in Requests : pc'[q] = (IF q = r THEN "write" ELSE pc[q])
      /\ \A q \in Requests : seen'[q] = (IF q = r THEN db ELSE seen[q])
      /\ \A q \in Requests : began'[q] = (IF q = r THEN clock ELSE began[q])
      /\ UNCHANGED <<db, call, answer>>
  BY DEF Read, Begin, IInv, TypeOK
<1>4. CommitsNothing(r)
  BY <1>2, <1>3 DEF CommitsNothing, Imports, Done
<1> QED
  BY <1>1, <1>4, NothingCommitted
LEMMA ViewsKeepAnswers ==
  ASSUME IInv, AnswerIInv, NEW r \in Requests,
         (View(r) /\ UNCHANGED indexerVars) \/ SearchSimilarCases(r)
  PROVE  AnswerIInv'
<1>1. OnlyAnswers(r)
  BY ViewKeeps
<1>2. call[r].op # "importMisp" /\ r \notin Imports
  BY <1>1 DEF OnlyAnswers, Acting, Imports
<1>3. /\ UNCHANGED <<db, call>> /\ pc'[r] # "write"
      /\ \A q \in Requests \ {r} :
           pc'[q] = pc[q] /\ answer'[q] = answer[q] /\ seen'[q] = seen[q] /\ began'[q] = began[q]
      /\ pc'[r] = "409" => call[r].op \in Uncaught
      /\ pc'[r] = "500" => call[r].op \in Uncaught \/ ~Fits(call[r])
  BY <1>1 DEF OnlyAnswers
<1>4. pc'[r] \in {"500", "409"} => began'[r] = began[r] /\ seen'[r] = seen[r]
  BY <1>1 DEF OnlyAnswers, Replies
<1>5. CommitsNothing(r)
  BY <1>2, <1>3, <1>4 DEF CommitsNothing
<1> QED
  BY <1>1, <1>5, NothingCommitted DEF OnlyAnswers

LEMMA InitAnswers == BackOfficeInit => AnswerIInv
<1> SUFFICES ASSUME BackOfficeInit PROVE AnswerIInv
  OBVIOUS
<1> USE DEF BackOfficeInit, Init
<1>1. /\ \A r \in Requests : /\ pc[r] \in {"idle", "read"} /\ answer[r] = <<>>
                             /\ began[r] = 0
      /\ clock \in Nat \ {0}
  BY IdsAssumption
<1>2. \A x \in Ids : db[x] # Null => x \in First /\ db[x] = FirstRow[x]
  OBVIOUS
<1>3. OnClock /\ ReadsAreFresh /\ FailuresMeet /\ RefusalsSaw
  BY <1>1 DEF OnClock, ReadsAreFresh, FailuresMeet, RefusalsSaw
<1>4. LeavesAreFree
  <2> SUFFICES ASSUME NEW x \in First, NEW y \in ForeignKeys(FirstRow[x]) \ {Null}
               PROVE  db[y].table \in Referred
    BY <1>2 DEF LeavesAreFree
  <2>1. y \in First /\ db[y] = FirstRow[y]
    BY FirstAssumption, OrgIds
  <2> QED
    BY <2>1, ReferredAssumption
<1>5. EmailsAreOwn
  BY <1>2, EmailAssumption DEF EmailsAreOwn
<1>6. TagsAreThere
  <2> SUFFICES ASSUME NEW r \in Requests
               PROVE  /\ Len(answer[r]) = 0 /\ ~Done(r)
                      /\ \A k \in 1..MaxRows : db[<<r, k>>] = Null
    BY DEF TagsAreThere
  <2>1. \A k \in 1..MaxRows : db[<<r, k>>] = Null
    BY <1>1, InitIInv DEF IInv, PlacesStay
  <2> QED
    BY <1>1, <2>1 DEF Done
<1> QED
  BY <1>3, <1>4, <1>5, <1>6 DEF AnswerIInv
LEMMA NextAnswers == IInv /\ AnswerIInv /\ [Next]_vars => AnswerIInv'
<1> SUFFICES ASSUME IInv, AnswerIInv, [Next]_vars PROVE AnswerIInv'
  OBVIOUS
<1>1. ASSUME UNCHANGED tableVars PROVE AnswerIInv'
  <2> USE <1>1 DEF tableVars, AnswerIInv
  <2>1. /\ Imports' = Imports
        /\ \A q : Overtaken(q)' = Overtaken(q) /\ TakenWhenRead(q)' = TakenWhenRead(q)
    BY DEF Imports, Overtaken, TakenWhenRead
  <2>2. (OnClock /\ ReadsAreFresh /\ LeavesAreFree /\ EmailsAreOwn /\ FailuresMeet /\ RefusalsSaw)'
    BY <2>1 DEF OnClock, ReadsAreFresh, LeavesAreFree, EmailsAreOwn, FailuresMeet, RefusalsSaw
  <2>3. \A q : Staged(q)' = Staged(q) /\ Dropped(q)' = Dropped(q) /\ Done(q)' = Done(q)
    BY DEF Staged, Dropped, Done
  <2>4. TagsAreThere'
    BY <2>3 DEF TagsAreThere
  <2> QED
    BY <2>2, <2>4
<1>2. CASE UNCHANGED vars \/ (\E w \in Workers : Query(w) \/ Index(w) \/ LoseRound(w)) \/ Backfill
  BY <1>1, <1>2 DEF vars, Query, Index, LoseRound, Backfill
<1>3. ASSUME NEW r \in Requests, Read(r) \/ AccountStep(r) \/ LibraryStep(r),
             UNCHANGED indexerVars
      PROVE  AnswerIInv'
  BY <1>3, ReadsKeepAnswers, HandlersKeepAnswers
<1>4. ASSUME NEW r \in Requests,
             (View(r) /\ UNCHANGED indexerVars) \/ SearchSimilarCases(r)
      PROVE  AnswerIInv'
  BY <1>4, ViewsKeepAnswers
<1> QED
  BY <1>2, <1>3, <1>4 DEF Next

(* What a request is told is true, whatever runs beside it: it fails with  *)
(* 500 only if another commits after it read, or an import is under way,   *)
(* that its name is taken only if it saw such a row or another committed   *)
(* since, and the tags that an import counts are there unless a later one  *)
(* of the same import was taken, or they were deleted.                     *)
THEOREM TrueAnswers == Spec => []AnswersAreTrue
  BY Invariance, InitAnswers, NextAnswers, AnswerIInvImplies, PTL DEF Spec
=============================================================================
