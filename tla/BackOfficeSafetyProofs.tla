----------------------- MODULE BackOfficeSafetyProofs -----------------------
(***************************************************************************)
(* Proofs of what BackOffice promises to who asks and to who writes, for   *)
(* any number of requests, rows and organizations and however statements   *)
(* and commits follow each other.                                          *)
(*                                                                         *)
(* The views keep to the organization of who asks and to what is not       *)
(* deleted.  What a view answered with may change or go before its next    *)
(* statement, but by RowsStay it does not move and does not come back, and *)
(* who deletes it now does so after the view began.  The views of ByParent *)
(* ask for comments and logs by a case or a task alone, once they have     *)
(* found that: what is AtHome makes up for it.                             *)
(*                                                                         *)
(* A handler overwrites accounts, seeds and texts that it read before      *)
(* others committed.  First it is told what each handler may do to them    *)
(* (Tells), then what is remembered of the past (OverwriteIInv) is shown   *)
(* to stay true whatever commits.                                          *)
(*                                                                         *)
(* A client that asks again is told what it has not seen.  What a request  *)
(* read is kept in mind, next to the rows that are there (FollowIInv):     *)
(* what is no longer as it was read has the time of a writer that          *)
(* committed since, so that the answers of a poll and of its next, of two  *)
(* pages and of a look at the mentions and the next count can be compared. *)
(***************************************************************************)
EXTENDS BackOfficeProofs, FiniteSetTheorems

Scoped(r) == IsQuery(r) /\ call[r].op \notin AnyOrganization \cap Anyhow
OfTenant(r, row, x) ==
  \/ call[r].op \in AnyOrganization
  \/ row.org = call[r].org \/ row.table = "technique"
  \/ row.table = "user" /\ Joined(r, x, call[r].org)
(* The tables with a deleted_at that a handler sets.                       *)
Removable == {"user", "case", "observable"}
There(row) == row.table \notin Removable \/ ~row.gone
Mine(r) ==
  {x \in Ids : x = call[r].user \/ (/\ db[x] # Null /\ OfTenant(r, db[x], x)
                                    /\ call[r].op \in Anyhow \/ There(db[x]))}

(* A row that is there or was: it will not be inserted.                    *)
Known(x) == \A q \in Requests, k \in 1..MaxRows : x = <<q, k>> => pc[q] = "200"
Proper(r, x) ==
  \/ x = call[r].user
  \/ /\ Known(x)
     /\ db[x] # Null => OfTenant(r, db[x], x)
     /\ seen[r][x] # Null => OfTenant(r, seen[r][x], x)
     /\ call[r].op \in Anyhow \/ ~DeletedBefore(r, x)
ByParent == {"contributors", "myContribution", "taskLogs"}
Entered(r) ==
  /\ call[r].id \in Ids /\ Known(call[r].id)
  /\ db[call[r].id] # Null => db[call[r].id].org = call[r].org
ProperAnswers(r) ==
  /\ answer[r] \in Seq(SUBSET Ids)
  /\ \A k \in 1..Len(answer[r]) : \A x \in answer[r][k] : Proper(r, x)
  /\ pc[r] = "200" => answer[r] # <<>>
  /\ answer[r] # <<>> => /\ call[r].op \in ByParent => Entered(r)
                         /\ call[r].op \in OfOneCase => ~DeletedBefore(r, call[r].id)
AnswersAreProper == \A r \in Requests : Scoped(r) => ProperAnswers(r)
IsCase(x) == x \in Ids /\ db[x] # Null /\ db[x].table = "case"
EmbeddedAreCases ==
  /\ \A x \in embedded : IsCase(x)
  /\ \A w \in Workers : \A x \in todo[w] : IsCase(x)
IsGone(x) == x \in Ids /\ db[x] # Null /\ ~There(db[x])
DeletionsShow ==
  \A s \in Requests : Done(s) /\ call[s].op \in Deleting => IsGone(call[s].id)
BegunByNow == \A r \in Requests : began[r] <= clock
TenantIInv == IInv /\ AnswersAreProper /\ EmbeddedAreCases /\ DeletionsShow /\ BegunByNow

LEMMA TenantIInvImplies == TenantIInv => AnswersAreConfined
<1> SUFFICES ASSUME TenantIInv PROVE AnswersAreConfined
  OBVIOUS
<1>1. ASSUME NEW r \in Requests, IsQuery(r), call[r].op \notin AnyOrganization,
             NEW k \in 1..Len(answer[r]), NEW x \in answer[r][k], seen[r][x] # Null
      PROVE  Belongs(r, x)
  <2>1. Proper(r, x)
    BY <1>1 DEF TenantIInv, AnswersAreProper, ProperAnswers, Scoped
  <2> QED
    BY <1>1, <2>1 DEF Proper, OfTenant, Joined, Belongs
<1>2. ASSUME NEW r \in Requests, IsQuery(r), call[r].op \notin Anyhow,
             NEW k \in 1..Len(answer[r]), NEW x \in answer[r][k], x # call[r].user
      PROVE  ~DeletedBefore(r, x)
  BY <1>2 DEF TenantIInv, AnswersAreProper, ProperAnswers, Scoped, Proper
<1>3. ASSUME NEW r \in Requests, IsQuery(r), Done(r), call[r].op \in OfOneCase
      PROVE  ~DeletedBefore(r, call[r].id)
  BY <1>3 DEF TenantIInv, AnswersAreProper, ProperAnswers, Scoped, Done, OfOneCase, Anyhow
<1> QED
  BY <1>1, <1>2, <1>3 DEF AnswersAreConfined, AnswersOfTheTenant

-----------------------------------------------------------------------------
(* What others commit leaves answers and embeddings as proper as they are. *)
LEMMA KnownRows ==
  ASSUME IInv, NEW x \in Ids, db[x] # Null
  PROVE  Known(x)
  BY DEF IInv, PlacesStay, Known

LEMMA KnownStays ==
  ASSUME RowsStay, OnTime, NEW x \in Ids, Known(x)
  PROVE  /\ Known(x)'
         /\ db'[x] # Null => db[x] # Null /\ Follows(db[x], db'[x])
  BY DEF RowsStay, OnTime, Known

LEMMA JoinedStays ==
  ASSUME RowsStay, NEW r, NEW u, NEW o, Joined(r, u, o)
  PROVE  \E m \in Ids : db'[m] # Null /\ db'[m].table = "member" /\ db'[m].under = u /\ db'[m].org = o
<1>1. PICK m \in Ids : db[m] # Null /\ db[m].table = "member" /\ db[m].under = u /\ db[m].org = o
  BY DEF Joined
<1>2. db'[m] # Null
  BY <1>1 DEF RowsStay, Lasting
<1>3. Follows(db[m], db'[m])
  BY <1>1, <1>2 DEF RowsStay
<1> QED
  BY <1>1, <1>2, <1>3 DEF Follows, SamePlace

(* Who deletes now does so after every view that has begun.                *)
Punctual ==
  \A s \in Requests : pc'[s] = "200" /\ call[s].op \in Deleting => pc[s] = "200" \/ ended'[s] = clock
LEMMA NoneIsLate ==
  ASSUME IInv, BegunByNow, OnTime, Punctual, call' = call,
         NEW r \in Requests, began'[r] = began[r], NEW x, DeletedBefore(r, x)'
  PROVE  DeletedBefore(r, x)
<1>1. PICK s \in Requests : /\ pc'[s] = "200" /\ call[s].op \in Deleting /\ call[s].id = x
                            /\ ended'[s] < began[r]
  BY DEF DeletedBefore, Done
<1>2. began[r] <= clock /\ began[r] \in Nat /\ clock \in Nat
  BY DEF IInv, TypeOK, BegunByNow
<1>3. pc[s] = "200" /\ ended'[s] = ended[s]
  BY <1>1, <1>2 DEF Punctual, OnTime
<1> QED
  BY <1>1, <1>3 DEF DeletedBefore, Done

LEMMA ProperStays ==
  ASSUME IInv, BegunByNow, RowsStay, OnTime, Punctual, call' = call,
         NEW r \in Requests, seen'[r] = seen[r], began'[r] = began[r], NEW x \in Ids, Proper(r, x)
  PROVE  Proper(r, x)'
<1>1. CASE x = call[r].user
  BY <1>1 DEF Proper
<1>2. CASE x # call[r].user
  <2>1. /\ Known(x) /\ (db[x] # Null => OfTenant(r, db[x], x))
        /\ seen[r][x] # Null => OfTenant(r, seen[r][x], x)
    BY <1>2 DEF Proper
  <2>2. Known(x)' /\ (db'[x] # Null => db[x] # Null /\ Follows(db[x], db'[x]))
    BY <2>1, KnownStays
  <2>3. Joined(r, x, call[r].org) => Joined(r, x, call[r].org)'
    BY JoinedStays DEF Joined
  <2>4. db'[x] # Null => OfTenant(r, db[x], x)'
    BY <2>1, <2>2, <2>3 DEF OfTenant, Follows, SamePlace
  <2>5. seen'[r][x] # Null => OfTenant(r, seen[r][x], x)'
    BY <2>1, <2>3 DEF OfTenant
  <2>6. call[r].op \in Anyhow \/ ~DeletedBefore(r, x)'
    BY <1>2, NoneIsLate DEF Proper
  <2> QED
    BY <2>2, <2>4, <2>5, <2>6 DEF Proper
<1> QED
  BY <1>1, <1>2

LEMMA EnteredStays ==
  ASSUME RowsStay, OnTime, call' = call, NEW r \in Requests, Entered(r)
  PROVE  Entered(r)'
<1>1. call[r].id \in Ids /\ Known(call[r].id)
  BY DEF Entered
<1>2. /\ Known(call[r].id)'
      /\ db'[call[r].id] # Null => db[call[r].id] # Null /\ Follows(db[call[r].id], db'[call[r].id])
  BY <1>1, KnownStays DEF Known
<1> QED
  BY <1>1, <1>2 DEF Entered, Follows, SamePlace

LEMMA EmbeddedStay ==
  ASSUME RowsStay, EmbeddedAreCases, UNCHANGED indexerVars
  PROVE  EmbeddedAreCases'
<1>1. \A x : IsCase(x) => IsCase(x)'
  BY DEF IsCase, RowsStay, Lasting, Follows, SamePlace
<1> QED
  BY <1>1 DEF EmbeddedAreCases, indexerVars

LEMMA GoneStays ==
  ASSUME RowsStay, NEW x, IsGone(x)
  PROVE  IsGone(x)'
<1>1. x \in Ids /\ db[x] # Null /\ db[x].table \in Removable /\ db[x].gone
  BY DEF IsGone, There
<1>2. db'[x] # Null
  BY <1>1 DEF RowsStay, Lasting, Removable
<1>3. db'[x].table \in Removable /\ db'[x].gone
  BY <1>1, <1>2 DEF RowsStay, Follows, SamePlace
<1> QED
  BY <1>1, <1>2, <1>3 DEF IsGone, There

LEMMA ClockGoesOn ==
  ASSUME IInv, IInv', BegunByNow, OnTime
  PROVE  BegunByNow'
<1> SUFFICES ASSUME NEW r \in Requests PROVE began'[r] <= clock'
  BY DEF BegunByNow
<1>1. began[r] <= clock /\ began[r] \in Nat /\ clock \in Nat /\ clock' \in Nat
  BY DEF IInv, TypeOK, BegunByNow
<1> QED
  BY <1>1 DEF OnTime

LEMMA OthersStayProper ==
  ASSUME IInv, BegunByNow, RowsStay, OnTime, Punctual, call' = call,
         NEW r \in Requests, ProperAnswers(r), answer'[r] = answer[r], seen'[r] = seen[r],
         began'[r] = began[r], pc'[r] = "200" => pc[r] = "200"
  PROVE  ProperAnswers(r)'
<1>1. /\ answer[r] \in Seq(SUBSET Ids)
      /\ \A k \in 1..Len(answer[r]) : \A x \in answer[r][k] : Proper(r, x)
      /\ pc[r] = "200" => answer[r] # <<>>
  BY DEF ProperAnswers
<1>2. ASSUME NEW k \in 1..Len(answer[r]), NEW x \in answer[r][k] PROVE Proper(r, x)'
  <2>1. x \in Ids /\ Proper(r, x)
    BY <1>1
  <2> QED
    BY <2>1, ProperStays
<1>3. answer[r] # <<>> => /\ call[r].op \in ByParent => Entered(r)'
                          /\ call[r].op \in OfOneCase => ~DeletedBefore(r, call[r].id)'
  BY EnteredStays, NoneIsLate DEF ProperAnswers
<1> HIDE DEF Proper, Entered, DeletedBefore
<1> QED
  BY <1>1, <1>2, <1>3 DEF ProperAnswers

-----------------------------------------------------------------------------
(* Who deletes a user, a case or an observable and is done leaves it so.   *)
LEMMA OnlyDeletersDelete ==
  ASSUME NEW r \in Requests, call[r].op \in Deleting,
         AccountStep(r) \/ LibraryStep(r)
  PROVE  DeleteUser(r) \/ DeleteCase(r) \/ DeleteObservable(r)
<1> USE DEF Of, Deleting
<1>1. ~(InviteUser(r) \/ PatchUser(r) \/ LockUser(r) \/ UnlockUser(r) \/ AcceptInvite(r))
  BY DEF InviteUser, PatchUser, LockUser, UnlockUser, AcceptInvite
<1>2. ~(MfaEnroll(r) \/ MfaConfirm(r) \/ MfaDisable(r) \/ MfaRegenerate(r) \/ AdminResetMfa(r))
  BY DEF MfaEnroll, MfaConfirm, MfaDisable, MfaRegenerate, AdminResetMfa
<1>3. ~(CreateProfile(r) \/ PatchProfile(r) \/ DeleteProfile(r) \/ PatchOrg(r) \/ CreateSharing(r))
  BY DEF CreateProfile, PatchProfile, DeleteProfile, PatchOrg, CreateSharing
<1>4. ~(DeleteSharing(r) \/ CreateMyKey(r) \/ RevokeMyKey(r) \/ AdminRevokeKey(r) \/ EraseUser(r))
  BY DEF DeleteSharing, CreateMyKey, RevokeMyKey, AdminRevokeKey, EraseUser
<1>5. ~(CreateKbPage(r) \/ PatchKbPage(r) \/ CloneKbPage(r) \/ DeleteKbPage(r))
  BY DEF CreateKbPage, PatchKbPage, CloneKbPage, DeleteKbPage
<1>6. ~(CreateTemplate(r) \/ PatchTemplate(r) \/ CloneCaseTemplate(r) \/ DeleteTemplate(r)
          \/ ApplyTemplate(r))
  BY DEF CreateTemplate, PatchTemplate, CloneCaseTemplate, DeleteTemplate, ApplyTemplate
<1>7. ~(CreateTaxonomyEntry(r) \/ DeleteTaxonomyEntry(r) \/ ImportTag(r) \/ ImportDeadlock(r)
          \/ ImportEnd(r))
  BY DEF CreateTaxonomyEntry, DeleteTaxonomyEntry, ImportTag, ImportDeadlock, ImportEnd
<1>8. ~(UpsertCatalogEntry(r) \/ AddCaseTtp(r) \/ PatchCaseTtp(r) \/ RemoveCaseTtp(r))
  BY DEF UpsertCatalogEntry, AddCaseTtp, PatchCaseTtp, RemoveCaseTtp
<1>9. ~(CreateCasePage(r) \/ PatchCasePage(r) \/ DeleteCasePage(r) \/ CreateComment(r)
          \/ PatchComment(r) \/ MarkMentionsSeen(r))
  BY DEF CreateCasePage, PatchCasePage, DeleteCasePage, CreateComment, PatchComment,
    MarkMentionsSeen
<1>10. ~(PatchCase(r) \/ BulkPatchCases(r) \/ PatchObservable(r) \/ BulkPatchObservables(r))
  BY DEF PatchCase, BulkPatchCases, PatchObservable, BulkPatchObservables
<1> QED
  BY <1>1, <1>2, <1>3, <1>4, <1>5, <1>6, <1>7, <1>8, <1>9, <1>10 DEF AccountStep, LibraryStep

LEMMA UpdatedIsGone ==
  ASSUME IInv, NEW r \in Requests, pc[r] = "write", NEW x \in Ids, NEW table \in Removable,
         Sees(r, x, table)
  PROVE  db[x] # Null /\ Updated(r, x, [gone |-> TRUE]) # Null /\ ~There(Updated(r, x, [gone |-> TRUE]))
<1>1. db[x] # Null /\ db[x].table = table /\ Follows(seen[r][x], db[x])
  BY SeenStays DEF Lasting, Removable
<1>2. db[x] \in Row /\ seen[r][x] \in Row
  BY <1>1, SeenRow DEF IInv, TypeOK, Sees
<1>3. Updated(r, x, [gone |-> TRUE]) \in Row /\ Follows(db[x], Updated(r, x, [gone |-> TRUE]))
  BY <1>1, UpdatedType, TypedColumns DEF IInv
<1>4. Column(r, x, [gone |-> TRUE], "gone")
  <2>1. CASE seen[r][x]["gone"] # TRUE
    BY <2>1 DEF Column, Sent
  <2>2. CASE seen[r][x]["gone"] = TRUE
    BY <1>1, <2>2 DEF Column, Sent, Follows
  <2> QED
    BY <2>1, <2>2
<1>5. Updated(r, x, [gone |-> TRUE]).gone
  BY <1>2, <1>4 DEF Updated, Row
<1> QED
  BY <1>1, <1>3, <1>5, NullOut DEF There, Follows, SamePlace

LEMMA InsertDone ==
  ASSUME IInv, NEW r \in Requests, NEW S \in SUBSET Ids, NEW new, DOMAIN new = S,
         Insert(r, new, "500"), pc'[r] = "200", NEW x \in S
  PROVE  db'[x] = new[x]
<1>1. ~Refuse(r, "500")
  BY DEF Refuse, IInv, TypeOK
<1>2. db' = With(new)
  BY <1>1 DEF Insert, Commit
<1> QED
  BY <1>2 DEF With

LEMMA DeletersDelete ==
  ASSUME IInv, NEW r \in Requests, Read(r) \/ AccountStep(r) \/ LibraryStep(r), call' = call,
         pc'[r] = "200", call[r].op \in Deleting
  PROVE  IsGone(call[r].id)'
<1> DEFINE x == call[r].id
           columns == [gone |-> TRUE]
<1>1. ~Read(r) /\ \A code \in Codes : ~Refuse(r, code)
  BY DEF Read, Refuse, Codes, IInv, TypeOK
<1>2. DeleteUser(r) \/ DeleteCase(r) \/ DeleteObservable(r)
  BY <1>1, OnlyDeletersDelete
<1>3. pc[r] = "write" /\ call[r] \in Calls
  BY <1>2, WriterCalls DEF IInv, DeleteUser, DeleteCase, DeleteObservable
<1>4. x \in Ids
  BY <1>2, <1>3, AccountCallShape, CaseCallShape DEF Of, DeleteUser, DeleteCase, DeleteObservable
<1>5. ASSUME NEW table \in Removable, Sees(r, x, table), Update(r, x, columns)
      PROVE  IsGone(x)'
  <2> DEFINE S == {z \in {x} : db[z] # Null}
             new == [y \in S |-> Updated(r, y, columns)]
  <2>1. db[x] # Null /\ Updated(r, x, columns) # Null /\ ~There(Updated(r, x, columns))
    BY <1>3, <1>4, <1>5, UpdatedIsGone
  <2>2. Insert(r, new, "500")
    BY <1>1, <1>5 DEF Update, Codes
  <2>3. db'[x] = new[x]
    <3>1. S \in SUBSET Ids /\ DOMAIN new = S /\ x \in S
      BY <1>4, <2>1
    <3> HIDE DEF S, new
    <3> QED
      BY <2>2, <3>1, InsertDone
  <2> QED
    BY <1>4, <2>1, <2>3 DEF IsGone, There
<1>6. CASE DeleteUser(r)
  BY <1>1, <1>5, <1>6 DEF DeleteUser, OnUser, Codes, Removable
<1>7. CASE DeleteObservable(r)
  BY <1>1, <1>5, <1>7 DEF DeleteObservable, ChangeObservable, SeesLive, SeesOwn, Codes, Removable
<1>8. CASE DeleteCase(r)
  <2>1. Sees(r, x, "case") /\ ChangeCases(r, {x}, columns)
    BY <1>1, <1>8 DEF DeleteCase, ChangeCase, SeesLive, SeesOwn, Codes
  <2> DEFINE S(n) == {x} \cup {<<r, k>> : k \in 1..n}
             new(n, about) ==
               [y \in S(n) |-> IF y \in {x} THEN Updated(r, y, columns)
                              ELSE Sole(r, "audit", call[r].org, about[y[2]], Null, "", call[r].user)]
  <2>2. PICK n \in 0..MaxRows : \E about \in [1..n -> {x}] : Insert(r, new(n, about), "500")
    BY ZenonT(60), <2>1 DEF ChangeCases
  <2>3. PICK about \in [1..n -> {x}] : Insert(r, new(n, about), "500")
    BY <2>2
  <2>4. Updated(r, x, columns) # Null /\ ~There(Updated(r, x, columns))
    BY <1>3, <1>4, <2>1, UpdatedIsGone DEF Removable
  <2>5. S(n) \in SUBSET Ids
    BY <1>4, IdsAssumption DEF Ids
  <2>6. DOMAIN new(n, about) = S(n) /\ x \in S(n) /\ new(n, about)[x] = Updated(r, x, columns)
    OBVIOUS
  <2> HIDE DEF S, new
  <2>7. db'[x] = Updated(r, x, columns)
    BY <2>3, <2>5, <2>6, InsertDone
  <2> QED
    BY <1>4, <2>4, <2>7 DEF IsGone, There
<1> QED
  BY <1>2, <1>6, <1>7, <1>8

-----------------------------------------------------------------------------
(* What others write leaves all of it.                                     *)
LEMMA KeepsTenant ==
  ASSUME TenantIInv, NEW r \in Requests, Keeps(r), UNCHANGED indexerVars,
         pc'[r] = "200" /\ pc[r] # "200" /\ call[r].op \in Deleting => IsGone(call[r].id)'
  PROVE  TenantIInv'
<1>1. IInv /\ BegunByNow /\ DeletionsShow
  BY DEF TenantIInv
<1>2. IInv' /\ RowsStay /\ OnTime /\ call' = call
  BY DEF Keeps, Quiet
<1>3. Punctual
  BY DEF Keeps, Quiet, Punctual
<1>4. ASSUME NEW q \in Requests, Scoped(q)'
      PROVE  ProperAnswers(q)'
  <2>1. Scoped(q) /\ IsQuery(q)
    BY <1>2, <1>4 DEF Scoped, IsQuery
  <2>2. ProperAnswers(q)
    BY <2>1 DEF TenantIInv, AnswersAreProper
  <2>3. /\ answer'[q] = answer[q] /\ seen'[q] = seen[q] /\ began'[q] = began[q]
        /\ pc'[q] = "200" => pc[q] = "200"
    BY <2>1 DEF Keeps, Quiet
  <2> QED
    BY <1>1, <1>2, <1>3, <2>2, <2>3, OthersStayProper
<1>5. AnswersAreProper'
  BY <1>4 DEF AnswersAreProper
<1>6. DeletionsShow'
  <2> SUFFICES ASSUME NEW s \in Requests, pc'[s] = "200", call[s].op \in Deleting
               PROVE  IsGone(call[s].id)'
    BY <1>2 DEF DeletionsShow, Done
  <2>1. CASE pc[s] = "200"
    BY <1>1, <1>2, <2>1, GoneStays DEF DeletionsShow, Done
  <2>2. CASE pc[s] # "200"
    BY <2>2 DEF Keeps, Quiet
  <2> QED
    BY <2>1, <2>2
<1> QED
  BY <1>1, <1>2, <1>5, <1>6, EmbeddedStay, ClockGoesOn DEF TenantIInv

-----------------------------------------------------------------------------
(* A view that answers with what is of the tenant, or is asked by others.  *)
LEMMA AnswerIsProper ==
  ASSUME TenantIInv, NEW r \in Requests, OnlyAnswers(r), UNCHANGED indexerVars,
         Scoped(r) =>
           \/ answer'[r] = answer[r] /\ seen'[r] = seen[r] /\ began'[r] = began[r] /\ pc'[r] # "200"
           \/ /\ \E rows \in SUBSET Mine(r) : answer'[r] = Append(answer[r], rows)
              /\ seen'[r] = db
              /\ call[r].op \in ByParent => answer[r] # <<>> \/ Entered(r)
              /\ call[r].op \in OfOneCase => answer[r] # <<>> \/ ThisCase(r) # {}
  PROVE  TenantIInv'
<1>1. IInv /\ BegunByNow /\ DeletionsShow
  BY DEF TenantIInv
<1>2. IInv' /\ OnTime /\ db' = db /\ call' = call
  BY DEF OnlyAnswers
<1>3. RowsStay
  BY <1>2 DEF RowsStay, Follows, SamePlace
<1>4. \A s \in Requests : pc'[s] = "200" /\ call[s].op \in Deleting => pc[s] = "200"
  BY DEF OnlyAnswers, Acting
<1>5. Punctual
  BY <1>4 DEF Punctual
<1>6. ASSUME NEW q \in Requests, Scoped(q), answer'[q] = answer[q], seen'[q] = seen[q],
             began'[q] = began[q], pc'[q] = "200" => pc[q] = "200"
      PROVE  ProperAnswers(q)'
  <2>1. ProperAnswers(q)
    BY <1>6 DEF TenantIInv, AnswersAreProper
  <2> QED
    BY <1>1, <1>2, <1>3, <1>5, <1>6, <2>1, OthersStayProper
<1>7. ASSUME NEW x \in Ids, There(db[x]) PROVE ~DeletedBefore(r, x)'
  <2>1. \A s \in Requests : pc[s] = "200" /\ call[s].op \in Deleting => call[s].id # x
    BY <1>1, <1>7 DEF DeletionsShow, IsGone, Done
  <2> QED
    BY <1>2, <1>4, <2>1 DEF DeletedBefore, Done
<1>8. ASSUME Scoped(r), NEW rows \in SUBSET Mine(r), answer'[r] = Append(answer[r], rows),
             seen'[r] = db,
             call[r].op \in ByParent => answer[r] # <<>> \/ Entered(r),
             call[r].op \in OfOneCase => answer[r] # <<>> \/ ThisCase(r) # {}
      PROVE  ProperAnswers(r)'
  <2>3. ProperAnswers(r) /\ answer[r] \in Seq(SUBSET Ids)
    BY <1>8 DEF TenantIInv, AnswersAreProper, ProperAnswers
  <2>4. rows \subseteq Ids
    BY DEF Mine
  <2>5. answer'[r] \in Seq(SUBSET Ids) /\ answer'[r] # <<>>
    <3>1. rows \in SUBSET Ids
      BY <2>4
    <3>2. answer'[r] \in Seq(SUBSET Ids) /\ Len(answer'[r]) = Len(answer[r]) + 1
      BY <1>8, <2>3, <3>1
    <3> QED
      BY <2>3, <3>2
  <2>6. \A x \in Ids : Known(x) => Known(x)'
    BY <1>2 DEF Known, OnTime
  <2>7. \A x, row : OfTenant(r, row, x) => OfTenant(r, row, x)'
    BY <1>2 DEF OfTenant, Joined
  <2>a. answer[r] # <<>> => began'[r] = began[r]
    BY <2>3 DEF OnlyAnswers
  <2>8. ASSUME NEW k \in 1..Len(answer'[r]), NEW x \in answer'[r][k] PROVE Proper(r, x)'
    <3>1. CASE k \in 1..Len(answer[r])
      <4>1. x \in Ids /\ Proper(r, x) /\ answer[r] # <<>>
        BY <1>8, <2>3, <2>4, <2>8, <3>1 DEF ProperAnswers
      <4>2. DeletedBefore(r, x)' => DeletedBefore(r, x)
        BY <1>1, <1>2, <1>5, <2>a, <4>1, NoneIsLate
      <4> HIDE DEF DeletedBefore
      <4> QED
        BY <1>2, <1>8, <2>6, <2>7, <4>1, <4>2 DEF Proper, OfTenant, Joined
    <3>2. CASE k \notin 1..Len(answer[r])
      <4>1. x \in rows
        BY <1>8, <2>3, <2>4, <2>8, <3>2
      <4>2. x \in Ids /\ (x = call[r].user \/ (/\ db[x] # Null /\ OfTenant(r, db[x], x)
                                               /\ call[r].op \in Anyhow \/ There(db[x])))
        BY <4>1 DEF Mine
      <4>3. x # call[r].user => Known(x)'
        BY <1>1, <2>6, <4>2, KnownRows
      <4>4. x # call[r].user => call[r].op \in Anyhow \/ ~DeletedBefore(r, x)'
        BY <1>7, <4>2
      <4> HIDE DEF DeletedBefore
      <4> QED
        BY <1>2, <1>8, <2>7, <4>2, <4>3, <4>4 DEF Proper, OfTenant, Joined
    <3> QED
      BY <3>1, <3>2
  <2>9. Entered(r) => Entered(r)'
    BY <1>2, <2>6 DEF Entered, Known
  <2>10. call[r].op \in ByParent => Entered(r)'
    BY <1>8, <2>3, <2>9 DEF ProperAnswers
  <2>11. ASSUME call[r].op \in OfOneCase PROVE ~DeletedBefore(r, call[r].id)'
    <3>1. CASE answer[r] # <<>>
      BY <1>1, <1>2, <1>5, <2>3, <2>a, <2>11, <3>1, NoneIsLate DEF ProperAnswers
    <3>2. CASE ThisCase(r) # {}
      <4>1. call[r].id \in Ids /\ There(db[call[r].id])
        BY <3>2 DEF ThisCase, The, There
      <4> QED
        BY <1>2, <1>7, <4>1
    <3> QED
      BY <1>8, <2>11, <3>1, <3>2
  <2> HIDE DEF Proper, Entered, DeletedBefore
  <2> QED
    BY <1>2, <2>5, <2>8, <2>10, <2>11 DEF ProperAnswers
<1>9. ASSUME Scoped(r) PROVE ProperAnswers(r)'
  BY <1>6, <1>8, <1>9
<1>10. AnswersAreProper'
  <2> SUFFICES ASSUME NEW q \in Requests, Scoped(q)'
               PROVE  ProperAnswers(q)'
    BY DEF AnswersAreProper
  <2>1. Scoped(q)
    BY <1>2 DEF Scoped, IsQuery
  <2>2. q # r => /\ answer'[q] = answer[q] /\ seen'[q] = seen[q] /\ began'[q] = began[q]
                 /\ pc'[q] = pc[q]
    BY DEF OnlyAnswers
  <2> QED
    BY <1>6, <1>9, <2>1, <2>2
<1>11. DeletionsShow'
  BY <1>1, <1>2, <1>4 DEF DeletionsShow, Done, IsGone
<1> QED
  BY <1>1, <1>2, <1>3, <1>10, <1>11, EmbeddedStay, ClockGoesOn DEF TenantIInv

-----------------------------------------------------------------------------
(* The statements of a view that stays with the tenant.                    *)
OfMine(r, S) == \A R \in S : R \subseteq Mine(r)
Within(r, statements) ==
  \A k \in Nat \ {0} : k <= Len(statements) => OfMine(r, statements[k])
(* The views that ask for no row first.                                    *)
Special == Acting \cup ByParent \cup OfOneCase
LEMMA TenantAnswer ==
  ASSUME TenantIInv, NEW r \in Requests, UNCHANGED indexerVars, Scoped(r),
         NEW op, op \notin Special, NEW statements, Within(r, statements),
         Answer(r, op, statements)
  PROVE  TenantIInv'
<1>1. OnlyAnswers(r)
  BY AnswerKeeps DEF TenantIInv, Special
<1>2. Len(answer[r]) + 1 \in Nat \ {0} /\ answer[r] \in Seq(SUBSET Ids)
  BY DEF TenantIInv, AnswersAreProper, ProperAnswers
<1>3. PICK rows \in statements[Len(answer[r]) + 1] :
        answer' = [answer EXCEPT ![r] = Append(@, rows)]
  BY DEF Answer
<1>4. rows \in SUBSET Mine(r)
  BY <1>2, <1>3 DEF Answer, Within, OfMine
<1>5. answer'[r] = Append(answer[r], rows) /\ seen'[r] = db /\ call[r].op = op
  BY <1>3 DEF Answer, Asks, TenantIInv, IInv, TypeOK
<1> QED
  BY <1>1, <1>4, <1>5, AnswerIsProper DEF Special

LEMMA OneAnswer ==
  ASSUME TenantIInv, NEW r \in Requests, UNCHANGED indexerVars, Scoped(r),
         NEW op, op \notin Special,
         NEW S, OfMine(r, S), Answer(r, op, <<S>>)
  PROVE  TenantIInv'
<1>1. Within(r, <<S>>)
  BY DEF Within
<1> QED
  BY <1>1, TenantAnswer
LEMMA TwoAnswers ==
  ASSUME TenantIInv, NEW r \in Requests, UNCHANGED indexerVars, Scoped(r),
         NEW op, op \notin Special, NEW S, OfMine(r, S),
         NEW T, OfMine(r, T), Answer(r, op, <<S, T>>)
  PROVE  TenantIInv'
<1>1. Within(r, <<S, T>>)
  BY DEF Within
<1> QED
  BY <1>1, TenantAnswer

(* A view that looks something up first.                                   *)
LEMMA LookUp ==
  ASSUME TenantIInv, NEW r \in Requests, UNCHANGED indexerVars, Scoped(r),
         NEW op, op \notin Acting, NEW found \in SUBSET Mine(r),
         NEW statements \in Seq(SUBSET SUBSET Ids),
         op \in OfOneCase => found = ThisCase(r),
         op \in ByParent => (found # {} => Entered(r)),
         op \in ByParent => (answer[r] # <<>> => Within(r, statements)),
         op \notin ByParent => Within(r, statements),
         AnswerIf(r, op, found, statements)
  PROVE  TenantIInv'
<1>1. call[r].op = op
  BY DEF AnswerIf, Asks
<1>2. CASE Refuse(r, "404")
  <2>1. OnlyAnswers(r)
    BY AnswerIfKeeps DEF TenantIInv
  <2>2. pc'[r] = "404"
    BY <1>2 DEF Refuse, TenantIInv, IInv, TypeOK
  <2> QED
    BY <1>2, <2>1, <2>2, AnswerIsProper DEF Refuse
<1>3. CASE /\ Answer(r, op, <<{found}>> \o statements)
           /\ answer[r] # <<>> \/ found # {}
  <2>1. OnlyAnswers(r)
    BY <1>3, AnswerKeeps DEF TenantIInv
  <2>2. answer[r] \in Seq(SUBSET Ids) /\ Len(answer[r]) \in Nat
    BY DEF TenantIInv, AnswersAreProper, ProperAnswers
  <2> DEFINE k == Len(answer[r]) + 1
             all == <<{found}>> \o statements
  <2>3. k \in Nat \ {0} /\ k <= Len(all)
    BY <1>3, <2>2 DEF Answer
  <2>4. PICK rows \in all[k] : answer' = [answer EXCEPT ![r] = Append(@, rows)]
    BY <1>3 DEF Answer
  <2>5. rows \in SUBSET Mine(r)
    <3>1. Len(statements) \in Nat /\ Len(all) = Len(statements) + 1 /\ all[1] = {found}
      OBVIOUS
    <3>2. CASE k = 1
      BY <2>4, <3>1, <3>2
    <3>3. CASE k # 1
      <4>1. k - 1 \in Nat \ {0} /\ k - 1 <= Len(statements) /\ answer[r] # <<>>
        BY <2>2, <2>3, <3>1, <3>3
      <4>2. all[k] = statements[k - 1]
        BY <4>1
      <4> QED
        BY <2>4, <4>1, <4>2 DEF Within, OfMine
    <3> QED
      BY <3>2, <3>3
  <2>6. answer'[r] = Append(answer[r], rows) /\ seen'[r] = db
    BY <1>3, <2>4 DEF Answer, TenantIInv, IInv, TypeOK
  <2>7. call[r].op \in ByParent => answer[r] # <<>> \/ Entered(r)
    BY <1>1, <1>3
  <2>8. call[r].op \in OfOneCase => answer[r] # <<>> \/ ThisCase(r) # {}
    BY <1>1, <1>3
  <2> QED
    BY <2>1, <2>5, <2>6, <2>7, <2>8, AnswerIsProper
<1> QED
  BY <1>2, <1>3 DEF AnswerIf

LEMMA LookUpAlone ==
  ASSUME TenantIInv, NEW r \in Requests, UNCHANGED indexerVars, Scoped(r),
         NEW op, op \notin Acting \cup ByParent,
         NEW found, found \subseteq Mine(r), op \in OfOneCase => found = ThisCase(r),
         AnswerIf(r, op, found, <<>>)
  PROVE  TenantIInv'
<1>1. Within(r, <<>>) /\ <<>> \in Seq(SUBSET SUBSET Ids)
  BY DEF Within
<1> QED
  BY <1>1, LookUp
LEMMA LookUpOne ==
  ASSUME TenantIInv, NEW r \in Requests, UNCHANGED indexerVars, Scoped(r),
         NEW op, op \notin Acting \cup ByParent,
         NEW found, found \subseteq Mine(r), op \in OfOneCase => found = ThisCase(r),
         NEW S, OfMine(r, S), AnswerIf(r, op, found, <<S>>)
  PROVE  TenantIInv'
<1>1. Mine(r) \subseteq Ids
  BY DEF Mine
<1>2. Within(r, <<S>>) /\ <<S>> \in Seq(SUBSET SUBSET Ids)
  BY <1>1 DEF Within, OfMine
<1> QED
  BY <1>2, LookUp
LEMMA LookUpTwo ==
  ASSUME TenantIInv, NEW r \in Requests, UNCHANGED indexerVars, Scoped(r),
         NEW op, op \notin Acting \cup ByParent,
         NEW found, found \subseteq Mine(r), op \in OfOneCase => found = ThisCase(r),
         NEW S, OfMine(r, S), NEW T, OfMine(r, T),
         AnswerIf(r, op, found, <<S, T>>)
  PROVE  TenantIInv'
<1>1. Mine(r) \subseteq Ids
  BY DEF Mine
<1>2. Within(r, <<S, T>>) /\ <<S, T>> \in Seq(SUBSET SUBSET Ids)
  BY <1>1 DEF Within, OfMine
<1> QED
  BY <1>2, LookUp

-----------------------------------------------------------------------------
(* What the statements ask for.                                            *)
LEMMA QueryShape ==
  ASSUME IInv, NEW r \in Requests, IsQuery(r)
  PROVE  call[r] \in Queries(STRING \ Acting) /\ call[r].match \subseteq Ids /\ call[r].user \in Ids
<1>1. call[r] \in AllCalls /\ call[r] \notin Calls
  BY CallsWrite DEF IInv, TypeOK
<1> QED
  BY <1>1, OrgIds DEF AllCalls, Queries

LEMMA OwnRows ==
  ASSUME IInv, NEW r \in Requests, IsQuery(r)
  PROVE  /\ \A table : /\ table \notin Removable => Own(r, table) \subseteq Mine(r)
                       /\ Live(Own(r, table)) \subseteq Mine(r)
         /\ OrgUsers(r) \subseteq Mine(r) /\ In(r, "technique") \subseteq Mine(r)
         /\ {call[r].user} \subseteq Mine(r)
         /\ ThisCase(r) \subseteq Mine(r) /\ Mine(r) \subseteq Ids
<1>1. call[r].match \subseteq Ids /\ call[r].user \in Ids
  BY QueryShape
<1>2. \A table : /\ table \notin Removable => Own(r, table) \subseteq Mine(r)
                /\ Live(Own(r, table)) \subseteq Mine(r)
  BY <1>1 DEF Live, Own, In, Mine, OfTenant, There
<1>3. OrgUsers(r) \subseteq Mine(r)
  BY <1>1 DEF OrgUsers, Live, In, Mine, OfTenant, There
<1>4. In(r, "technique") \subseteq Mine(r)
  BY <1>1 DEF In, Mine, OfTenant, There, Removable
<1>5. {call[r].user} \subseteq Mine(r) /\ Mine(r) \subseteq Ids
  BY <1>1 DEF Mine
<1>6. ThisCase(r) \subseteq Mine(r)
  BY DEF ThisCase, The, Mine, OfTenant, There
<1> QED
  BY <1>2, <1>3, <1>4, <1>5, <1>6

(* What those find that ask for no organization.                           *)
LEMMA AnyRows ==
  ASSUME IInv, NEW r \in Requests, IsQuery(r), call[r].op \in AnyOrganization
  PROVE  \A table : /\ table \notin Removable => In(r, table) \subseteq Mine(r)
                   /\ Live(In(r, table)) \subseteq Mine(r)
<1>1. call[r].match \subseteq Ids
  BY QueryShape
<1> QED
  BY <1>1 DEF Live, In, Mine, OfTenant, There

(* Filters let through some of what there is.                              *)
LEMMA Filters ==
  ASSUME NEW r, NEW M, NEW S, S \subseteq M
  PROVE  /\ Live(S) \subseteq M /\ The(r, S) \subseteq M /\ Since(r, S) \subseteq M
         /\ \A c : Under(S, c) \subseteq M
         /\ \A u : By(S, u) \subseteq M
         /\ \A x, rows : Alike(S, x, rows) \subseteq M
         /\ Closed(S) \subseteq M /\ Someones(S) \subseteq M
  BY DEF Live, The, Since, Under, By, Alike, Closed, Someones

(* So do ORDER BY and LIMIT.                                               *)
LEMMA Choices ==
  ASSUME NEW r, NEW S, S \subseteq Mine(r)
  PROVE  /\ OfMine(r, All(S))
         /\ \A n : OfMine(r, Some(S, n))
         /\ \A time, skip, n : OfMine(r, Page(S, time, skip, n))
         /\ \A time, n : OfMine(r, Newest(S, time, n))
         /\ OfMine(r, Polled(r, S))
<1>1. OfMine(r, All(S))
  BY DEF All, OfMine
<1>2. \A n : OfMine(r, Some(S, n))
  BY DEF Some, OfMine
<1>3. \A R \in SUBSET Mine(r) : \A time, skip, n : OfMine(r, Page(R, time, skip, n))
  BY DEF Page, OfMine
<1>4. \A R \in SUBSET Mine(r) : \A time, n : OfMine(r, Newest(R, time, n))
  BY <1>3 DEF Newest
<1>5. OfMine(r, Newest(Since(r, S), Changed, call[r].limit))
  <2>1. Since(r, S) \in SUBSET Mine(r)
    BY DEF Since
  <2> QED
    BY <1>4, <2>1
<1>6. OfMine(r, Polled(r, S))
  BY <1>2, <1>5 DEF Polled
<1> QED
  BY <1>1, <1>2, <1>3, <1>4, <1>6

LEMMA Rows ==
  ASSUME IInv, NEW r \in Requests, IsQuery(r)
  PROVE  /\ \A table : table \notin Removable =>
              /\ The(r, Own(r, table)) \subseteq Mine(r)
              /\ Since(r, Own(r, table)) \subseteq Mine(r)
              /\ \A c : Under(Own(r, table), c) \subseteq Mine(r)
              /\ \A c : Since(r, Under(Own(r, table), c)) \subseteq Mine(r)
              /\ \A u : By(Own(r, table), u) \subseteq Mine(r)
         /\ \A table : Since(r, Live(Own(r, table))) \subseteq Mine(r)
         /\ The(r, OrgUsers(r)) \subseteq Mine(r)
         /\ Mentions(r) \subseteq Mine(r) /\ Unread(r) \subseteq Mine(r)
         /\ About(r) \subseteq Mine(r)
         /\ \A c : LinksOf(r, c) \subseteq Mine(r)
         /\ \A links : Peers(r, links) \subseteq Mine(r)
<1>1. \A table : /\ table \notin Removable => Own(r, table) \subseteq Mine(r)
                /\ Live(Own(r, table)) \subseteq Mine(r)
  BY OwnRows
<1>2. \A table : table \notin Removable =>
        /\ The(r, Own(r, table)) \subseteq Mine(r)
        /\ Since(r, Own(r, table)) \subseteq Mine(r)
        /\ \A c : Under(Own(r, table), c) \subseteq Mine(r)
        /\ \A u : By(Own(r, table), u) \subseteq Mine(r)
  BY <1>1, Filters
<1>3. /\ \A table : Since(r, Live(Own(r, table))) \subseteq Mine(r)
      /\ \A table : table \notin Removable =>
           \A c : Since(r, Under(Own(r, table), c)) \subseteq Mine(r)
  BY <1>1, <1>2, Filters
<1>4. The(r, OrgUsers(r)) \subseteq Mine(r)
  BY OwnRows, Filters
<1>5. Mentions(r) \subseteq Mine(r) /\ Unread(r) \subseteq Mine(r) /\ About(r) \subseteq Mine(r)
  BY <1>2 DEF Mentions, Unread, About, Removable
<1>6. /\ \A c : LinksOf(r, c) \subseteq Mine(r)
      /\ \A links : Peers(r, links) \subseteq Mine(r)
  BY <1>1 DEF LinksOf, Peers, Removable
<1> QED
  BY <1>2, <1>3, <1>4, <1>5, <1>6

(* What is under a case or a task of the tenant is the tenant's, whoever   *)
(* asks for it by the case or the task alone.                              *)
LEMMA RowsOfTheParent ==
  ASSUME IInv, NEW r \in Requests, IsQuery(r), Entered(r)
  PROVE  /\ Under(In(r, "comment"), call[r].id) \subseteq Mine(r)
         /\ Under(In(r, "log"), call[r].id) \subseteq Mine(r)
         /\ LogsOf(r, call[r].id) \subseteq Mine(r)
<1>1. call[r].match \subseteq Ids
  BY QueryShape
<1>2. ASSUME NEW x \in Ids, db[x] # Null, db[x].table \in Written
      PROVE  db[x].under \in Ids /\ db[db[x].under] # Null /\ db[db[x].under].org = db[x].org
  BY <1>2 DEF IInv, Consistent, AtHome, Housed
<1>3. ASSUME NEW x \in Ids, db[x] # Null, db[x].table \in Written, db[x].under = call[r].id
      PROVE  db[x].org = call[r].org
  BY <1>2, <1>3 DEF Entered
<1>4. /\ Under(In(r, "comment"), call[r].id) \subseteq Mine(r)
      /\ Under(In(r, "log"), call[r].id) \subseteq Mine(r)
  BY <1>1, <1>3 DEF Under, In, Mine, OfTenant, There, Removable, Written
<1>5. ASSUME NEW x \in LogsOf(r, call[r].id) PROVE x \in Mine(r)
  <2>1. x \in Ids /\ db[x] # Null /\ db[x].table = "log"
    BY <1>1 DEF LogsOf, In
  <2>2. PICK t \in Under(In(r, "task"), call[r].id) : db[x].under = t
    BY DEF LogsOf
  <2>3. t \in Ids /\ db[t] # Null /\ db[t].table = "task" /\ db[t].under = call[r].id
    BY <1>1 DEF Under, In
  <2>4. db[t].org = call[r].org /\ db[x].org = db[t].org
    BY <1>2, <1>3, <2>1, <2>2, <2>3 DEF Written
  <2> QED
    BY <2>1, <2>4 DEF Mine, OfTenant, There, Removable
<1> QED
  BY <1>4, <1>5

LEMMA FoundCase ==
  ASSUME IInv, NEW r \in Requests, ThisCase(r) # {} \/ The(r, Own(r, "task")) # {},
         IsQuery(r)
  PROVE  Entered(r)
<1>1. call[r].match \subseteq Ids
  BY QueryShape
<1>2. call[r].id \in Ids /\ db[call[r].id] # Null /\ db[call[r].id].org = call[r].org
  BY <1>1 DEF ThisCase, The, Own, In
<1> QED
  BY <1>2, KnownRows DEF Entered

LEMMA ObservableRows ==
  ASSUME IInv, NEW r \in Requests, IsQuery(r)
  PROVE  /\ OwnObservables(r) \subseteq Mine(r) /\ OfThisCase(r) \subseteq Mine(r)
         /\ The(r, OwnObservables(r)) \subseteq Mine(r)
         /\ Since(r, OwnObservables(r)) \subseteq Mine(r)
<1>1. OwnObservables(r) \subseteq Mine(r)
  BY OwnRows DEF OwnObservables
<1> QED
  BY <1>1, Filters DEF OfThisCase

-----------------------------------------------------------------------------
(* The views of accounts.                                                  *)
LEMMA TenantAccountView ==
  ASSUME TenantIInv, NEW r \in Requests, Scoped(r), UNCHANGED indexerVars, AccountView(r)
  PROVE  TenantIInv'
<1> USE DEF Special, Acting, Deleting, ByParent, OfOneCase, Removable
<1> IInv /\ IsQuery(r)
  BY DEF TenantIInv, Scoped
<1>1. CASE SearchUsers(r)
  BY <1>1, OwnRows, Rows, Choices, OneAnswer DEF SearchUsers
<1>2. CASE ListRecentUsers(r)
  BY <1>2, OwnRows, Rows, Choices, OneAnswer DEF ListRecentUsers
<1>3. CASE ListUsers(r)
  BY <1>3, OwnRows, Rows, Choices, OneAnswer DEF ListUsers
<1>4. CASE GetUser(r)
  BY <1>4, OwnRows, Rows, Choices, LookUpAlone DEF GetUser
<1>5. CASE PeekInvite(r)
  BY <1>5 DEF PeekInvite, AnswerIf, Answer, Asks, Scoped, AnyOrganization, Anyhow
<1>6. CASE UserRecentActivity(r)
  BY ZenonT(60), <1>6, OwnRows, Rows, Choices, OneAnswer DEF UserRecentActivity, Authors
<1>7. CASE ListProfiles(r)
  BY <1>7, OwnRows, Rows, Choices, OneAnswer DEF ListProfiles
<1>8. CASE GetProfile(r)
  BY <1>8, OwnRows, Rows, Choices, LookUpAlone DEF GetProfile
<1>9. CASE ListMyOrgs(r)
  <2>1. call[r].op \in AnyOrganization
    BY <1>9 DEF ListMyOrgs, Answer, Asks, AnyOrganization
  <2>2. {o \in Live(In(r, "organization")) : Joined(r, call[r].user, o)} \subseteq Mine(r)
    BY <2>1, AnyRows
  <2> QED
    BY <1>9, <2>2, Choices, OneAnswer DEF ListMyOrgs
<1>10. CASE GetOrg(r)
  BY <1>10 DEF GetOrg, AnswerIf, Answer, Asks, Scoped, AnyOrganization, Anyhow
<1>11. CASE ListSharings(r)
  <2>1. call[r].op \in AnyOrganization
    BY <1>11 DEF ListSharings, Answer, Asks, AnyOrganization
  <2>2. {x \in In(r, "sharing") : db[x].org = call[r].id} \subseteq Mine(r)
    BY <2>1, AnyRows
  <2> QED
    BY <1>11, <2>2, Choices, OneAnswer DEF ListSharings
<1>12. CASE ListMyKeys(r)
  <2>1. call[r].op \in AnyOrganization
    BY <1>12 DEF ListMyKeys, Answer, Asks, AnyOrganization
  <2>2. {k \in By(In(r, "api_key"), call[r].user) : db[k].state = "active"} \subseteq Mine(r)
    BY <2>1, AnyRows DEF By
  <2> QED
    BY <1>12, <2>2, Choices, OneAnswer DEF ListMyKeys
<1>13. CASE ListUserKeys(r)
  <2>1. call[r].op \in AnyOrganization
    BY <1>13 DEF ListUserKeys, Answer, Asks, AnyOrganization
  <2>2. By(In(r, "api_key"), call[r].id) \subseteq Mine(r)
    BY <2>1, AnyRows DEF By
  <2> QED
    BY <1>13, <2>2, Choices, OneAnswer DEF ListUserKeys
<1>14. CASE ExportUser(r)
  BY <1>14 DEF ExportUser, AnswerIf, Answer, Asks, Scoped, AnyOrganization, Anyhow
<1> QED
  BY <1>1, <1>2, <1>3, <1>4, <1>5, <1>6, <1>7, <1>8, <1>9, <1>10, <1>11, <1>12, <1>13, <1>14 DEF
     AccountView

(* The views of the library and of the audit log.                          *)
LEMMA TenantLibraryView ==
  ASSUME TenantIInv, NEW r \in Requests, Scoped(r), UNCHANGED indexerVars, LibraryView(r)
  PROVE  TenantIInv'
<1> USE DEF Special, Acting, Deleting, ByParent, OfOneCase, Removable
<1> IInv /\ IsQuery(r)
  BY DEF TenantIInv, Scoped
<1>1. CASE ListKbPages(r)
  BY <1>1, OwnRows, Rows, Choices, OneAnswer DEF ListKbPages
<1>2. CASE ListRecentKbPages(r)
  BY <1>2, OwnRows, Rows, Choices, OneAnswer DEF ListRecentKbPages
<1>3. CASE GetKbPage(r)
  <2>1. {x \in Own(r, "kb") : db[x].name = call[r].name} \subseteq Mine(r)
    BY OwnRows, Rows, Filters
  <2> QED
    BY <1>3, <2>1, OwnRows, Rows, Choices, LookUpAlone DEF GetKbPage
<1>4. CASE ListRecentCaseTemplates(r)
  BY <1>4, OwnRows, Rows, Choices, OneAnswer DEF ListRecentCaseTemplates
<1>5. CASE ListTemplates(r)
  BY <1>5, OwnRows, Rows, Choices, OneAnswer DEF ListTemplates
<1>6. CASE ListTaxonomyEntries(r)
  BY <1>6, OwnRows, Rows, Choices, OneAnswer DEF ListTaxonomyEntries
<1>7. CASE ListCatalog(r)
  BY <1>7, OwnRows, Rows, Choices, OneAnswer DEF ListCatalog
<1>8. CASE ListCaseTtps(r)
  BY <1>8, OwnRows, Rows, Choices, LookUpOne DEF ListCaseTtps
<1>9. CASE CasesByTechnique(r)
  <2>1. {c \in Live(Own(r, "case")) : \E t \in In(r, "case_ttp") :
            db[t].under = c /\ db[t].name = call[r].name} \subseteq Mine(r)
    BY OwnRows, Rows, Filters
  <2> QED
    BY <1>9, <2>1, OwnRows, Rows, Choices, OneAnswer DEF CasesByTechnique
<1>10. CASE ListCasePages(r)
  BY <1>10, OwnRows, Rows, Choices, LookUpOne DEF ListCasePages
<1>11. CASE ListMyMentions(r)
  <2> DEFINE rows == IF call[r].unread THEN Unread(r) ELSE Mentions(r)
             listed == Newest(rows, Created, call[r].limit)
  <2>1. rows \subseteq Mine(r)
    BY Rows
  <2>2. OfMine(r, listed) /\ OfMine(r, All({call[r].user}))
    BY <2>1, OwnRows, Choices
  <2> HIDE DEF listed
  <2>3. CASE Answer(r, "listMentions", <<All({call[r].user}), listed>>)
    BY <2>2, <2>3, TwoAnswers
  <2>4. CASE Answer(r, "listMentions", <<listed>>)
    BY <2>2, <2>4, OneAnswer
  <2> QED
    BY <1>11, <2>3, <2>4 DEF ListMyMentions, listed
<1>12. CASE UnreadMentionCount(r)
  BY <1>12, OwnRows, Rows, Choices, TwoAnswers DEF UnreadMentionCount
<1>13. CASE ListAudit(r)
  BY ZenonT(60), <1>13, OwnRows, Rows, Choices, OneAnswer DEF ListAudit
<1>14. CASE ExportAuditCsv(r)
  BY <1>14, OwnRows, Rows, Choices, OneAnswer DEF ExportAuditCsv
<1>15. CASE AuditSummary(r)
  BY <1>15, OwnRows, Rows, Choices, OneAnswer DEF AuditSummary
<1>16. CASE ListEndpoints(r)
  BY <1>16, OwnRows, Rows, Choices, OneAnswer DEF ListEndpoints
<1>17. CASE ListRules(r)
  BY <1>17, OwnRows, Rows, Choices, OneAnswer DEF ListRules
<1>18. CASE ListDeliveries(r)
  BY <1>18, OwnRows, Rows, Choices, OneAnswer DEF ListDeliveries
<1>19. CASE DeliveriesSummary(r)
  BY <1>19, OwnRows, Rows, Choices, OneAnswer DEF DeliveriesSummary
<1>20. CASE ExportDeliveriesCsv(r)
  BY <1>20, OwnRows, Rows, Choices, OneAnswer DEF ExportDeliveriesCsv
<1> QED
  BY <1>1, <1>2, <1>3, <1>4, <1>5, <1>6, <1>7, <1>8, <1>9, <1>10, <1>11, <1>12, <1>13, <1>14,
     <1>15, <1>16, <1>17, <1>18, <1>19, <1>20 DEF LibraryView

(* The views of cases and alerts.                                          *)
LEMMA TenantCaseView ==
  ASSUME TenantIInv, NEW r \in Requests, Scoped(r), UNCHANGED indexerVars, CaseView(r)
  PROVE  TenantIInv'
<1> USE DEF Special, Acting, Deleting, ByParent, OfOneCase, Removable
<1> IInv /\ IsQuery(r)
  BY DEF TenantIInv, Scoped
<1>1. CASE ListCases(r)
  BY <1>1, OwnRows, Rows, Choices, OneAnswer DEF ListCases
<1>2. CASE ListRecentCases(r)
  BY <1>2, OwnRows, Rows, Choices, OneAnswer DEF ListRecentCases
<1>3. CASE GetCase(r)
  BY <1>3, OwnRows, Rows, Choices, LookUpAlone DEF GetCase
<1>4. CASE ExportCasesCsv(r)
  BY <1>4, OwnRows, Rows, Choices, OneAnswer DEF ExportCasesCsv
<1>5. CASE ListCaseContributors(r)
  <2> DEFINE told == [k \in 1..3 |-> All(Someones(Contributions(r)[k]))]
  <2>1. /\ Contributions(r)[1] = Under(In(r, "comment"), call[r].id)
        /\ Contributions(r)[2] = LogsOf(r, call[r].id)
        /\ Contributions(r)[3] = Under(Own(r, "audit"), call[r].id)
    BY DEF Contributions
  <2>2. \A k \in 1..3 : Contributions(r)[k] \subseteq Ids
    BY <2>1, QueryShape DEF Under, LogsOf, In, Own
  <2>3. told \in Seq(SUBSET SUBSET Ids) /\ Len(told) = 3
    BY <2>2 DEF All, Someones, By
  <2>4. ASSUME Entered(r) PROVE Within(r, told)
    <3>1. \A k \in 1..3 : Contributions(r)[k] \subseteq Mine(r)
      BY <2>1, <2>4, Rows, RowsOfTheParent
    <3>2. \A k \in 1..3 : OfMine(r, told[k])
      BY <3>1, Filters, Choices
    <3> QED
      BY <2>3, <3>2 DEF Within
  <2>5. answer[r] # <<>> => Entered(r)
    BY <1>5 DEF TenantIInv, AnswersAreProper, ProperAnswers, ListCaseContributors, AnswerIf, Asks
  <2> HIDE DEF told
  <2> QED
    BY <1>5, <2>3, <2>4, <2>5, OwnRows, FoundCase, LookUp DEF ListCaseContributors, told
<1>6. CASE MyCaseContributorRow(r)
  <2> DEFINE told == [k \in 1..3 |-> All(By(Contributions(r)[k], call[r].user))]
  <2>1. /\ Contributions(r)[1] = Under(In(r, "comment"), call[r].id)
        /\ Contributions(r)[2] = LogsOf(r, call[r].id)
        /\ Contributions(r)[3] = Under(Own(r, "audit"), call[r].id)
    BY DEF Contributions
  <2>2. \A k \in 1..3 : Contributions(r)[k] \subseteq Ids
    BY <2>1, QueryShape DEF Under, LogsOf, In, Own
  <2>3. told \in Seq(SUBSET SUBSET Ids) /\ Len(told) = 3
    BY <2>2 DEF All, Someones, By
  <2>4. ASSUME Entered(r) PROVE Within(r, told)
    <3>1. \A k \in 1..3 : Contributions(r)[k] \subseteq Mine(r)
      BY <2>1, <2>4, Rows, RowsOfTheParent
    <3>2. \A k \in 1..3 : OfMine(r, told[k])
      BY <3>1, Filters, Choices
    <3> QED
      BY <2>3, <3>2 DEF Within
  <2>5. answer[r] # <<>> => Entered(r)
    BY <1>6 DEF TenantIInv, AnswersAreProper, ProperAnswers, MyCaseContributorRow, AnswerIf, Asks
  <2> HIDE DEF told
  <2> QED
    BY <1>6, <2>3, <2>4, <2>5, OwnRows, FoundCase, LookUp DEF MyCaseContributorRow, told
<1>7. CASE ListRelatedCases(r)
  BY <1>7, OwnRows, Rows, Choices, LookUpTwo DEF ListRelatedCases
<1>8. CASE ListLinks(r)
  BY <1>8, OwnRows, Rows, Choices, LookUpOne DEF ListLinks
<1>9. CASE ExportTasksCsv(r)
  BY <1>9, OwnRows, Rows, Choices, OneAnswer DEF ExportTasksCsv
<1>10. CASE ListRecentTasks(r)
  BY <1>10, OwnRows, Rows, Choices, OneAnswer DEF ListRecentTasks
<1>11. CASE ListAllTasks(r)
  BY <1>11, OwnRows, Rows, Choices, OneAnswer DEF ListAllTasks
<1>12. CASE ListTasks(r)
  BY <1>12, OwnRows, Rows, Choices, LookUpOne DEF ListTasks
<1>13. CASE CaseTasksSummary(r)
  BY <1>13, OwnRows, Rows, Choices, LookUpOne DEF CaseTasksSummary
<1>14. CASE ListTaskLogs(r)
  <2> DEFINE told == <<All(Under(In(r, "log"), call[r].id))>>
  <2>1. told \in Seq(SUBSET SUBSET Ids)
    BY QueryShape DEF All, Under, In
  <2>2. Entered(r) => Within(r, told)
    BY RowsOfTheParent, Choices DEF Within
  <2>3. answer[r] # <<>> => Entered(r)
    BY <1>14 DEF TenantIInv, AnswersAreProper, ProperAnswers, ListTaskLogs, AnswerIf, Asks
  <2> HIDE DEF told
  <2> QED
    BY <1>14, <2>1, <2>2, <2>3, Rows, FoundCase, LookUp DEF ListTaskLogs, told
<1>15. CASE ListComments(r)
  BY <1>15, OwnRows, Rows, Choices, LookUpOne DEF ListComments
<1>16. CASE CaseTimeline(r)
  BY <1>16, OwnRows, Rows, Choices, LookUpOne DEF CaseTimeline
<1>17. CASE CaseTimelineSummary(r)
  BY <1>17, OwnRows, Rows, Choices, LookUpOne DEF CaseTimelineSummary
<1>18. CASE CaseReport(r)
  BY <1>18, OwnRows, Rows, Choices, LookUpOne DEF CaseReport
<1>19. CASE ListAlerts(r)
  BY <1>19, OwnRows, Rows, Choices, OneAnswer DEF ListAlerts
<1>20. CASE ListRecentAlerts(r)
  BY <1>20, OwnRows, Rows, Choices, OneAnswer DEF ListRecentAlerts
<1>21. CASE ExportAlertsCsv(r)
  BY <1>21, OwnRows, Rows, Choices, OneAnswer DEF ExportAlertsCsv
<1>22. CASE GetAlert(r)
  BY <1>22, OwnRows, Rows, Choices, LookUpAlone DEF GetAlert
<1>23. CASE ListSimilarAlerts(r)
  <2>1. Alike(Own(r, "alert"), call[r].id, seen[r]) \subseteq Mine(r)
    BY OwnRows, Rows, Filters
  <2> QED
    BY ZenonT(60), <1>23, <2>1, OwnRows, Rows, Choices, LookUpOne DEF ListSimilarAlerts
<1>24. CASE AlertTimeline(r)
  BY <1>24, OwnRows, Rows, Choices, LookUpOne DEF AlertTimeline
<1> QED
  BY <1>1, <1>2, <1>3, <1>4, <1>5, <1>6, <1>7, <1>8, <1>9, <1>10, <1>11, <1>12, <1>13, <1>14,
     <1>15, <1>16, <1>17, <1>18, <1>19, <1>20, <1>21, <1>22, <1>23, <1>24 DEF CaseView

(* The views of observables.                                               *)
LEMMA TenantObservableView ==
  ASSUME TenantIInv, NEW r \in Requests, Scoped(r), UNCHANGED indexerVars, ObservableView(r)
  PROVE  TenantIInv'
<1> USE DEF Special, Acting, Deleting, ByParent, OfOneCase, Removable
<1> IInv /\ IsQuery(r)
  BY DEF TenantIInv, Scoped
<1>1. CASE SearchObservables(r)
  BY <1>1, OwnRows, ObservableRows, Choices, OneAnswer DEF SearchObservables
<1>2. CASE ListRecentObservables(r)
  BY <1>2, OwnRows, ObservableRows, Choices, OneAnswer DEF ListRecentObservables
<1>3. CASE ListObservables(r)
  BY <1>3, OwnRows, ObservableRows, Choices, OneAnswer DEF ListObservables
<1>4. CASE ExportObservablesCsv(r)
  BY <1>4, OwnRows, ObservableRows, Choices, OneAnswer DEF ExportObservablesCsv
<1>5. CASE GetObservable(r)
  BY <1>5, OwnRows, ObservableRows, Choices, LookUpAlone DEF GetObservable
<1>6. CASE FindSimilar(r)
  <2>1. OwnObservables(r) \subseteq Mine(r) /\ The(r, OwnObservables(r)) \subseteq Mine(r)
    BY ObservableRows
  <2>2. Alike(OwnObservables(r), call[r].id, seen[r]) \subseteq Mine(r)
    BY <2>1 DEF Alike
  <2>3. OfMine(r, Newest(Alike(OwnObservables(r), call[r].id, seen[r]), Created, call[r].limit))
    BY <2>2, Choices
  <2>4. OfMine(r, {{}} \cup Newest(Alike(OwnObservables(r), call[r].id, seen[r]), Created,
                                   call[r].limit))
    BY <2>3 DEF OfMine
  <2> QED
    BY <1>6, <2>1, <2>4, LookUpOne DEF FindSimilar
<1>7. CASE ObservableCaseRefs(r)
  <2> DEFINE alike == Alike(Live(In(r, "observable")), call[r].id, seen[r])
             refs == {c \in Live(Own(r, "case")) : \E x \in alike : db[x].under = c}
  <2>1. The(r, OwnObservables(r)) \subseteq Mine(r)
    BY ObservableRows
  <2>2. refs \subseteq Mine(r)
    BY OwnRows
  <2>3. OfMine(r, Some(refs, call[r].limit))
    BY <2>2, Choices
  <2> QED
    BY <1>7, <2>1, <2>3, LookUpOne DEF ObservableCaseRefs
<1>8. CASE ListCaseObservables(r)
  BY <1>8, OwnRows, ObservableRows, Choices, LookUpOne DEF ListCaseObservables
<1>9. CASE CaseObservablePapSummary(r)
  BY <1>9, OwnRows, ObservableRows, Choices, LookUpOne DEF CaseObservablePapSummary
<1>10. CASE CaseObservableTlpSummary(r)
  BY <1>10, OwnRows, ObservableRows, Choices, LookUpOne DEF CaseObservableTlpSummary
<1>11. CASE CaseObservableTags(r)
  BY <1>11, OwnRows, ObservableRows, Choices, LookUpOne DEF CaseObservableTags
<1>12. CASE CaseObservableSummary(r)
  BY <1>12, OwnRows, ObservableRows, Choices, LookUpOne DEF CaseObservableSummary
<1>13. CASE ExportObservablesToMisp(r)
  BY <1>13, OwnRows, ObservableRows, Choices, LookUpOne DEF ExportObservablesToMisp
<1>14. CASE CaseObservableSimilarityCounts(r)
  <2> DEFINE same == {y \in OwnObservables(r) : \E x \in Got(r, 2) : db[y].name = seen[r][x].name}
  <2>1. OfMine(r, All(OfThisCase(r))) /\ OfMine(r, All(same))
    BY ObservableRows, Choices
  <2> QED
    BY <1>14, <2>1, OwnRows, LookUpTwo DEF CaseObservableSimilarityCounts
<1>15. CASE ListCaseAttachments(r)
  BY <1>15, OwnRows, Rows, Choices, OneAnswer DEF ListCaseAttachments
<1>16. CASE ListShares(r)
  BY <1>16, OwnRows, Rows, Choices, OneAnswer DEF ListShares
<1>17. CASE ListMySharedCases(r)
  <2>1. call[r].op \in AnyOrganization
    BY <1>17 DEF ListMySharedCases, Answer, Asks, AnyOrganization
  <2>2. Since(r, {c \in Live(In(r, "case")) : Shared(r, c) # {}}) \subseteq Mine(r)
    BY <2>1, AnyRows DEF Since
  <2> QED
    BY <1>17, <2>2, Choices, OneAnswer DEF ListMySharedCases
<1>18. CASE ListPortalComments(r)
  <2>1. call[r].op \in AnyOrganization
    BY <1>18 DEF ListPortalComments, AnswerIf, Asks, AnyOrganization
  <2>2. Shared(r, call[r].id) \subseteq Mine(r) /\ Under(In(r, "comment"), call[r].id) \subseteq Mine(r)
    BY <2>1, AnyRows DEF Shared, Under
  <2> QED
    BY <1>18, <2>2, Choices, LookUpOne DEF ListPortalComments
<1>19. CASE Search(r)
  <2>1. Live(Own(r, "case")) \cup Own(r, "alert") \subseteq Mine(r)
    BY OwnRows, Rows, Filters
  <2> QED
    BY <1>19, <2>1, OwnRows, Rows, Choices, OneAnswer DEF Search
<1> QED
  BY <1>1, <1>2, <1>3, <1>4, <1>5, <1>6, <1>7, <1>8, <1>9, <1>10, <1>11, <1>12, <1>13, <1>14,
     <1>15, <1>16, <1>17, <1>18, <1>19 DEF ObservableView

(* The views that count.                                                   *)
LEMMA TenantFigures ==
  ASSUME TenantIInv, NEW r \in Requests, Scoped(r), UNCHANGED indexerVars, Figures(r)
  PROVE  TenantIInv'
<1> USE DEF Special, Acting, Deleting, ByParent, OfOneCase, Removable
<1> IInv /\ IsQuery(r)
  BY DEF TenantIInv, Scoped
<1>1. CASE CasesPerDay(r)
  <2>1. Own(r, "case") \subseteq Mine(r)
    BY <1>1, OwnRows, QueryShape DEF CasesPerDay, CountPerDay, Answer, Asks, Anyhow, Own, In, Mine, OfTenant
  <2> QED
    BY <1>1, <2>1, Choices, OneAnswer DEF CasesPerDay, CountPerDay
<1>2. CASE AlertsPerDay(r)
  BY <1>2, OwnRows, Rows, Choices, OneAnswer DEF AlertsPerDay, CountPerDay
<1>3. CASE AuditPerDay(r)
  BY <1>3, OwnRows, Rows, Choices, OneAnswer DEF AuditPerDay, CountPerDay
<1>4. CASE NotificationsPerDay(r)
  BY <1>4, OwnRows, Rows, Choices, OneAnswer DEF NotificationsPerDay, CountPerDay
<1>5. CASE TtpsHeatmap(r)
  <2> DEFINE named == {t \in In(r, "technique") : \E x \in Got(r, 1) : seen[r][x].name = db[t].name}
  <2>1. OfMine(r, All(Own(r, "case_ttp"))) /\ OfMine(r, All(named))
    BY OwnRows, Choices
  <2> QED
    BY <1>5, <2>1, TwoAnswers DEF TtpsHeatmap
<1>6. CASE CaseMttr(r)
  <2>1. Closed(Live(Own(r, "case"))) \subseteq Mine(r)
    BY OwnRows, Filters
  <2>2. OfMine(r, SUBSET Closed(Live(Own(r, "case"))))
    BY <2>1 DEF OfMine
  <2>3. OfMine(r, SUBSET (Closed(Live(Own(r, "case"))) \ Got(r, 1)))
    BY <2>1 DEF OfMine
  <2> QED
    BY <1>6, <2>2, <2>3, TwoAnswers DEF CaseMttr
<1>7. CASE SlowestOpenCases(r)
  <2> DEFINE open == Live(Own(r, "case")) \ Closed(In(r, "case"))
  <2>1. open \subseteq Mine(r)
    BY OwnRows
  <2>2. \A age : OfMine(r, Newest(open, age, call[r].limit))
    BY <2>1, Choices
  <2> QED
    BY <1>7, <2>2, OneAnswer DEF SlowestOpenCases
<1>8. CASE ObservablesByType(r)
  BY <1>8, OwnRows, ObservableRows, Choices, OneAnswer DEF ObservablesByType, Count
<1>9. CASE ObservablesByTlp(r)
  BY <1>9, OwnRows, ObservableRows, Choices, OneAnswer DEF ObservablesByTlp, Count
<1>10. CASE ObservablesByPap(r)
  BY <1>10, OwnRows, ObservableRows, Choices, OneAnswer DEF ObservablesByPap, Count
<1>11. CASE CaseStages(r)
  BY <1>11, OwnRows, Rows, Choices, OneAnswer DEF CaseStages, Count
<1>12. CASE CasesByTlp(r)
  BY <1>12, OwnRows, Rows, Choices, OneAnswer DEF CasesByTlp, Count
<1>13. CASE CasesByAssignee(r)
  BY <1>13, OwnRows, Rows, Choices, OneAnswer DEF CasesByAssignee, Count
<1>14. CASE AlertsByStatus(r)
  BY <1>14, OwnRows, Rows, Choices, OneAnswer DEF AlertsByStatus, Count
<1>15. CASE AlertsBySource(r)
  <2> DEFINE from(S) == {x \in Own(r, "alert") : db[x].name \in S}
             told == {from(S) : S \in Some({db[x].name : x \in Own(r, "alert")}, call[r].limit)}
  <2>1. OfMine(r, told)
    BY OwnRows DEF OfMine
  <2> QED
    BY <1>15, <2>1, OneAnswer DEF AlertsBySource
<1>16. CASE TasksByStatus(r)
  BY <1>16, OwnRows, Rows, Choices, OneAnswer DEF TasksByStatus, Count
<1> QED
  BY <1>1, <1>2, <1>3, <1>4, <1>5, <1>6, <1>7, <1>8, <1>9, <1>10, <1>11, <1>12, <1>13, <1>14,
     <1>15, <1>16 DEF Figures

-----------------------------------------------------------------------------
(* The search finds what has an embedding, which only cases have.          *)
LEMMA TenantSearch ==
  ASSUME TenantIInv, NEW r \in Requests, Scoped(r), SearchSimilarCases(r)
  PROVE  TenantIInv'
<1> IInv /\ IsQuery(r) /\ UNCHANGED indexerVars
  BY DEF TenantIInv, Scoped, SearchSimilarCases
<1>1. embedded \subseteq Ids /\ (vectors = Null \/ vectors \subseteq embedded)
  BY DEF IInv, IndexerTypeOK
<1>2. Similar(r, embedded) \subseteq Mine(r) /\ (vectors # Null => Similar(r, vectors) \subseteq Mine(r))
  BY <1>1 DEF Similar, Mine, OfTenant, There, TenantIInv, EmbeddedAreCases, IsCase
<1>3. CASE vectors = Null
  <2>1. OnlyAnswers(r)
    BY SearchKeeps
  <2>2. pc'[r] = "500"
    BY <1>3 DEF SearchSimilarCases, Refuse, TypeOK, IInv
  <2> QED
    BY <1>3, <2>1, <2>2, AnswerIsProper DEF SearchSimilarCases, Refuse
<1>4. CASE vectors # Null
  <2> DEFINE first == Some(Similar(r, vectors), call[r].limit)
             second == Some(Similar(r, embedded), call[r].limit)
  <2>1. OfMine(r, first) /\ OfMine(r, second)
    BY <1>2, <1>4, Choices
  <2>2. \/ Answer(r, "similarCases", <<first>>)
        \/ Answer(r, "similarCases", <<first, second>>)
    BY <1>4 DEF SearchSimilarCases
  <2> HIDE DEF first, second
  <2> QED
    BY <2>1, <2>2, OneAnswer, TwoAnswers DEF Special, Acting, Deleting, ByParent, OfOneCase
<1> QED
  BY <1>3, <1>4

(* A view that is refused has answered nothing more.                       *)
LEMMA TenantRefused ==
  ASSUME TenantIInv, NEW r \in Requests, RefuseView(r), UNCHANGED indexerVars
  PROVE  TenantIInv'
<1>1. OnlyAnswers(r)
  BY RefuseViewKeeps DEF TenantIInv
<1>2. pc'[r] = "500" /\ UNCHANGED <<answer, seen, began>>
  BY DEF RefuseView, Refuse, TenantIInv, IInv, TypeOK
<1> QED
  BY <1>1, <1>2, AnswerIsProper

LEMMA TenantView ==
  ASSUME TenantIInv, NEW r \in Requests,
         (View(r) /\ UNCHANGED indexerVars) \/ SearchSimilarCases(r)
  PROVE  TenantIInv'
<1>1. CASE Scoped(r)
  BY <1>1, TenantAccountView, TenantLibraryView, TenantCaseView, TenantObservableView,
     TenantFigures, TenantSearch, TenantRefused DEF View
<1>2. CASE ~Scoped(r)
  <2>1. OnlyAnswers(r) /\ UNCHANGED indexerVars
    BY ViewKeeps DEF TenantIInv, SearchSimilarCases
  <2> QED
    BY <1>2, <2>1, AnswerIsProper
<1> QED
  BY <1>1, <1>2

(* What is asked, answered and deleted does not change with the indexer.   *)
LEMMA Unmoved ==
  ASSUME AnswersAreProper, DeletionsShow, BegunByNow, UNCHANGED tableVars
  PROVE  AnswersAreProper' /\ DeletionsShow' /\ BegunByNow'
<1> USE DEF tableVars
<1>1. \A r, x : DeletedBefore(r, x)' = DeletedBefore(r, x)
  BY DEF DeletedBefore, Done
<1>2. \A r, x : Proper(r, x)' = Proper(r, x)
  BY <1>1 DEF Proper, Known, OfTenant, Joined
<1>3. \A r : ProperAnswers(r)' = ProperAnswers(r)
  BY <1>1, <1>2 DEF ProperAnswers, Entered, Known
<1>4. AnswersAreProper'
  BY <1>3 DEF AnswersAreProper, Scoped, IsQuery
<1> QED
  BY <1>4 DEF DeletionsShow, Done, IsGone, BegunByNow

LEMMA TenantIndexer ==
  ASSUME TenantIInv, \/ \E w \in Workers : Query(w) \/ Index(w) \/ LoseRound(w)
                     \/ Backfill
  PROVE  TenantIInv'
<1>1. UNCHANGED tableVars /\ IInv'
  BY IndexerKeeps DEF TenantIInv, Query, Index, LoseRound, Backfill
<1>2. AnswersAreProper' /\ DeletionsShow' /\ BegunByNow'
  BY <1>1, Unmoved DEF TenantIInv
<1>3. \A x : IsCase(x) => IsCase(x)'
  BY <1>1 DEF tableVars, IsCase
<1>4. ASSUME NEW w \in Workers, Query(w) PROVE EmbeddedAreCases'
  <2>1. PICK rows \in Newest(ClosedCases, Changed, Window) :
          \E first \in Newest(rows \ embedded, Changed, Batch) :
            todo' = [todo EXCEPT ![w] = first]
    BY <1>4 DEF Query
  <2>2. rows \subseteq ClosedCases
    BY <2>1 DEF Newest, Page
  <2>3. PICK first \in SUBSET ClosedCases : todo' = [todo EXCEPT ![w] = first]
    BY <2>1, <2>2 DEF Newest, Page
  <2>4. \A x \in first : IsCase(x)
    BY DEF ClosedCases, IsCase
  <2>5. embedded' = embedded /\ todo \in [Workers -> SUBSET Ids]
    BY <1>4 DEF Query, TenantIInv, IInv, IndexerTypeOK
  <2> QED
    BY <1>3, <2>3, <2>4, <2>5 DEF TenantIInv, EmbeddedAreCases
<1>5. ASSUME NEW w \in Workers, Index(w) \/ LoseRound(w) PROVE EmbeddedAreCases'
  BY <1>3, <1>5 DEF Index, LoseRound, TenantIInv, IInv, IndexerTypeOK, EmbeddedAreCases
<1>6. ASSUME Backfill PROVE EmbeddedAreCases'
  <2>1. embedded' = embedded /\ todo' = todo
    BY <1>6 DEF Backfill
  <2> QED
    BY <1>3, <2>1 DEF TenantIInv, EmbeddedAreCases
<1> QED
  BY <1>1, <1>2, <1>4, <1>5, <1>6 DEF TenantIInv

LEMMA TenantInit == BackOfficeInit => TenantIInv
<1> SUFFICES ASSUME BackOfficeInit PROVE TenantIInv
  OBVIOUS
<1>1. IInv
  BY InitIInv
<1>2. AnswersAreProper
  BY DEF BackOfficeInit, Init, AnswersAreProper, ProperAnswers
<1>3. EmbeddedAreCases
  BY DEF BackOfficeInit, IndexerInit, EmbeddedAreCases
<1>4. DeletionsShow /\ BegunByNow
  BY IdsAssumption DEF BackOfficeInit, Init, DeletionsShow, BegunByNow, Done
<1> QED
  BY <1>1, <1>2, <1>3, <1>4 DEF TenantIInv

LEMMA TenantNext == TenantIInv /\ [Next]_vars => TenantIInv'
<1> SUFFICES ASSUME TenantIInv, [Next]_vars PROVE TenantIInv'
  OBVIOUS
<1>1. CASE UNCHANGED vars
  <2>1. IInv'
    BY <1>1, NextIInv DEF TenantIInv
  <2>2. UNCHANGED tableVars /\ UNCHANGED indexerVars
    BY <1>1 DEF vars
  <2>3. EmbeddedAreCases'
    BY <2>2 DEF tableVars, indexerVars, TenantIInv, EmbeddedAreCases, IsCase
  <2> QED
    BY <2>1, <2>2, <2>3, Unmoved DEF TenantIInv
<1>2. ASSUME NEW r \in Requests, Read(r) \/ AccountStep(r) \/ LibraryStep(r),
             UNCHANGED indexerVars
      PROVE  TenantIInv'
  <2>1. Keeps(r) /\ IInv
    BY <1>2, ReadKeeps, AccountKeeps, LibraryKeeps DEF TenantIInv
  <2>2. pc'[r] = "200" /\ pc[r] # "200" /\ call[r].op \in Deleting => IsGone(call[r].id)'
    BY <1>2, <2>1, DeletersDelete DEF Keeps, Quiet
  <2> QED
    BY <1>2, <2>1, <2>2, KeepsTenant
<1>3. ASSUME NEW r \in Requests,
             (View(r) /\ UNCHANGED indexerVars) \/ SearchSimilarCases(r)
      PROVE  TenantIInv'
  BY <1>3, TenantView
<1>4. CASE (\E w \in Workers : Query(w) \/ Index(w) \/ LoseRound(w)) \/ Backfill
  BY <1>4, TenantIndexer
<1> QED
  BY <1>1, <1>2, <1>3, <1>4 DEF Next

(* Whatever is committed between the statements of a view, it answers with *)
(* rows of the organization of who asks, with the techniques all share or  *)
(* with the caller, save for the views that ask for no organization        *)
(* (AnyOrganization): though users.py joins memberships, cases.py asks for *)
(* comments and logs by the case alone, observables.py joins observables   *)
(* of all organizations, and similarity.py searches the embeddings of all. *)
THEOREM TenantIsolation == Spec => []AnswersOfTheTenant
<1>1. TenantIInv => AnswersOfTheTenant
  BY TenantIInvImplies DEF AnswersAreConfined
<1> QED
  BY <1>1, TenantInit, TenantNext, PTL DEF Spec

(* Nor does it answer with a user, a case or an observable that was        *)
(* deleted before it began (save for the caller, and for the views that do *)
(* not ask), or with anything about a case that was: users.py, cases.py    *)
(* and observables.py set deleted_at, which every statement has to ask for *)
(* by itself, and what a view has found is not looked up again.            *)
THEOREM Confinement == Spec => []AnswersAreConfined
  BY TenantInit, TenantNext, TenantIInvImplies, PTL DEF Spec

-----------------------------------------------------------------------------
(* What a handler does to accounts, seeds and texts.  It has failed or     *)
(* goes on, and no row has changed, or it commits.                         *)
Idle(r) ==
  /\ UNCHANGED <<db, call, seen, began>>
  /\ \A q \in Requests : pc'[q] \in {"write", "200"} => pc'[q] = pc[q]
Committed(r) ==
  /\ pc[r] = "write" /\ pc'[r] = "200" /\ ended'[r] = clock /\ clock' = clock + 1
  /\ UNCHANGED <<call, seen, began>>
  /\ \A q \in Requests \ {r} : pc'[q] = pc[q] /\ ended'[q] = ended[q]
Texts == {"comment", "log", "ai_call"}
Telling == Texts \cup {"user", "mfa", "audit"}
SameAuthor(a, b) == b.by = a.by
SameWords(a, b) == b.name = a.name /\ b.state = a.state
(* What is polled has the time of who wrote it last, a user that of when   *)
(* they last looked at their mentions; what is audited stays.              *)
Looks(r, x) == call[r].op = "seen" /\ call[r].user = x
Dated(r, x, row) ==
  /\ row.table \in Stamped /\ row # db[x] => row.at = began[r]
  /\ db[x] # Null /\ db[x].table = "user" =>
       row.at = db[x].at \/ (Looks(r, x) /\ row.at \in 0..clock)
Dates(r) ==
  \A x \in Ids : /\ db'[x] # Null => Dated(r, x, db'[x])
                 /\ db[x] # Null /\ db[x].table = "audit" => db'[x] # Null
(* Most leave accounts, seeds and texts alone.                             *)
Leaves(r) ==
  /\ Dates(r)
  /\ \A x \in Ids : db'[x] # Null =>
       /\ db[x] = Null => db'[x].table # "mfa"
       /\ db[x] # Null => /\ SameAuthor(db[x], db'[x])
                          /\ db[x].table \in Telling => SameWords(db[x], db'[x])
Mild(r) == Idle(r) \/ (Committed(r) /\ Leaves(r))

LEMMA RefuseIsIdle ==
  ASSUME IInv, NEW r \in Requests, NEW code \in Codes, Refuse(r, code)
  PROVE  Idle(r)
<1>1. pc \in [Requests -> {"idle", "read", "next", "write", "200", "400", "401", "403", "404", "409", "500"}]
  BY DEF IInv, TypeOK
<1>2. pc' = [pc EXCEPT ![r] = code] /\ code \notin {"write", "200"}
  BY DEF Refuse, Codes
<1> QED
  BY <1>1, <1>2 DEF Refuse, Idle
LEMMA CommitIsCommitted ==
  ASSUME IInv, NEW r \in Requests, pc[r] = "write", NEW rows, Commit(r, rows)
  PROVE  Committed(r) /\ db' = rows
  BY DEF IInv, TypeOK, Commit, Committed

(* Rows that an INSERT or an UPDATE may leave in passing.                  *)
Tame(r, new, x) ==
  \/ x \in {r} \X (1..MaxRows) /\ new[x].table # "mfa" /\ new[x].at = began[r]
  \/ /\ db[x] # Null /\ db[x].table # "audit" /\ SameAuthor(db[x], new[x]) /\ Dated(r, x, new[x])
     /\ db[x].table \in Telling => SameWords(db[x], new[x])
LEMMA FreshIds ==
  ASSUME IInv, NEW r \in Requests, pc[r] # "200", NEW x \in {r} \X (1..MaxRows)
  PROVE  x \in Ids /\ db[x] = Null
  BY DEF IInv, PlacesStay, Ids
LEMMA InsertIsMild ==
  ASSUME IInv, NEW r \in Requests, pc[r] = "write", NEW new, NEW clash \in Codes,
         \A x \in DOMAIN new : Tame(r, new, x), Insert(r, new, clash)
  PROVE  Mild(r)
<1>1. CASE Refuse(r, clash) \/ Refuse(r, "500")
  BY <1>1, RefuseIsIdle DEF Mild, Codes
<1>2. CASE Commit(r, With(new))
  <2>1. Committed(r) /\ db' = With(new)
    BY <1>2, CommitIsCommitted
  <2>2. \A x \in Ids : db'[x] = IF x \in DOMAIN new THEN new[x] ELSE db[x]
    BY <2>1 DEF With
  <2>3. \A x \in DOMAIN new : x \in {r} \X (1..MaxRows) => db[x] = Null
    BY FreshIds
  <2>4. Dates(r)
    BY <2>2, <2>3 DEF Dates, Tame, Dated
  <2>5. Leaves(r)
    BY <2>2, <2>3, <2>4 DEF Leaves, Tame, SameAuthor, SameWords
  <2> QED
    BY <2>1, <2>5 DEF Mild
<1> QED
  BY <1>1, <1>2 DEF Insert
LEMMA InsertOneIsMild ==
  ASSUME IInv, NEW r \in Requests, pc[r] = "write", NEW row, row.table # "mfa", row.at = began[r],
         NEW clash \in Codes,
         InsertOne(r, row, clash)
  PROVE  Mild(r)
<1> DEFINE new == [x \in {<<r, 1>>} |-> row]
<1>1. \A x \in DOMAIN new : Tame(r, new, x)
  <2>1. <<r, 1>> \in {r} \X (1..MaxRows)
    BY NewIds
  <2> QED
    BY <2>1 DEF Tame
<1>2. Insert(r, new, clash)
  BY DEF InsertOne
<1> HIDE DEF new
<1> QED
  BY <1>1, <1>2, InsertIsMild
LEMMA InsertSole ==
  ASSUME IInv, NEW r \in Requests, pc[r] = "write", NEW clash \in Codes,
         NEW table, table # "mfa", NEW o, NEW under, NEW name, NEW state, NEW by,
         InsertOne(r, Sole(r, table, o, under, name, state, by), clash)
  PROVE  Mild(r)
<1> DEFINE row == Sole(r, table, o, under, name, state, by)
<1>1. row.table = table /\ row.at = began[r]
  BY DEF Sole
<1> HIDE DEF row
<1>2. InsertOne(r, row, clash)
  BY DEF row
<1> QED
  BY <1>1, <1>2, InsertOneIsMild

(* What an UPDATE does to the columns.                                     *)
LEMMA UpdatedColumns ==
  ASSUME IInv, NEW r \in Requests, NEW x \in Ids, db[x] # Null, NEW columns
  PROVE  LET row == Updated(r, x, columns)
         IN  /\ row.table = db[x].table /\ row.under = db[x].under /\ row.by = db[x].by
             /\ row.name = Column(r, x, columns, "name") /\ row.state = Column(r, x, columns, "state")
             /\ "name" \notin DOMAIN columns => row.name = db[x].name
             /\ "state" \notin DOMAIN columns => row.state = db[x].state
             /\ row.at = Stamp(r, x, columns)
             /\ Sent(r, x, columns) = {} => row = db[x]
<1>1. db[x] \in Row
  BY DEF IInv, TypeOK
<1>2. ASSUME Sent(r, x, columns) = {} PROVE Updated(r, x, columns) = db[x]
  <2>1. \A c : Column(r, x, columns, c) = db[x][c]
    BY <1>2 DEF Column
  <2>2. Stamp(r, x, columns) = db[x]["at"]
    BY <1>2, <2>1 DEF Stamp
  <2>3. Updated(r, x, columns) =
          [db[x] EXCEPT !.name = db[x].name, !.state = db[x].state, !.gone = db[x].gone, !.at = db[x].at]
    BY <2>1, <2>2 DEF Updated
  <2> QED
    BY <1>1, <2>3 DEF Row
<1> QED
  BY <1>1, <1>2 DEF Updated, Row, Column, Sent
(* An UPDATE that sets no time but to rows that are not stamped, and of no *)
(* audit record.                                                           *)
Timely(r, x, columns) ==
  /\ (\E table : table # "audit" /\ Sees(r, x, table)) \/ x \in Callers
  /\ "at" \in DOMAIN columns =>
       \/ Sees(r, x, "mfa")
       \/ x \in Callers /\ Looks(r, x) /\ columns["at"] \in 0..clock
LEMMA UpdatedIsDated ==
  ASSUME IInv, NEW r \in Requests, pc[r] = "write", NEW x \in Ids, db[x] # Null,
         NEW columns, Timely(r, x, columns)
  PROVE  Dated(r, x, Updated(r, x, columns)) /\ db[x].table # "audit"
<1> DEFINE row == Updated(r, x, columns)
<1>1. /\ row.table = db[x].table /\ row.at = Stamp(r, x, columns)
      /\ Sent(r, x, columns) = {} => row = db[x]
  BY UpdatedColumns
<1>2. db[x].table # "audit"
  BY SeenStays DEF Timely, IInv, PlacesStay
<1> HIDE DEF row
<1>3. CASE "at" \notin DOMAIN columns
  <2>1. db[x].table = "user" => row.at = db[x].at
    BY <1>1, <1>3 DEF Stamp, Column, Sent, Stamped
  <2>2. row.table \in Stamped /\ row # db[x] => row.at = began[r]
    BY <1>1, <1>3 DEF Stamp
  <2> QED
    BY <1>2, <2>1, <2>2 DEF Dated, row
<1>4. CASE "at" \in DOMAIN columns /\ Sees(r, x, "mfa")
  <2>1. db[x].table = "mfa"
    BY <1>4, SeenStays
  <2> QED
    BY <1>1, <1>2, <2>1 DEF Dated, Stamped, row
<1>5. CASE "at" \in DOMAIN columns /\ x \in Callers /\ Looks(r, x) /\ columns["at"] \in 0..clock
  <2>1. db[x].table = "user"
    BY <1>5 DEF IInv, PlacesStay
  <2>2. row.at = db[x].at \/ row.at = columns["at"]
    BY <1>1, <2>1 DEF Stamp, Stamped, Column
  <2> QED
    BY <1>1, <1>2, <1>5, <2>1, <2>2 DEF Dated, Stamped, row
<1> QED
  BY <1>3, <1>4, <1>5 DEF Timely
(* A row that is of another table, or a column that tells nothing.         *)
Aside(r, x, columns) ==
  /\ Timely(r, x, columns)
  /\ \/ \E table : table \notin Telling /\ Sees(r, x, table)
     \/ DOMAIN columns \cap {"name", "state"} = {}
LEMMA UpdatedIsTame ==
  ASSUME IInv, NEW r \in Requests, pc[r] = "write", NEW x \in Ids, db[x] # Null,
         NEW columns, Aside(r, x, columns)
  PROVE  /\ SameAuthor(db[x], Updated(r, x, columns))
         /\ db[x].table # "audit" /\ Dated(r, x, Updated(r, x, columns))
         /\ db[x].table \in Telling => SameWords(db[x], Updated(r, x, columns))
<1> DEFINE row == Updated(r, x, columns)
<1>1. /\ row.by = db[x].by
      /\ "name" \notin DOMAIN columns => row.name = db[x].name
      /\ "state" \notin DOMAIN columns => row.state = db[x].state
  BY UpdatedColumns
<1>2. (\E table : table \notin Telling /\ Sees(r, x, table)) => db[x].table \notin Telling
  BY SeenStays
<1>3. db[x].table # "audit" /\ Dated(r, x, row)
  BY UpdatedIsDated DEF Aside
<1> QED
  BY <1>1, <1>2, <1>3 DEF Aside, SameAuthor, SameWords
LEMMA UpdateIsMild ==
  ASSUME IInv, NEW r \in Requests, pc[r] = "write", NEW x \in Ids, NEW columns,
         Aside(r, x, columns), Update(r, x, columns)
  PROVE  Mild(r)
<1> DEFINE new == [y \in {z \in {x} : db[z] # Null} |-> Updated(r, y, columns)]
<1>1. CASE Refuse(r, "500")
  BY <1>1, RefuseIsIdle DEF Codes, Mild
<1>2. CASE Insert(r, new, "500")
  <2>1. \A y \in DOMAIN new : Tame(r, new, y)
    BY UpdatedIsTame DEF Tame
  <2> HIDE DEF new
  <2> QED
    BY <1>2, <2>1, InsertIsMild DEF Codes
<1> QED
  BY <1>1, <1>2 DEF Update
LEMMA UpdateOther ==
  ASSUME IInv, NEW r \in Requests, pc[r] = "write", NEW x \in Ids, NEW columns,
         NEW table, table \notin Telling, Sees(r, x, table), "at" \notin DOMAIN columns,
         Update(r, x, columns)
  PROVE  Mild(r)
  BY UpdateIsMild DEF Aside, Timely, Telling
LEMMA DeleteIsMild ==
  ASSUME IInv, NEW r \in Requests, pc[r] = "write", NEW x \in Ids, NEW table, table # "audit",
         Sees(r, x, table), Delete(r, x)
  PROVE  Mild(r)
<1>1. CASE Refuse(r, "500")
  BY <1>1, RefuseIsIdle DEF Codes, Mild
<1>2. CASE Commit(r, With([y \in {x} |-> Null]))
  <2>1. Committed(r) /\ db' = With([y \in {x} |-> Null])
    BY <1>2, CommitIsCommitted
  <2>2. \A y \in Ids : db'[y] = IF y = x THEN Null ELSE db[y]
    BY <2>1 DEF With
  <2>3. db[x] # Null => db[x].table # "audit"
    BY SeenStays
  <2>4. Dates(r)
    BY <2>2, <2>3 DEF Dates, Dated
  <2> QED
    BY <2>1, <2>2, <2>4 DEF Mild, Leaves, SameAuthor, SameWords
<1> QED
  BY <1>1, <1>2 DEF Delete
LEMMA SameIsMild ==
  ASSUME IInv, NEW r \in Requests, pc[r] = "write", Commit(r, db)
  PROVE  Mild(r)
<1>1. Committed(r) /\ db' = db
  BY CommitIsCommitted
<1>2. Dates(r)
  BY <1>1 DEF Dates, Dated
<1> QED
  BY <1>1, <1>2 DEF Mild, Leaves, SameAuthor, SameWords
-----------------------------------------------------------------------------
(* Handlers that leave accounts, seeds and texts alone, but for what they  *)
(* insert.                                                                 *)
LEMMA UsersAreMild ==
  ASSUME IInv, NEW r \in Requests, InviteUser(r) \/ PatchUser(r) \/ DeleteUser(r)
  PROVE  Mild(r)
<1>0. "member" \notin Telling
  BY DEF Telling, Texts
<1>1. CASE InviteUser(r)
  <2> DEFINE c == call[r]
             S == {<<r, 1>>, <<r, 2>>}
             user == Sole(r, "user", Null, Null, c.email, "pending_invite", Null)
             member == Sole(r, "member", c.org, <<r, 1>>, c.profile, "", Null)
             new == [x \in S |-> IF x = <<r, 1>> THEN user ELSE member]
  <2>1. pc[r] = "write"
    BY <1>1 DEF InviteUser, Of
  <2>2. CASE Refuse(r, "409") \/ Refuse(r, "400")
    BY <2>2, RefuseIsIdle DEF Codes, Mild
  <2>3. CASE Insert(r, new, "500")
    <3>1. /\ user.table # "mfa" /\ member.table # "mfa" /\ S \subseteq {r} \X (1..MaxRows)
          /\ user.at = began[r] /\ member.at = began[r]
      BY NewIds DEF Sole
    <3>2. \A x \in DOMAIN new : Tame(r, new, x)
      BY <3>1 DEF Tame
    <3> HIDE DEF new
    <3> QED
      BY <2>1, <2>3, <3>2, InsertIsMild DEF Codes
  <2> QED
    BY <1>1, <2>2, <2>3 DEF InviteUser
<1>2. CASE PatchUser(r)
  <2> DEFINE c == call[r]
             mine == Membership(seen[r], c.id, c.org)
  <2>1. pc[r] = "write" /\ \A m \in mine : m \in Ids /\ Sees(r, m, "member")
    BY <1>2 DEF PatchUser, Of, Membership, Sees
  <2>2. CASE Refuse(r, "404") \/ Refuse(r, "400") \/ Refuse(r, "500")
    BY <2>2, RefuseIsIdle DEF Codes, Mild
  <2>3. CASE Commit(r, db)
    BY <2>1, <2>3, SameIsMild
  <2>4. CASE \E m \in mine : Update(r, m, [name |-> c.profile])
    BY <1>0, <2>1, <2>4, UpdateOther
  <2> QED
    BY <1>2, <2>2, <2>3, <2>4 DEF PatchUser
<1>3. CASE DeleteUser(r)
  <2> DEFINE columns == [gone |-> TRUE]
  <2>1. pc[r] = "write" /\ call[r] \in Calls /\ call[r].op = "deleteUser"
    BY <1>3, WriterCalls DEF IInv, DeleteUser
  <2>2. call[r].id \in Ids
    BY <2>1, AccountCallShape
  <2>3. CASE Refuse(r, "404") \/ Refuse(r, "400")
    BY <2>3, RefuseIsIdle DEF Codes, Mild
  <2>4. CASE Sees(r, call[r].id, "user") /\ Update(r, call[r].id, columns)
    <3>1. DOMAIN columns \cap {"name", "state"} = {}
      OBVIOUS
    <3> QED
      BY <2>1, <2>2, <2>4, <3>1, UpdateIsMild DEF Aside, Timely
  <2> QED
    BY <1>3, <2>3, <2>4 DEF DeleteUser, OnUser
<1> QED
  BY <1>1, <1>2, <1>3

LEMMA SeedsThatGo ==
  ASSUME IInv, NEW r \in Requests, MfaDisable(r) \/ MfaRegenerate(r) \/ AdminResetMfa(r)
  PROVE  Mild(r)
<1>1. pc[r] = "write"
  BY DEF MfaDisable, MfaRegenerate, AdminResetMfa, Of
<1>2. \A u : /\ Confirmed(r, u) \subseteq SecretOf(r, u)
             /\ \A m \in SecretOf(r, u) : m \in Ids /\ Sees(r, m, "mfa")
  BY DEF SecretOf, Confirmed
<1>3. CASE Refused(r) # "none" /\ Refuse(r, Refused(r))
  BY <1>3, RefuseIsIdle DEF Refused, Codes, Mild
<1>4. CASE MfaDisable(r)
  BY <1>1, <1>2, <1>3, <1>4, DeleteIsMild DEF MfaDisable
<1>5. CASE MfaRegenerate(r)
  <2> DEFINE columns == [at |-> began[r]]
  <2>1. DOMAIN columns \cap {"name", "state"} = {}
    OBVIOUS
  <2>2. CASE \E m \in Confirmed(r, call[r].user) : Update(r, m, columns)
    <3> HIDE DEF columns
    <3> QED
      BY <1>1, <1>2, <2>1, <2>2, UpdateIsMild DEF Aside, Timely
  <2> QED
    BY <1>3, <1>5, <2>2 DEF MfaRegenerate
<1>6. CASE AdminResetMfa(r)
  BY <1>1, <1>2, <1>6, SameIsMild, DeleteIsMild DEF AdminResetMfa
<1> QED
  BY <1>4, <1>5, <1>6

LEMMA RestOfAccountsIsMild ==
  ASSUME IInv, NEW r \in Requests,
         \/ CreateProfile(r) \/ PatchProfile(r) \/ DeleteProfile(r)
         \/ PatchOrg(r) \/ CreateSharing(r) \/ DeleteSharing(r)
         \/ CreateMyKey(r) \/ RevokeMyKey(r) \/ AdminRevokeKey(r)
  PROVE  Mild(r)
<1>1. pc[r] = "write" /\ call[r] \in Calls
  BY WriterCalls DEF IInv, CreateProfile, PatchProfile, DeleteProfile, PatchOrg, CreateSharing,
    DeleteSharing, CreateMyKey, RevokeMyKey, AdminRevokeKey
<1>2. \A code \in Codes : Refuse(r, code) => Mild(r)
  BY RefuseIsIdle DEF Mild
<1>3. {"profile", "organization", "sharing", "api_key"} \cap (Telling \cup {"mfa"}) = {}
  BY DEF Telling, Texts
<1>4. CASE CreateProfile(r)
  BY <1>1, <1>4, InsertSole DEF CreateProfile, Codes
<1>5. CASE PatchProfile(r)
  <2>1. call[r].id \in Ids
    BY <1>1, <1>5, OrgCallShape DEF PatchProfile, Of
  <2> QED
    BY <1>1, <1>2, <1>3, <1>5, <2>1, UpdateOther DEF PatchProfile, SeesOwn, Codes
<1>6. CASE DeleteProfile(r)
  <2>1. call[r].id \in Ids
    BY <1>1, <1>6, OrgCallShape DEF DeleteProfile, Of
  <2> QED
    BY <1>1, <1>2, <1>6, <2>1, DeleteIsMild DEF DeleteProfile, SeesOwn, Codes
<1>7. CASE PatchOrg(r)
  <2>1. call[r].id \in Ids
    BY <1>1, <1>7, OrgCallShape DEF PatchOrg, Of
  <2> QED
    BY <1>1, <1>2, <1>3, <1>7, <2>1, UpdateOther DEF PatchOrg, Codes
<1>8. CASE CreateSharing(r)
  BY <1>1, <1>2, <1>8, InsertSole DEF CreateSharing, Codes
<1>9. CASE DeleteSharing(r)
  <2>1. call[r].id \in Ids
    BY <1>1, <1>9, OrgCallShape DEF DeleteSharing, Of
  <2> QED
    BY <1>1, <1>2, <1>9, <2>1, DeleteIsMild DEF DeleteSharing, SeesOwn, Codes
<1>10. CASE CreateMyKey(r)
  BY <1>1, <1>2, <1>10, InsertSole DEF CreateMyKey, Codes
<1>11. CASE RevokeMyKey(r) \/ AdminRevokeKey(r)
  <2>1. call[r].id \in Ids
    BY <1>1, <1>11, OrgCallShape DEF RevokeMyKey, AdminRevokeKey, Of
  <2> QED
    BY <1>1, <1>2, <1>3, <1>11, <2>1, UpdateOther DEF RevokeMyKey, AdminRevokeKey, Revoke, Codes
<1> QED
  BY <1>4, <1>5, <1>6, <1>7, <1>8, <1>9, <1>10, <1>11
(* The ways of most handlers of the library.                               *)
LEMMA WaysAreMild ==
  ASSUME IInv, NEW r \in Requests, pc[r] = "write", NEW table, table \notin Telling
  PROVE  /\ Create(r, table) => Mild(r)
         /\ Clone(r, table) => Mild(r)
         /\ call[r].id \in Ids /\ Rewrite(r, table) => Mild(r)
         /\ call[r].id \in Ids /\ Remove(r, table) => Mild(r)
         /\ Join(r, table) => Mild(r)
<1>1. \A code \in Codes : Refuse(r, code) => Mild(r)
  BY RefuseIsIdle DEF Mild
<1>2. table # "mfa"
  BY DEF Telling
<1>3. Create(r, table) => Mild(r)
  BY <1>2, InsertSole DEF Create, Codes
<1>4. Clone(r, table) => Mild(r)
  BY <1>1, <1>2, InsertSole DEF Clone, Codes
<1>5. Join(r, table) => Mild(r)
  BY <1>2, InsertSole DEF Join, Codes
<1>6. ASSUME call[r].id \in Ids, Rewrite(r, table) PROVE Mild(r)
  <2>1. CASE Refuse(r, "404")
    BY <1>1, <2>1 DEF Codes
  <2>2. CASE Sees(r, call[r].id, table) /\ Update(r, call[r].id, [state |-> r])
    BY <1>6, <2>2, UpdateOther
  <2> QED
    BY <1>6, <2>1, <2>2 DEF Rewrite, SeesOwn
<1>7. ASSUME call[r].id \in Ids, Remove(r, table) PROVE Mild(r)
  BY <1>1, <1>7, DeleteIsMild DEF Remove, SeesOwn, Codes, Telling
<1> QED
  BY <1>3, <1>4, <1>5, <1>6, <1>7

LEMMA KbIsMild ==
  ASSUME IInv, NEW r \in Requests,
         \/ CreateKbPage(r) \/ PatchKbPage(r) \/ CloneKbPage(r) \/ DeleteKbPage(r)
         \/ CreateTemplate(r) \/ PatchTemplate(r) \/ CloneCaseTemplate(r) \/ DeleteTemplate(r)
  PROVE  Mild(r)
<1>1. "kb" \notin Telling /\ "template" \notin Telling
  BY DEF Telling, Texts
<1>2. pc[r] = "write" /\ call[r] \in Calls
  BY WriterCalls DEF IInv, CreateKbPage, PatchKbPage, CloneKbPage, DeleteKbPage, CreateTemplate,
    PatchTemplate, CloneCaseTemplate, DeleteTemplate
<1>3. CASE PatchKbPage(r) \/ DeleteKbPage(r) \/ PatchTemplate(r) \/ DeleteTemplate(r)
  <2>1. call[r].op \in {"patchKb", "patchTemplate", "deleteKb", "deleteTemplate"}
    BY <1>3 DEF PatchKbPage, DeleteKbPage, PatchTemplate, DeleteTemplate, Of
  <2>2. call[r].id \in Ids
    BY <1>2, <2>1, LibraryCallShape
  <2> QED
    BY <1>1, <1>2, <1>3, <2>2, WaysAreMild
       DEF PatchKbPage, DeleteKbPage, PatchTemplate, DeleteTemplate
<1> QED
  BY <1>1, <1>2, <1>3, WaysAreMild DEF CreateKbPage, CloneKbPage, CreateTemplate, CloneCaseTemplate

LEMMA ApplyTemplateIsMild ==
  ASSUME IInv, NEW r \in Requests, ApplyTemplate(r)
  PROVE  Mild(r)
<1>1. pc[r] = "write"
  BY DEF ApplyTemplate, Of
<1> DEFINE o == call[r].org
           S == {<<r, k>> : k \in 1..(1 + TemplateTasks)}
           new(n) == [x \in S |->
             IF x = <<r, 1>> THEN Sole(r, "case", o, Null, <<"number", n>>, "open", call[r].user)
             ELSE Sole(r, "task", o, <<r, 1>>, r, "Waiting", Null)]
<1>2. CASE Refuse(r, "404")
  BY <1>2, RefuseIsIdle DEF Codes, Mild
<1>3. ASSUME NEW n, Insert(r, new(n), "500") PROVE Mild(r)
  <2>1. \A k \in 1..(1 + TemplateTasks) : k \in 1..MaxRows
    BY TemplateAssumption, IdsAssumption
  <2>2. S \subseteq {r} \X (1..MaxRows)
    BY <2>1
  <2>3. \A x \in S : new(n)[x].table # "mfa" /\ new(n)[x].at = began[r]
    BY DEF Sole
  <2>4. \A x \in DOMAIN new(n) : Tame(r, new(n), x)
    BY <2>2, <2>3 DEF Tame
  <2> HIDE DEF new
  <2> QED
    BY <1>1, <1>3, <2>4, InsertIsMild DEF Codes
<1> QED
  BY <1>2, <1>3 DEF ApplyTemplate

LEMMA TaxonomyIsMild ==
  ASSUME IInv, NEW r \in Requests,
         CreateTaxonomyEntry(r) \/ DeleteTaxonomyEntry(r) \/ ImportTag(r) \/ ImportDeadlock(r)
           \/ ImportEnd(r)
  PROVE  Mild(r)
<1>1. pc[r] = "write" /\ call[r] \in Calls
  BY WriterCalls DEF IInv, CreateTaxonomyEntry, DeleteTaxonomyEntry, ImportTag, ImportDeadlock,
    ImportEnd
<1>2. CASE CreateTaxonomyEntry(r)
  BY <1>1, <1>2, InsertSole DEF CreateTaxonomyEntry, Codes
<1>3. CASE DeleteTaxonomyEntry(r)
  <2>1. call[r].id \in Ids
    BY <1>1, <1>3, LibraryCallShape DEF DeleteTaxonomyEntry, Of
  <2> QED
    BY <1>1, <1>3, <2>1, WaysAreMild DEF DeleteTaxonomyEntry, Telling, Texts
<1>4. CASE ImportTag(r)
  BY <1>4 DEF ImportTag, Mild, Idle
<1>5. CASE ImportDeadlock(r)
  BY <1>5, RefuseIsIdle DEF ImportDeadlock, Codes, Mild
<1>7. CASE GiveUp(r)
  BY <1>7 DEF GiveUp, Mild, Idle, IInv, TypeOK
<1>6. CASE ImportEnd(r) /\ ~GiveUp(r)
  <2> DEFINE new == [x \in {<<r, k>> : k \in Kept(r)} |-> Entry(r, x[2])]
  <2>1. Committed(r) /\ db' = With(new)
    BY <1>1, <1>6, CommitIsCommitted DEF ImportEnd
  <2>2. r \in Imports
    BY <1>1, <1>6 DEF Imports, ImportEnd, Of
  <2>3. \A x \in DOMAIN new : /\ x \in {r} \X (1..MaxRows) /\ new[x].table # "mfa"
                              /\ new[x].at = began[r]
    <3>1. \A k \in Kept(r) : k \in 1..MaxRows
      BY <2>2, ImportFacts DEF Kept
    <3>2. \A k : Entry(r, k).table = "taxonomy" /\ Entry(r, k).at = began[r]
      BY DEF Entry, Sole
    <3> QED
      BY <3>1, <3>2
  <2>4. \A x \in Ids : db'[x] = IF x \in DOMAIN new THEN new[x] ELSE db[x]
    BY <2>1 DEF With
  <2> HIDE DEF new
  <2>5. \A x \in DOMAIN new : db[x] = Null
    BY <1>1, <2>3, FreshIds
  <2>6. Dates(r)
    BY <2>3, <2>4, <2>5 DEF Dates, Dated
  <2>7. Leaves(r)
    BY <2>3, <2>4, <2>5, <2>6 DEF Leaves, SameAuthor, SameWords
  <2> QED
    BY <2>1, <2>7 DEF Mild
<1> QED
  BY <1>2, <1>3, <1>4, <1>5, <1>6, <1>7

LEMMA PagesAreMild ==
  ASSUME IInv, NEW r \in Requests,
         \/ UpsertCatalogEntry(r) \/ AddCaseTtp(r) \/ PatchCaseTtp(r) \/ RemoveCaseTtp(r)
         \/ CreateCasePage(r) \/ PatchCasePage(r) \/ DeleteCasePage(r)
  PROVE  Mild(r)
<1>1. pc[r] = "write" /\ call[r] \in Calls
  BY WriterCalls DEF IInv, UpsertCatalogEntry, AddCaseTtp, PatchCaseTtp, RemoveCaseTtp,
    CreateCasePage, PatchCasePage, DeleteCasePage
<1>2. \A code \in Codes : Refuse(r, code) => Mild(r)
  BY RefuseIsIdle DEF Mild
<1>3. "technique" \notin Telling /\ "case_ttp" \notin Telling /\ "case_page" \notin Telling
  BY DEF Telling, Texts
<1>4. CASE UpsertCatalogEntry(r)
  <2>1. CASE InsertOne(r, Sole(r, "technique", Null, Null, call[r].name, r, Null), "500")
    BY <1>1, <2>1, InsertSole DEF Codes
  <2>2. CASE \E x \in Technique(r, call[r].name) : Update(r, x, [state |-> r])
    <3>1. PICK x \in Technique(r, call[r].name) : Update(r, x, [state |-> r])
      BY <2>2
    <3>2. x \in Ids /\ Sees(r, x, "technique")
      BY DEF Technique
    <3> QED
      BY <1>1, <1>3, <3>1, <3>2, UpdateOther
  <2> QED
    BY <1>4, <2>1, <2>2 DEF UpsertCatalogEntry
<1>5. CASE AddCaseTtp(r) \/ CreateCasePage(r)
  BY <1>1, <1>2, <1>3, <1>5, WaysAreMild DEF AddCaseTtp, CreateCasePage, Codes
<1>6. CASE PatchCaseTtp(r) \/ RemoveCaseTtp(r)
  <2>1. call[r].id \in Ids
    BY <1>1, <1>6, CaseCallShape DEF PatchCaseTtp, RemoveCaseTtp, Of
  <2> QED
    BY <1>1, <1>3, <1>6, <2>1, WaysAreMild DEF PatchCaseTtp, RemoveCaseTtp
<1>7. CASE PatchCasePage(r) \/ DeleteCasePage(r)
  <2>1. call[r].id \in Ids
    BY <1>1, <1>7, CaseCallShape DEF PatchCasePage, DeleteCasePage, Of
  <2> QED
    BY <1>1, <1>3, <1>7, <2>1, WaysAreMild DEF PatchCasePage, DeleteCasePage
<1> QED
  BY <1>4, <1>5, <1>6, <1>7

LEMMA CommentsAreMild ==
  ASSUME IInv, NEW r \in Requests, CreateComment(r) \/ MarkMentionsSeen(r)
  PROVE  Mild(r)
<1>1. pc[r] = "write" /\ call[r] \in Calls
  BY WriterCalls DEF IInv, CreateComment, MarkMentionsSeen
<1>2. CASE CreateComment(r)
  <2> DEFINE o == call[r].org
             comment == Sole(r, "comment", o, call[r].under, r, "said", call[r].user)
             S(n) == {<<r, k>> : k \in 1..n}
             new(n, who) == [x \in S(n) |->
               IF x = <<r, 1>> THEN comment
               ELSE Sole(r, "audit", o, who[x[2]], Null, "mentioned", call[r].user)]
  <2>1. CASE Refuse(r, "404")
    BY <2>1, RefuseIsIdle DEF Codes, Mild
  <2>2. ASSUME NEW n \in 1..MaxRows, NEW who \in [2..n -> Mentioned(r)],
               Insert(r, new(n, who), "500")
        PROVE  Mild(r)
    <3>1. \A k \in 1..n : k \in 1..MaxRows
      BY IdsAssumption
    <3>2. S(n) \subseteq {r} \X (1..MaxRows)
      BY <3>1
    <3>3. \A x \in S(n) : new(n, who)[x].table # "mfa" /\ new(n, who)[x].at = began[r]
      BY DEF Sole
    <3>4. \A x \in DOMAIN new(n, who) : Tame(r, new(n, who), x)
      BY <3>2, <3>3 DEF Tame
    <3> HIDE DEF new
    <3> QED
      BY <1>1, <2>2, <3>4, InsertIsMild DEF Codes
  <2>3. IF ~SeesCase(r) THEN Refuse(r, "404")
        ELSE \E n \in 1..MaxRows : \E who \in [2..n -> Mentioned(r)] :
               /\ \A j, k \in 2..n : who[j] = who[k] => j = k
               /\ \A u \in Mentioned(r) : \E k \in 2..n : who[k] = u
               /\ Insert(r, new(n, who), "500")
    BY <1>2 DEF CreateComment
  <2> HIDE DEF new
  <2> QED
    BY <2>1, <2>2, <2>3
<1>3. CASE MarkMentionsSeen(r)
  <2>1. call[r].user \in Callers /\ call[r].user \in Ids /\ Looks(r, call[r].user)
    BY <1>1, <1>3, CaseCallShape, OrgIds DEF MarkMentionsSeen, Of, Looks
  <2>0. began[r] \in Nat /\ clock \in Nat
    BY DEF IInv, TypeOK
  <2>2. ASSUME NEW now \in began[r]..clock, Update(r, call[r].user, [at |-> now]) PROVE Mild(r)
    <3> DEFINE columns == [at |-> now]
    <3>1. DOMAIN columns \cap {"name", "state"} = {} /\ columns["at"] \in 0..clock
      BY <2>0, <2>2
    <3> HIDE DEF columns
    <3>2. Update(r, call[r].user, columns)
      BY <2>2 DEF columns
    <3> QED
      BY <1>1, <2>1, <3>1, <3>2, UpdateIsMild DEF Aside, Timely
  <2> QED
    BY <1>3, <2>2 DEF MarkMentionsSeen
<1> QED
  BY <1>2, <1>3

LEMMA ItemsAreMild ==
  ASSUME IInv, NEW r \in Requests,
         \/ PatchCase(r) \/ BulkPatchCases(r) \/ DeleteCase(r)
         \/ PatchObservable(r) \/ DeleteObservable(r) \/ BulkPatchObservables(r)
  PROVE  Mild(r)
<1>1. pc[r] = "write" /\ call[r] \in Calls
  BY WriterCalls DEF IInv, PatchCase, BulkPatchCases, DeleteCase, PatchObservable,
    DeleteObservable, BulkPatchObservables
<1>2. \A code \in Codes : Refuse(r, code) => Mild(r)
  BY RefuseIsIdle DEF Mild
<1>3. "case" \notin Telling /\ "observable" \notin Telling
  BY DEF Telling, Texts
<1>4. ASSUME NEW x \in Ids, NEW table \in {"case", "observable"}, Sees(r, x, table),
             NEW columns, "at" \notin DOMAIN columns
      PROVE  /\ db[x] # Null /\ SameAuthor(db[x], Updated(r, x, columns))
             /\ db[x].table # "audit" /\ Dated(r, x, Updated(r, x, columns))
             /\ db[x].table \in Telling => SameWords(db[x], Updated(r, x, columns))
  <2>1. db[x] # Null
    BY <1>1, <1>4, SeenStays DEF Lasting
  <2>2. Aside(r, x, columns)
    <3>1. table \notin Telling /\ table # "audit"
      BY <1>3
    <3> QED
      BY <1>4, <3>1 DEF Aside, Timely
  <2> QED
    BY <1>1, <2>1, <2>2, UpdatedIsTame
<1>5. ASSUME NEW S, S \subseteq Ids, \A x \in S : Sees(r, x, "case"),
             NEW columns, "at" \notin DOMAIN columns, ChangeCases(r, S, columns)
      PROVE  Mild(r)
  <2> DEFINE new(n, about) == [x \in S \cup {<<r, k>> : k \in 1..n} |->
               IF x \in S THEN Updated(r, x, columns)
               ELSE Sole(r, "audit", call[r].org, about[x[2]], Null, "", call[r].user)]
  <2>0. PICK n \in 0..MaxRows : \E about \in [1..n -> S] :
               /\ \A j, k \in 1..n : about[j] = about[k] => j = k
               /\ \A c \in S : \E k \in 1..n : about[k] = c
               /\ Insert(r, new(n, about), "500")
    BY <1>5 DEF ChangeCases
  <2>1. PICK about : Insert(r, new(n, about), "500")
    BY <2>0
  <2>2. \A k \in 1..n : k \in 1..MaxRows
    BY IdsAssumption
  <2>3. ASSUME NEW x \in DOMAIN new(n, about) PROVE Tame(r, new(n, about), x)
    <3>1. CASE x \in S
      <4>1. x \in Ids /\ Sees(r, x, "case")
        BY <1>5, <3>1
      <4> QED
        BY <1>4, <1>5, <3>1, <4>1 DEF Tame
    <3>2. CASE x \notin S
      <4>1. x \in {r} \X (1..MaxRows)
        BY <2>2, <2>3, <3>2
      <4>2. new(n, about)[x].table = "audit" /\ new(n, about)[x].at = began[r]
        BY <2>3, <3>2 DEF Sole
      <4> QED
        BY <4>1, <4>2 DEF Tame
    <3> QED
      BY <3>1, <3>2
  <2> HIDE DEF new
  <2> QED
    BY <1>1, <2>1, <2>3, InsertIsMild DEF Codes
<1>6. ASSUME NEW columns, "at" \notin DOMAIN columns, call[r].id \in Ids, ChangeCase(r, columns)
      PROVE  Mild(r)
  <2>1. CASE Refuse(r, "404")
    BY <1>2, <2>1 DEF Codes
  <2>2. CASE Sees(r, call[r].id, "case") /\ ChangeCases(r, {call[r].id}, columns)
    BY <1>5, <1>6, <2>2
  <2> QED
    BY <1>6, <2>1, <2>2 DEF ChangeCase, SeesLive, SeesOwn
<1>7. ASSUME NEW columns, "at" \notin DOMAIN columns, call[r].id \in Ids,
             ChangeObservable(r, columns)
      PROVE  Mild(r)
  <2>1. CASE Refuse(r, "404")
    BY <1>2, <2>1 DEF Codes
  <2>2. CASE Sees(r, call[r].id, "observable") /\ Update(r, call[r].id, columns)
    BY <1>1, <1>3, <1>7, <2>2, UpdateOther
  <2> QED
    BY <1>7, <2>1, <2>2 DEF ChangeObservable, SeesLive, SeesOwn
<1>8. CASE PatchCase(r) \/ DeleteCase(r)
  <2>1. call[r].id \in Ids
    BY <1>1, <1>8, CaseCallShape DEF PatchCase, DeleteCase, Of
  <2> QED
    BY <1>6, <1>8, <2>1 DEF PatchCase, DeleteCase
<1>9. CASE BulkPatchCases(r)
  <2> DEFINE S == {c \in call[r].ids : SeesLive(r, c, "case")}
  <2>1. call[r].ids \subseteq Ids
    BY <1>1, <1>9, CaseCallShape DEF BulkPatchCases, Of
  <2>2. S \subseteq Ids /\ \A x \in S : Sees(r, x, "case")
    BY <2>1 DEF SeesLive, SeesOwn
  <2>3. ChangeCases(r, S, [state |-> call[r].state])
    BY <1>9 DEF BulkPatchCases
  <2> HIDE DEF S
  <2> QED
    BY <1>5, <2>2, <2>3
<1>10. CASE PatchObservable(r) \/ DeleteObservable(r)
  <2>1. call[r].id \in Ids
    BY <1>1, <1>10, CaseCallShape DEF PatchObservable, DeleteObservable, Of
  <2> QED
    BY <1>7, <1>10, <2>1 DEF PatchObservable, DeleteObservable
<1>11. CASE BulkPatchObservables(r)
  <2> DEFINE S == {y \in call[r].ids : SeesLive(r, y, "observable")}
             new == [x \in S |-> Updated(r, x, [state |-> r])]
  <2>1. call[r].ids \subseteq Ids
    BY <1>1, <1>11, CaseCallShape DEF BulkPatchObservables, Of
  <2>2. \A x \in S : x \in Ids /\ Sees(r, x, "observable")
    BY <2>1 DEF SeesLive, SeesOwn
  <2>3. \A x \in DOMAIN new : Tame(r, new, x)
    BY <1>4, <2>2 DEF Tame
  <2>4. Insert(r, new, "500")
    BY <1>11 DEF BulkPatchObservables
  <2> HIDE DEF new
  <2> QED
    BY <1>1, <2>3, <2>4, InsertIsMild DEF Codes
<1> QED
  BY <1>8, <1>9, <1>10, <1>11
-----------------------------------------------------------------------------
(* What a commit does to accounts, seeds and texts.                        *)
LockOps == {"lock", "erase"}
IsSeed(row) == row # Null /\ row.table = "mfa"
UserEffects(r) ==
  /\ \A x \in Ids : db[x] # Null /\ db[x].table = "user" /\ db'[x].state # db[x].state =>
       \/ db'[x].state = "locked"
       \/ call[r].id = x /\ (call[r].op = "unlock" \/ (call[r].op = "accept" /\ MayAccept(r, x)))
  /\ call[r].op \in LockOps =>
       LET u == call[r].id
       IN  /\ u \in Ids /\ Sees(r, u, "user")
           /\ db'[u].state = "locked" \/ (seen[r][u].state = "locked" /\ db'[u].state = db[u].state)
Draws(r, m) ==
  /\ call[r].op = "enroll"
  /\ db'[m].name = r \/ (IsSeed(seen[r][m]) /\ seen[r][m].name = r)
  /\ \/ db'[m].state = "enrolling"
     \/ IsSeed(seen[r][m]) /\ seen[r][m].state = "enrolling" /\ db'[m].state = db[m].state
Confirms(r, m) ==
  LET u == call[r].user
  IN  /\ call[r].op = "confirm" /\ db[m] # Null /\ db'[m].name = db[m].name
      /\ m \in SecretOf(r, u) /\ \E k \in SecretOf(r, u) : seen[r][k].name = call[r].proves
SeedEffects(r) ==
  \A m \in Ids : IsSeed(db'[m]) =>
    \/ db[m] # Null /\ SameWords(db[m], db'[m])
    \/ Draws(r, m) \/ Confirms(r, m)
TextEffects(r) ==
  /\ \A x \in Ids : db[x] # Null /\ db'[x] # Null /\ db[x].table \in Texts
       /\ db'[x].state # db[x].state =>
         db'[x].state = "erased" \/ (call[r].op = "editComment" /\ call[r].id = x)
  /\ call[r].op = "erase" => \A x \in Authored(db', call[r].id) : db'[x].state = "erased"
Effects(r) ==
  /\ \A x \in Ids : db[x] # Null /\ db'[x] # Null => SameAuthor(db[x], db'[x])
  /\ UserEffects(r) /\ SeedEffects(r) /\ TextEffects(r) /\ Dates(r)
Tells(r) == Idle(r) \/ (Committed(r) /\ Effects(r))

LEMMA MildTells ==
  ASSUME IInv, NEW r \in Requests, Mild(r), RowsStay, call[r].op \notin LockOps
  PROVE  Tells(r)
<1>1. CASE Committed(r) /\ Leaves(r)
  <2>1. \A x \in Ids : db[x] # Null /\ db'[x] # Null =>
          SameAuthor(db[x], db'[x]) /\ (db[x].table \in Telling => SameWords(db[x], db'[x]))
    BY <1>1 DEF Leaves
  <2>2. \A x \in Ids : db[x] # Null /\ db[x].table = "user" => db'[x] # Null
    BY DEF RowsStay, Lasting
  <2>3. UserEffects(r)
    BY <2>1, <2>2 DEF UserEffects, Telling, SameWords
  <2>4. SeedEffects(r)
    BY <1>1, <2>1 DEF Leaves, SeedEffects, IsSeed, RowsStay, Follows, SamePlace, Telling
  <2>5. TextEffects(r)
    BY <2>1 DEF TextEffects, LockOps, Telling, SameWords
  <2> QED
    BY <1>1, <2>1, <2>3, <2>4, <2>5 DEF Tells, Effects, Leaves
<1> QED
  BY <1>1 DEF Mild, Tells

(* An UPDATE that is not refused.                                          *)
LEMMA UpdateIsCommitted ==
  ASSUME IInv, NEW r \in Requests, pc[r] = "write", NEW x \in Ids, NEW columns, Update(r, x, columns)
  PROVE  \/ Idle(r)
         \/ /\ Committed(r)
            /\ \A y \in Ids : db'[y] = IF y = x /\ db[x] # Null THEN Updated(r, x, columns) ELSE db[y]
<1> DEFINE new == [y \in {z \in {x} : db[z] # Null} |-> Updated(r, y, columns)]
<1>1. CASE Refuse(r, "500")
  BY <1>1, RefuseIsIdle DEF Codes
<1>2. CASE Insert(r, new, "500")
  <2>1. CASE Refuse(r, "500")
    BY <2>1, RefuseIsIdle DEF Codes
  <2>2. CASE Commit(r, With(new))
    <3>1. Committed(r) /\ db' = With(new)
      BY <2>2, CommitIsCommitted
    <3> QED
      BY <3>1 DEF With
  <2> QED
    BY <1>2, <2>1, <2>2 DEF Insert
<1> QED
  BY <1>1, <1>2 DEF Update
LEMMA UpdateDates ==
  ASSUME IInv, NEW r \in Requests, pc[r] = "write", NEW x \in Ids, NEW columns, Timely(r, x, columns),
         \A y \in Ids : db'[y] = IF y = x /\ db[x] # Null THEN Updated(r, x, columns) ELSE db[y]
  PROVE  Dates(r)
<1>1. db[x] # Null => Dated(r, x, Updated(r, x, columns)) /\ db[x].table # "audit"
  BY UpdatedIsDated
<1> SUFFICES ASSUME NEW y \in Ids
             PROVE  /\ db'[y] # Null => Dated(r, y, db'[y])
                    /\ db[y] # Null /\ db[y].table = "audit" => db'[y] # Null
  BY DEF Dates
<1>2. CASE y = x /\ db[x] # Null
  BY <1>1, <1>2
<1>3. CASE ~(y = x /\ db[x] # Null)
  <2>1. db'[y] = db[y]
    BY <1>3
  <2> QED
    BY <2>1 DEF Dated
<1> QED
  BY <1>2, <1>3

LEMMA StatesTell ==
  ASSUME IInv, NEW r \in Requests, LockUser(r) \/ UnlockUser(r) \/ AcceptInvite(r), RowsStay
  PROVE  Tells(r)
<1> DEFINE u == call[r].id
           Columns(state) == [state |-> state]
<1>1. pc[r] = "write" /\ call[r] \in Calls /\ call[r].op \in {"lock", "unlock", "accept"}
  BY WriterCalls DEF IInv, LockUser, UnlockUser, AcceptInvite
<1>2. u \in Ids
  BY <1>1, AccountCallShape
<1>3. ASSUME NEW code \in Codes, Refuse(r, code) PROVE Tells(r)
  BY <1>3, RefuseIsIdle DEF Tells
<1>4. ASSUME NEW state, Update(r, u, Columns(state)), Sees(r, u, "user"),
             \/ state = "locked" /\ call[r].op = "lock"
             \/ state = "active" /\ call[r].op = "unlock"
             \/ state = "active" /\ call[r].op = "accept" /\ MayAccept(r, u)
      PROVE  Tells(r)
  <2> DEFINE columns == Columns(state)
             row == Updated(r, u, columns)
  <2>1. db[u] # Null /\ db[u].table = "user"
    BY <1>1, <1>2, <1>4, SeenStays DEF Lasting
  <2>2. CASE Idle(r)
    BY <2>2 DEF Tells
  <2>3. CASE Committed(r) /\ \A y \in Ids : db'[y] = IF y = u THEN row ELSE db[y]
    <3>1. /\ row.table = db[u].table /\ row.by = db[u].by /\ row.name = db[u].name
          /\ row.state = Column(r, u, columns, "state")
      BY <1>2, <2>1, UpdatedColumns
    <3>2. row.state = "locked" \/ call[r].op # "lock" \/ (seen[r][u].state = "locked" /\ row.state = db[u].state)
      BY <1>4, <3>1 DEF Column, Sent
    <3>7. Timely(r, u, columns)
      BY <1>4 DEF Timely
    <3> HIDE DEF row, columns
    <3>8. Dates(r)
      BY <1>1, <1>2, <2>1, <2>3, <3>7, UpdateDates DEF row
    <3>3. UserEffects(r)
      BY <1>1, <1>2, <1>4, <2>1, <2>3, <3>2 DEF UserEffects, LockOps
    <3>4. SeedEffects(r)
      BY <2>1, <2>3, <3>1 DEF SeedEffects, IsSeed, SameWords
    <3>5. TextEffects(r)
      BY <1>1, <2>1, <2>3 DEF TextEffects, Texts
    <3>6. \A x \in Ids : db[x] # Null /\ db'[x] # Null => SameAuthor(db[x], db'[x])
      BY <2>3, <3>1 DEF SameAuthor
    <3> QED
      BY <2>3, <3>3, <3>4, <3>5, <3>6, <3>8 DEF Tells, Effects
  <2> QED
    BY <1>1, <1>2, <1>4, <2>1, <2>2, <2>3, UpdateIsCommitted
<1>5. CASE LockUser(r)
  <2>1. CASE Sees(r, u, "user") /\ Update(r, u, [state |-> "locked"])
    BY <1>4, <1>5, <2>1 DEF LockUser, Of
  <2> QED
    BY <1>3, <1>5, <2>1 DEF LockUser, OnUser, Codes
<1>6. CASE UnlockUser(r)
  <2>1. CASE Sees(r, u, "user") /\ Update(r, u, [state |-> "active"])
    BY <1>4, <1>6, <2>1 DEF UnlockUser, Of
  <2> QED
    BY <1>3, <1>6, <2>1 DEF UnlockUser, OnUser, Codes
<1>7. CASE AcceptInvite(r)
  <2>1. CASE MayAccept(r, u) /\ Update(r, u, [state |-> "active"])
    <3>1. Sees(r, u, "user")
      BY <2>1 DEF MayAccept
    <3> QED
      BY <1>4, <1>7, <2>1, <3>1 DEF AcceptInvite, Of
  <2> QED
    BY <1>3, <1>7, <2>1 DEF AcceptInvite, Codes
<1> QED
  BY <1>5, <1>6, <1>7

LEMMA EditTells ==
  ASSUME IInv, NEW r \in Requests, PatchComment(r), RowsStay
  PROVE  Tells(r)
<1> DEFINE x == call[r].id
           columns == [state |-> r]
           row == Updated(r, x, columns)
<1>1. pc[r] = "write" /\ call[r] \in Calls /\ call[r].op = "editComment"
  BY WriterCalls DEF IInv, PatchComment
<1>2. x \in Ids
  BY <1>1, CaseCallShape
<1>3. CASE Refuse(r, "404") \/ Refuse(r, "403")
  BY <1>3, RefuseIsIdle DEF Tells, Codes
<1>4. CASE Sees(r, x, "comment") /\ Update(r, x, columns)
  <2>1. db[x] # Null => db[x].table = "comment"
    BY <1>1, <1>2, <1>4, SeenStays
  <2>2. CASE Idle(r)
    BY <2>2 DEF Tells
  <2>3. CASE Committed(r) /\ \A y \in Ids : db'[y] = IF y = x /\ db[x] # Null THEN row ELSE db[y]
    <3>1. db[x] # Null => row.table = db[x].table /\ row.by = db[x].by /\ row.name = db[x].name
      BY <1>2, UpdatedColumns
    <3>7. Timely(r, x, columns)
      BY <1>4 DEF Timely
    <3> HIDE DEF row, columns
    <3>8. Dates(r)
      BY <1>1, <1>2, <2>3, <3>7, UpdateDates DEF row
    <3>3. UserEffects(r)
      BY <1>1, <2>1, <2>3 DEF UserEffects, LockOps
    <3>4. SeedEffects(r)
      BY <2>1, <2>3, <3>1 DEF SeedEffects, IsSeed, SameWords
    <3>5. TextEffects(r)
      BY <1>1, <2>3 DEF TextEffects
    <3>6. \A y \in Ids : db[y] # Null /\ db'[y] # Null => SameAuthor(db[y], db'[y])
      BY <2>3, <3>1 DEF SameAuthor
    <3> QED
      BY <2>3, <3>3, <3>4, <3>5, <3>6, <3>8 DEF Tells, Effects
  <2> QED
    BY <1>1, <1>2, <1>4, <2>2, <2>3, UpdateIsCommitted
<1> QED
  BY <1>3, <1>4 DEF PatchComment, SeesOwn

LEMMA SeedsTell ==
  ASSUME IInv, NEW r \in Requests, MfaEnroll(r) \/ MfaConfirm(r), RowsStay
  PROVE  Tells(r)
<1> DEFINE u == call[r].user
<1>1. pc[r] = "write" /\ call[r] \in Calls /\ call[r].op \in {"enroll", "confirm"}
  BY WriterCalls DEF IInv, MfaEnroll, MfaConfirm
<1>2. ASSUME NEW code \in Codes, Refuse(r, code) PROVE Tells(r)
  BY <1>2, RefuseIsIdle DEF Tells
<1>3. \A m \in SecretOf(r, u) : m \in Ids /\ Sees(r, m, "mfa") /\ IsSeed(seen[r][m])
  BY DEF SecretOf, Sees, IsSeed
<1>4. ASSUME NEW m \in SecretOf(r, u), NEW columns, Committed(r),
             \A y \in Ids : db'[y] = IF y = m /\ db[m] # Null THEN Updated(r, m, columns) ELSE db[y],
             db[m] # Null => Draws(r, m) \/ Confirms(r, m)
      PROVE  Tells(r)
  <2> DEFINE row == Updated(r, m, columns)
  <2>1. db[m] # Null => db[m].table = "mfa"
    BY <1>1, <1>3, SeenStays
  <2>2. db[m] # Null => row.table = db[m].table /\ row.by = db[m].by
    BY <1>3, UpdatedColumns
  <2> HIDE DEF row
  <2>3. UserEffects(r)
    BY <1>1, <1>4, <2>1 DEF UserEffects, LockOps, row
  <2>4. SeedEffects(r)
    <3> SUFFICES ASSUME NEW k \in Ids, IsSeed(db'[k])
                 PROVE  \/ db[k] # Null /\ SameWords(db[k], db'[k])
                        \/ Draws(r, k) \/ Confirms(r, k)
      BY DEF SeedEffects
    <3>1. CASE k = m /\ db[m] # Null
      BY <1>4, <3>1
    <3>2. CASE ~(k = m /\ db[m] # Null)
      <4>1. db'[k] = db[k]
        BY <1>4, <3>2
      <4> QED
        BY <4>1 DEF IsSeed, SameWords
    <3> QED
      BY <3>1, <3>2
  <2>5. TextEffects(r)
    BY <1>1, <1>4, <2>1 DEF TextEffects, Texts, row
  <2>6. \A y \in Ids : db[y] # Null /\ db'[y] # Null => SameAuthor(db[y], db'[y])
    BY <1>4, <2>2 DEF SameAuthor, row
  <2>7. Timely(r, m, columns)
    BY <1>3 DEF Timely
  <2>8. Dates(r)
    BY <1>1, <1>3, <1>4, <2>7, UpdateDates
  <2> QED
    BY <1>4, <2>3, <2>4, <2>5, <2>6, <2>8 DEF Tells, Effects
<1>5. CASE MfaEnroll(r)
  <2> DEFINE columns == [name |-> r, state |-> "enrolling"]
             row == Sole(r, "mfa", Null, u, r, "enrolling", u)
             new == [x \in {<<r, 1>>} |-> row]
  <2>1. CASE InsertOne(r, row, "500")
    <3>1. CASE Commit(r, With(new))
      <4>1. Committed(r) /\ db' = With(new)
        BY <1>1, <3>1, CommitIsCommitted
      <4>2. \A y \in Ids : db'[y] = IF y = <<r, 1>> THEN row ELSE db[y]
        BY <4>1 DEF With
      <4>3. db[<<r, 1>>] = Null /\ <<r, 1>> \in Ids
        BY <1>1, NewIds DEF IInv, PlacesStay
      <4>4. row.name = r /\ row.state = "enrolling" /\ row.at = began[r] /\ row.table = "mfa"
        BY DEF Sole
      <4> HIDE DEF row, new
      <4>5. UserEffects(r)
        BY <1>1, <4>2, <4>3 DEF UserEffects, LockOps
      <4>6. SeedEffects(r)
        <5>1. Draws(r, <<r, 1>>)
          BY <1>5, <4>2, <4>3, <4>4 DEF Draws, MfaEnroll, Of
        <5> QED
          BY <4>2, <5>1 DEF SeedEffects, IsSeed, SameWords
      <4>7. TextEffects(r)
        BY <1>1, <4>2, <4>3 DEF TextEffects
      <4>8. \A y \in Ids : db[y] # Null /\ db'[y] # Null => SameAuthor(db[y], db'[y])
        BY <4>2, <4>3 DEF SameAuthor
      <4>9. Dates(r)
        BY <4>2, <4>3, <4>4 DEF Dates, Dated
      <4> QED
        BY <4>1, <4>5, <4>6, <4>7, <4>8, <4>9 DEF Tells, Effects
    <3>2. Commit(r, With(new)) \/ Refuse(r, "500")
      BY <2>1 DEF InsertOne, Insert
    <3> QED
      BY <1>2, <3>1, <3>2 DEF Codes
  <2>2. ASSUME NEW m \in SecretOf(r, u), Update(r, m, columns) PROVE Tells(r)
    <3>1. CASE Idle(r)
      BY <3>1 DEF Tells
    <3>2. CASE /\ Committed(r)
               /\ \A y \in Ids : db'[y] = IF y = m /\ db[m] # Null THEN Updated(r, m, columns) ELSE db[y]
      <4>1. ASSUME db[m] # Null PROVE Draws(r, m)
        <5>1. /\ db'[m].name = Column(r, m, columns, "name")
              /\ db'[m].state = Column(r, m, columns, "state")
          BY <1>3, <3>2, <4>1, UpdatedColumns
        <5>2. /\ Column(r, m, columns, "name") = r \/ seen[r][m].name = r
              /\ \/ Column(r, m, columns, "state") = "enrolling"
                 \/ seen[r][m].state = "enrolling" /\ Column(r, m, columns, "state") = db[m].state
          BY DEF Column, Sent
        <5> HIDE DEF columns
        <5> QED
          BY <1>3, <1>5, <5>1, <5>2 DEF Draws, MfaEnroll, Of
      <4> HIDE DEF columns
      <4> QED
        BY <1>4, <3>2, <4>1
    <3> HIDE DEF columns
    <3> QED
      BY <1>1, <1>3, <2>2, <3>1, <3>2, UpdateIsCommitted
  <2> QED
    BY <1>2, <1>5, <2>1, <2>2 DEF MfaEnroll, Codes
<1>6. CASE MfaConfirm(r)
  <2> DEFINE columns == [state |-> "confirmed", at |-> began[r]]
  <2>1. ASSUME NEW m \in SecretOf(r, u), Update(r, m, columns),
               NEW k \in SecretOf(r, u), seen[r][k].name = call[r].proves
        PROVE  Tells(r)
    <3>1. CASE Idle(r)
      BY <3>1 DEF Tells
    <3>2. CASE /\ Committed(r)
               /\ \A y \in Ids : db'[y] = IF y = m /\ db[m] # Null THEN Updated(r, m, columns) ELSE db[y]
      <4>1. ASSUME db[m] # Null PROVE Confirms(r, m)
        <5>1. db'[m].name = db[m].name
          BY <1>3, <3>2, <4>1, UpdatedColumns
        <5> QED
          BY <1>6, <2>1, <4>1, <5>1 DEF Confirms, MfaConfirm, Of
      <4> HIDE DEF columns
      <4> QED
        BY <1>4, <3>2, <4>1
    <3> HIDE DEF columns
    <3> QED
      BY <1>1, <1>3, <2>1, <3>1, <3>2, UpdateIsCommitted
  <2> QED
    BY <1>2, <1>6, <2>1 DEF MfaConfirm, Codes
<1> QED
  BY <1>5, <1>6
LEMMA EraseTells ==
  ASSUME IInv, NEW r \in Requests, EraseUser(r)
  PROVE  Tells(r)
<1> DEFINE u == call[r].id
           S == Authored(db, u)
           user == [name |-> u, state |-> "locked"]
           record == Sole(r, "audit", Null, u, Null, "gdpr_erased", call[r].user)
           erased(x) == [db[x] EXCEPT !.state = "erased", !.at = began[r]]
           new == [x \in {u, <<r, 1>>} \cup S |->
                    CASE x = u -> Updated(r, u, user) [] x \in S -> erased(x) [] OTHER -> record]
<1>1. pc[r] = "write" /\ call[r] \in Calls /\ call[r].op = "erase"
  BY WriterCalls DEF IInv, EraseUser
<1>2. u \in Ids
  BY <1>1, OrgCallShape
<1>3. ASSUME NEW code \in Codes, Refuse(r, code) PROVE Tells(r)
  BY <1>3, RefuseIsIdle DEF Tells
<1>4. CASE Sees(r, u, "user") /\ Commit(r, With(new))
  <2>1. Committed(r) /\ db' = With(new)
    BY <1>1, <1>4, CommitIsCommitted
  <2>2. db[u] # Null /\ db[u].table = "user"
    BY <1>1, <1>2, <1>4, SeenStays DEF Lasting
  <2>3. <<r, 1>> \in Ids /\ db[<<r, 1>>] = Null
    BY <1>1, NewIds DEF IInv, PlacesStay
  <2> HIDE DEF S
  <2>4. u \notin S /\ <<r, 1>> \notin S /\ u # <<r, 1>> /\ S \subseteq Ids
    BY <2>2, <2>3 DEF Authored, S
  <2>a. DOMAIN new = {u, <<r, 1>>} \cup S
    OBVIOUS
  <2>c. record.table = "audit" /\ record.at = began[r]
    BY DEF Sole
  <2>d. Timely(r, u, user)
    BY <1>4 DEF Timely
  <2> HIDE DEF user, record, erased
  <2>b. /\ u \notin S => new[u] = Updated(r, u, user)
        /\ u # <<r, 1>> /\ <<r, 1>> \notin S => new[<<r, 1>>] = record
        /\ u \notin S => \A x \in S : new[x] = erased(x)
    OBVIOUS
  <2> HIDE DEF new
  <2>5. \A x \in Ids : db'[x] = IF x \in {u, <<r, 1>>} \cup S THEN new[x] ELSE db[x]
    BY <2>1, <2>a DEF With
  <2>6. /\ db'[u] = Updated(r, u, user) /\ db'[<<r, 1>>] = record
        /\ \A x \in S : db'[x] = erased(x)
        /\ \A x \in Ids : x # u /\ x # <<r, 1>> /\ x \notin S => db'[x] = db[x]
    <3>1. /\ new[u] = Updated(r, u, user) /\ new[<<r, 1>>] = record
          /\ \A x \in S : new[x] = erased(x) /\ x \in Ids
      BY <2>4, <2>b
    <3> QED
      BY <1>2, <2>3, <2>5, <3>1
  <2>7. /\ db'[u].table = "user" /\ db'[u].by = db[u].by
        /\ db'[u].state = "locked" \/ (seen[r][u].state = "locked" /\ db'[u].state = db[u].state)
    <3>1. /\ db'[u].table = db[u].table /\ db'[u].by = db[u].by
          /\ db'[u].state = Column(r, u, user, "state")
      BY <1>2, <2>2, <2>6, UpdatedColumns
    <3> QED
      BY <2>2, <3>1 DEF Column, Sent, user
  <2>8. \A x \in S : /\ db[x] # Null /\ db[x].table \in Texts /\ db'[x].state = "erased"
                     /\ SameAuthor(db[x], db'[x]) /\ db'[x].table = db[x].table
    <3>1. \A x \in S : db[x] \in Row /\ db[x] # Null /\ db[x].table \in Texts
      BY DEF Authored, Texts, IInv, TypeOK, S
    <3> QED
      BY <2>6, <3>1 DEF Row, SameAuthor, erased
  <2>9. db'[<<r, 1>>].table = "audit"
    BY <2>6, <2>c
  <2>10. UserEffects(r)
    BY <1>1, <1>2, <1>4, <2>2, <2>3, <2>6, <2>7, <2>8 DEF UserEffects, Texts
  <2>11. SeedEffects(r)
    <3> SUFFICES ASSUME NEW m \in Ids, IsSeed(db'[m]) PROVE db[m] # Null /\ SameWords(db[m], db'[m])
      BY DEF SeedEffects
    <3>1. m # u /\ m # <<r, 1>> /\ m \notin S
      BY <2>7, <2>8, <2>9 DEF IsSeed, Texts
    <3> QED
      BY <2>6, <3>1 DEF IsSeed, SameWords
  <2>12. TextEffects(r)
    <3>1. \A x \in Authored(db', u) : db'[x].state = "erased"
      <4> SUFFICES ASSUME NEW x \in Authored(db', u) PROVE x \in S
        BY <2>8
      <4>1. x \in Ids /\ db'[x] # Null /\ db'[x].by = u /\ db'[x].table \in Texts
        BY DEF Authored, Texts
      <4>2. x # u /\ x # <<r, 1>>
        BY <2>7, <2>9, <4>1 DEF Texts
      <4>3. x \notin S => db'[x] = db[x]
        BY <2>6, <4>1, <4>2
      <4> QED
        BY <4>1, <4>3 DEF Authored, Texts, S
    <3>2. \A x \in Ids : db[x] # Null /\ db'[x] # Null /\ db[x].table \in Texts
            /\ db'[x].state # db[x].state => db'[x].state = "erased"
      BY <2>2, <2>3, <2>6, <2>8 DEF Texts
    <3> QED
      BY <3>1, <3>2 DEF TextEffects
  <2>13. \A x \in Ids : db[x] # Null /\ db'[x] # Null => SameAuthor(db[x], db'[x])
    BY <2>3, <2>6, <2>7, <2>8 DEF SameAuthor
  <2>14. Dates(r)
    <3>1. Dated(r, u, db'[u])
      BY <1>1, <1>2, <2>2, <2>6, <2>d, UpdatedIsDated
    <3>2. \A x \in S : Dated(r, x, db'[x]) /\ db[x].table # "audit"
      <4>1. \A x \in S : db'[x].at = began[r] /\ db[x].table \in Texts
        <5>1. \A x \in S : db[x] \in Row /\ db[x] # Null /\ db[x].table \in Texts
          BY DEF Authored, Texts, IInv, TypeOK, S
        <5> QED
          BY <2>6, <5>1 DEF Row, erased
      <4> QED
        BY <4>1 DEF Dated, Texts
    <3>3. Dated(r, <<r, 1>>, db'[<<r, 1>>])
      BY <2>3, <2>6, <2>c DEF Dated
    <3> QED
      BY <2>2, <2>3, <2>6, <3>1, <3>2, <3>3 DEF Dates, Dated
  <2> QED
    BY <2>1, <2>10, <2>11, <2>12, <2>13, <2>14 DEF Tells, Effects
<1>5. \/ Refuse(r, "404") \/ Refuse(r, "500")
      \/ Sees(r, u, "user") /\ Commit(r, With(new))
  BY DEF EraseUser, Insert
<1> HIDE DEF new
<1> QED
  BY <1>3, <1>4, <1>5 DEF Codes

(* What every handler does.                                                *)
LEMMA EveryHandlerTells ==
  ASSUME IInv, NEW r \in Requests, AccountStep(r) \/ LibraryStep(r), RowsStay
  PROVE  Tells(r)
<1>1. CASE \/ InviteUser(r) \/ PatchUser(r) \/ DeleteUser(r)
           \/ MfaDisable(r) \/ MfaRegenerate(r) \/ AdminResetMfa(r)
  <2>1. Mild(r)
    BY <1>1, UsersAreMild, SeedsThatGo
  <2>2. call[r].op \notin LockOps
    BY <1>1 DEF InviteUser, PatchUser, DeleteUser, MfaDisable, MfaRegenerate, AdminResetMfa, Of,
      LockOps
  <2> QED
    BY <2>1, <2>2, MildTells
<1>2. CASE \/ CreateProfile(r) \/ PatchProfile(r) \/ DeleteProfile(r)
           \/ PatchOrg(r) \/ CreateSharing(r) \/ DeleteSharing(r)
           \/ CreateMyKey(r) \/ RevokeMyKey(r) \/ AdminRevokeKey(r)
  <2>1. Mild(r)
    BY <1>2, RestOfAccountsIsMild
  <2>2. call[r].op \notin LockOps
    BY <1>2 DEF CreateProfile, PatchProfile, DeleteProfile, PatchOrg, CreateSharing, DeleteSharing,
      CreateMyKey, RevokeMyKey, AdminRevokeKey, Of, LockOps
  <2> QED
    BY <2>1, <2>2, MildTells
<1>3. CASE \/ CreateKbPage(r) \/ PatchKbPage(r) \/ CloneKbPage(r) \/ DeleteKbPage(r)
           \/ CreateTemplate(r) \/ PatchTemplate(r) \/ CloneCaseTemplate(r) \/ DeleteTemplate(r)
           \/ ApplyTemplate(r)
  <2>1. Mild(r)
    BY <1>3, KbIsMild, ApplyTemplateIsMild
  <2>2. call[r].op \notin LockOps
    BY <1>3 DEF CreateKbPage, PatchKbPage, CloneKbPage, DeleteKbPage, CreateTemplate, PatchTemplate,
      CloneCaseTemplate, DeleteTemplate, ApplyTemplate, Of, LockOps
  <2> QED
    BY <2>1, <2>2, MildTells
<1>4. CASE \/ CreateTaxonomyEntry(r) \/ DeleteTaxonomyEntry(r) \/ ImportTag(r)
           \/ ImportDeadlock(r) \/ ImportEnd(r)
  <2>1. Mild(r)
    BY <1>4, TaxonomyIsMild
  <2>2. call[r].op \notin LockOps
    BY <1>4 DEF CreateTaxonomyEntry, DeleteTaxonomyEntry, ImportTag, ImportDeadlock, ImportEnd, Of,
      LockOps
  <2> QED
    BY <2>1, <2>2, MildTells
<1>5. CASE \/ UpsertCatalogEntry(r) \/ AddCaseTtp(r) \/ PatchCaseTtp(r) \/ RemoveCaseTtp(r)
           \/ CreateCasePage(r) \/ PatchCasePage(r) \/ DeleteCasePage(r)
           \/ CreateComment(r) \/ MarkMentionsSeen(r)
  <2>1. Mild(r)
    BY <1>5, PagesAreMild, CommentsAreMild
  <2>2. call[r].op \notin LockOps
    BY <1>5 DEF UpsertCatalogEntry, AddCaseTtp, PatchCaseTtp, RemoveCaseTtp, CreateCasePage,
      PatchCasePage, DeleteCasePage, CreateComment, MarkMentionsSeen, Of, LockOps
  <2> QED
    BY <2>1, <2>2, MildTells
<1>6. CASE \/ PatchCase(r) \/ BulkPatchCases(r) \/ DeleteCase(r)
           \/ PatchObservable(r) \/ DeleteObservable(r) \/ BulkPatchObservables(r)
  <2>1. Mild(r)
    BY <1>6, ItemsAreMild
  <2>2. call[r].op \notin LockOps
    BY <1>6 DEF PatchCase, BulkPatchCases, DeleteCase, PatchObservable, DeleteObservable,
      BulkPatchObservables, Of, LockOps
  <2> QED
    BY <2>1, <2>2, MildTells
<1>7. CASE LockUser(r) \/ UnlockUser(r) \/ AcceptInvite(r)
  BY <1>7, StatesTell
<1>8. CASE MfaEnroll(r) \/ MfaConfirm(r)
  BY <1>8, SeedsTell
<1>9. CASE PatchComment(r)
  BY <1>9, EditTells
<1>10. CASE EraseUser(r)
  BY <1>10, EraseTells
<1> QED
  BY <1>1, <1>2, <1>3, <1>4, <1>5, <1>6, <1>7, <1>8, <1>9, <1>10 DEF AccountStep, LibraryStep
-----------------------------------------------------------------------------
(* What is kept in mind of the past, so that an overwritten state can be   *)
(* told from one that was changed by somebody who looked.                  *)
Past == \A r \in Requests : began[r] < clock /\ ended[r] < clock
Reopens(s, u) == Done(s) /\ call[s].op \in {"unlock", "accept"} /\ call[s].id = u
Reopened(u, t) == \E s \in Requests : Reopens(s, u) /\ ended[s] > t
Undone(r) ==
  \E s \in Requests : /\ Reopens(s, call[r].id) /\ ended[s] > began[r]
                      /\ call[s].op = "accept" => Overlap(r, s)
(* Who was locked is locked, and who is seen to be is, unless somebody     *)
(* reopened the account since.                                             *)
LockHolds(r) ==
  LET u == call[r].id
  IN  /\ Done(r) => /\ u \in Ids /\ db[u] # Null /\ db[u].table = "user"
                    /\ db[u].state = "locked" \/ Undone(r)
      /\ pc[r] = "write" /\ Sees(r, u, "user") /\ seen[r][u].state = "locked" =>
           db[u].state = "locked" \/ Reopened(u, began[r])
LocksHold == \A r \in Requests : call[r].op \in LockOps => LockHolds(r)
(* An invitation that can be accepted was read before the account was      *)
(* locked.                                                                 *)
AcceptsAreEarly ==
  \A s \in Requests : pc[s] = "write" /\ call[s].op = "accept" =>
    LET u == call[s].id
    IN  Sees(s, u, "user") /\ seen[s][u].state # "locked" =>
          \A r \in Requests : Done(r) /\ call[r].op \in LockOps /\ call[r].id = u =>
            began[s] < ended[r] \/ Undone(r)
(* A seed was drawn by a request that is done, is confirmed by one that    *)
(* proves it or was under way with the drawing, and is what a request read *)
(* unless another drew or confirmed it since.                              *)
Enrols(e) == e \in Requests /\ call[e].op = "enroll"
Drawn(rows) ==
  \A m \in Ids : IsSeed(rows[m]) /\ Enrols(rows[m].name) => Done(rows[m].name)
SeedsAreDrawn == Drawn(db) /\ \A s \in Requests : pc[s] = "write" => Drawn(seen[s])
Proved(e) ==
  \E s \in Requests : Done(s) /\ call[s].op = "confirm" /\ (call[s].proves = e \/ Overlap(s, e))
SeedsAreProved ==
  \A m \in Ids : IsSeed(db[m]) /\ db[m].state = "confirmed" /\ Enrols(db[m].name) =>
    Proved(db[m].name)
ConfirmedSince(t) == \E q \in Requests : Done(q) /\ call[q].op = "confirm" /\ ended[q] > t
SeedIsSeen(s, m) ==
  /\ db[m].name # seen[s][m].name => Enrols(db[m].name) /\ ended[db[m].name] > began[s]
  /\ db[m].state # seen[s][m].state /\ db[m].state = "confirmed" => ConfirmedSince(began[s])
SeedsAreSeen ==
  \A s \in Requests : pc[s] = "write" =>
    NoDuplicates(seen[s]) /\ \A m \in Ids : IsSeed(seen[s][m]) /\ db[m] # Null => SeedIsSeen(s, m)
(* What an erased user wrote is erased, but for what is newer.             *)
Rewritten(r, x) ==
  \/ x \notin First /\ ended[x[1]] > ended[r]
  \/ \E s \in Requests : /\ Done(s) /\ call[s].op = "editComment" /\ call[s].id = x
                         /\ ended[s] > ended[r]
ErasedStays ==
  \A r \in Requests : Done(r) /\ call[r].op = "erase" =>
    \A x \in Authored(db, call[r].id) : db[x].state = "erased" \/ Rewritten(r, x)
OverwriteIInv ==
  /\ Past /\ LocksHold /\ AcceptsAreEarly /\ SeedsAreDrawn /\ SeedsAreProved /\ SeedsAreSeen
  /\ ErasedStays

LEMMA OverwriteIInvImplies == OverwriteIInv => OverwritesNeedOverlap
<1> SUFFICES ASSUME OverwriteIInv PROVE OverwritesNeedOverlap
  OBVIOUS
<1>1. ASSUME NEW r \in Requests, Done(r), call[r].op \in {"lock", "erase"}
      PROVE  db[call[r].id].state = "locked" \/ Undone(r)
  BY <1>1 DEF OverwriteIInv, LocksHold, LockHolds, LockOps
<1>2. ASSUME NEW m \in Ids, db[m] # Null, db[m].table = "mfa", db[m].state = "confirmed",
             NEW e \in Requests, db[m].name = e, call[e].op = "enroll"
      PROVE  Proved(e)
  BY <1>2 DEF OverwriteIInv, SeedsAreProved, IsSeed, Enrols
<1>3. ASSUME NEW r \in Requests, Done(r), call[r].op = "erase", NEW x \in Authored(db, call[r].id)
      PROVE  db[x].state = "erased" \/ Rewritten(r, x)
  BY <1>3 DEF OverwriteIInv, ErasedStays
<1> QED
  BY <1>1, <1>2, <1>3 DEF OverwritesNeedOverlap, Undone, Reopens, Proved, Rewritten

LEMMA OverwriteInit == BackOfficeInit => OverwriteIInv
<1> SUFFICES ASSUME BackOfficeInit PROVE OverwriteIInv
  OBVIOUS
<1>1. IInv
  BY InitIInv
<1>2. \A r \in Requests : pc[r] # "write" /\ ~Done(r) /\ began[r] = 0 /\ ended[r] = 0
  BY DEF BackOfficeInit, Init, Done
<1>3. Past
  BY <1>2, IdsAssumption DEF BackOfficeInit, Init, Past
<1>4. \A m \in Ids : IsSeed(db[m]) => ~Enrols(db[m].name)
  <2>1. call \in Traffic /\ \A m \in Ids : db[m] # Null => m \in First /\ db[m] = FirstRow[m]
    BY DEF BackOfficeInit, Init
  <2> QED
    BY <2>1, SeedAssumption DEF IsSeed, Enrols
<1> QED
  BY <1>2, <1>3, <1>4 DEF OverwriteIInv, LocksHold, LockHolds, AcceptsAreEarly, SeedsAreDrawn, Drawn,
    SeedsAreProved, SeedsAreSeen, ErasedStays

-----------------------------------------------------------------------------
(* Steps that change no row: a request reads, answers, fails.              *)
Begins(q) == seen'[q] = db /\ began'[q] = clock
Passive ==
  /\ UNCHANGED <<db, call>>
  /\ \A q \in Requests : call[q].op \in Acting =>
       /\ pc'[q] = "200" <=> pc[q] = "200"
       /\ pc[q] = "200" => began'[q] = began[q]
  /\ \A q \in Requests : pc'[q] = "write" =>
       Begins(q) \/ (pc[q] = "write" /\ seen'[q] = seen[q] /\ began'[q] = began[q])

LEMMA PastStays ==
  ASSUME IInv, IInv', Past, OnTime
  PROVE  Past'
<1>1. \A q \in Requests : began[q] \in Nat /\ ended[q] \in Nat
  BY DEF IInv, TypeOK
<1>2. clock \in Nat /\ clock' \in Nat /\ clock' >= clock
  BY DEF IInv, TypeOK, OnTime
<1>3. \A q \in Requests : began'[q] < clock' /\ ended'[q] < clock'
  BY <1>1, <1>2 DEF Past, OnTime
<1> QED
  BY <1>3 DEF Past

LEMMA PassiveKeeps ==
  ASSUME IInv, IInv', OverwriteIInv, OnTime, Passive
  PROVE  OverwriteIInv'
<1> USE DEF OverwriteIInv
<1>1. /\ \A q \in Requests : call[q].op \in Acting => (Done(q)' <=> Done(q))
      /\ \A q \in Requests : call[q].op \in Acting /\ Done(q) => began'[q] = began[q]
      /\ \A q \in Requests : pc'[q] = "write" =>
           Begins(q) \/ (pc[q] = "write" /\ seen'[q] = seen[q] /\ began'[q] = began[q])
      /\ db' = db /\ call' = call
      /\ \A q \in Requests : Done(q) => ended'[q] = ended[q]
      /\ \A q \in Requests : \A t \in Nat : ended[q] > t => ended'[q] > t
  BY DEF Passive, Done, OnTime, Past, IInv, TypeOK
<1>2. /\ \A op \in LockOps : op \in Acting
      /\ {"unlock", "accept", "erase", "enroll", "confirm", "editComment"} \subseteq Acting
  BY DEF Acting, LockOps
<1>3. Past'
  BY PastStays
<1>4. /\ \A u : \A s \in Requests : Reopens(s, u)' <=> Reopens(s, u)
      /\ \A u, t : Reopened(u, t)' <=> Reopened(u, t)
      /\ \A r \in Requests : call[r].op \in LockOps /\ Done(r) /\ Undone(r) => Undone(r)'
  <2>1. \A u : \A s \in Requests : Reopens(s, u)' <=> Reopens(s, u)
    BY <1>1, <1>2 DEF Reopens
  <2>0. \A u : \A s \in Requests : Reopens(s, u) => ended'[s] = ended[s]
    BY <1>1 DEF Reopens
  <2>2. \A u, t : Reopened(u, t)' <=> Reopened(u, t)
    BY <2>0, <2>1 DEF Reopened
  <2>3. ASSUME NEW r \in Requests, call[r].op \in LockOps, Done(r), Undone(r) PROVE Undone(r)'
    <3>1. PICK s \in Requests : /\ Reopens(s, call[r].id) /\ ended[s] > began[r]
                                /\ call[s].op = "accept" => Overlap(r, s)
      BY <2>3 DEF Undone
    <3>2. began'[r] = began[r] /\ began'[s] = began[s]
      BY <1>1, <1>2, <2>3, <3>1 DEF Reopens
    <3>3. Reopens(s, call[r].id)' /\ ended'[s] = ended[s] /\ ended'[r] = ended[r]
      BY <1>1, <2>0, <2>1, <2>3, <3>1
    <3> QED
      BY <1>1, <3>1, <3>2, <3>3 DEF Undone, Overlap
  <2> QED
    BY <2>1, <2>2, <2>3
<1>5. LocksHold'
  <2> SUFFICES ASSUME NEW r \in Requests, call[r].op \in LockOps PROVE LockHolds(r)'
    BY <1>1 DEF LocksHold
  <2> DEFINE u == call[r].id
  <2>1. LockHolds(r)
    BY DEF LocksHold
  <2>2. Done(r)' => u \in Ids /\ db[u] # Null /\ db[u].table = "user"
                    /\ (db[u].state = "locked" \/ Undone(r)')
    BY <1>1, <1>2, <1>4, <2>1 DEF LockHolds
  <2>3. ASSUME pc'[r] = "write", Sees(r, u, "user")', seen'[r][u].state = "locked"
        PROVE  db[u].state = "locked" \/ \E s \in Requests : Reopens(s, u) /\ ended[s] > began'[r]
    <3>1. CASE Begins(r)
      BY <2>3, <3>1 DEF Begins
    <3>2. CASE pc[r] = "write" /\ seen'[r] = seen[r] /\ began'[r] = began[r]
      BY <1>1, <2>1, <2>3, <3>2 DEF LockHolds, Sees, Reopened
    <3> QED
      BY <1>1, <2>3, <3>1, <3>2
  <2>4. (\E s \in Requests : Reopens(s, u) /\ ended[s] > began'[r]) => Reopened(u, began[r])'
    BY <1>1, <1>4 DEF Reopened
  <2> QED
    BY <1>1, <2>2, <2>3, <2>4 DEF LockHolds
<1>6. AcceptsAreEarly'
  <2> SUFFICES ASSUME NEW s \in Requests, pc'[s] = "write", call[s].op = "accept",
                      Sees(s, call[s].id, "user")', seen'[s][call[s].id].state # "locked",
                      NEW r \in Requests, Done(r), call[r].op \in LockOps, call[r].id = call[s].id
               PROVE  began'[s] < ended[r] \/ Undone(r)
    BY <1>1, <1>2, <1>4 DEF AcceptsAreEarly
  <2>1. CASE Begins(s)
    BY <2>1 DEF Begins, LocksHold, LockHolds, Sees
  <2>2. CASE pc[s] = "write" /\ seen'[s] = seen[s] /\ began'[s] = began[s]
    BY <1>1, <2>2 DEF AcceptsAreEarly, Sees
  <2> QED
    BY <1>1, <2>1, <2>2
<1>7. SeedsAreDrawn'
  <2>1. ASSUME NEW rows, Drawn(rows)
        PROVE  \A m \in Ids : IsSeed(rows[m]) /\ Enrols(rows[m].name)' => Done(rows[m].name)'
    BY <1>1, <1>2, <2>1 DEF Drawn, Enrols
  <2>2. Drawn(db)'
    BY <1>1, <2>1 DEF Drawn, SeedsAreDrawn, Enrols
  <2>3. ASSUME NEW s \in Requests, pc'[s] = "write" PROVE Drawn(seen[s])'
    <3>1. seen'[s] = db \/ (pc[s] = "write" /\ seen'[s] = seen[s])
      BY <1>1, <2>3 DEF Begins
    <3>2. Drawn(seen'[s])
      BY <3>1 DEF SeedsAreDrawn
    <3> QED
      BY <1>1, <1>2, <3>2 DEF Drawn, Enrols
  <2> QED
    BY <2>2, <2>3 DEF SeedsAreDrawn
<1>8. SeedsAreProved'
  <2> SUFFICES ASSUME NEW m \in Ids, IsSeed(db[m]), db[m].state = "confirmed", Enrols(db[m].name)
               PROVE  Proved(db[m].name)'
    BY <1>1 DEF SeedsAreProved, Enrols
  <2> DEFINE e == db[m].name
  <2>1. e \in Requests /\ call[e].op = "enroll" /\ Done(e)
    BY DEF Enrols, SeedsAreDrawn, Drawn
  <2>2. PICK s \in Requests : Done(s) /\ call[s].op = "confirm" /\ (call[s].proves = e \/ Overlap(s, e))
    BY DEF SeedsAreProved, Proved
  <2>3. /\ began'[e] = began[e] /\ began'[s] = began[s] /\ Done(s)'
        /\ ended'[e] = ended[e] /\ ended'[s] = ended[s]
    BY <1>1, <1>2, <2>1, <2>2
  <2> QED
    BY <1>1, <2>2, <2>3 DEF Proved, Overlap
<1>9. SeedsAreSeen'
  <2> SUFFICES ASSUME NEW s \in Requests, pc'[s] = "write"
               PROVE  /\ NoDuplicates(seen[s])'
                      /\ \A m \in Ids : IsSeed(seen'[s][m]) /\ db[m] # Null => SeedIsSeen(s, m)'
    BY <1>1 DEF SeedsAreSeen
  <2>1. CASE Begins(s)
    BY <1>1, <2>1 DEF Begins, SeedIsSeen, IInv, Consistent, NoDuplicates, Unlike
  <2>2. CASE pc[s] = "write" /\ seen'[s] = seen[s] /\ began'[s] = began[s]
    <3>1. NoDuplicates(seen[s])'
      BY <2>2 DEF SeedsAreSeen, NoDuplicates, Unlike
    <3>2. ConfirmedSince(began[s]) => ConfirmedSince(began[s])'
      BY <1>1, <1>2, <2>2 DEF ConfirmedSince
    <3>3. ASSUME NEW m \in Ids, IsSeed(seen'[s][m]), db[m] # Null PROVE SeedIsSeen(s, m)'
      <4>1. SeedIsSeen(s, m)
        BY <2>2, <3>3 DEF SeedsAreSeen
      <4>2. began[s] \in Nat
        BY DEF IInv, TypeOK
      <4> QED
        BY <1>1, <2>2, <3>2, <4>1, <4>2 DEF SeedIsSeen, Enrols
    <3> QED
      BY <3>1, <3>3
  <2> QED
    BY <1>1, <2>1, <2>2
<1>10. ErasedStays'
  <2> SUFFICES ASSUME NEW r \in Requests, Done(r), call[r].op = "erase",
                      NEW x \in Authored(db, call[r].id)
               PROVE  db[x].state = "erased" \/ Rewritten(r, x)'
    BY <1>1, <1>2 DEF ErasedStays
  <2>1. db[x].state = "erased" \/ Rewritten(r, x)
    BY DEF ErasedStays
  <2>2. ended'[r] = ended[r] /\ ended[r] \in Nat
    BY <1>1 DEF IInv, TypeOK
  <2>3. x \in Ids
    BY DEF Authored
  <2>4. x \notin First => x[1] \in Requests
    BY <2>3 DEF Ids
  <2>5. CASE x \notin First /\ ended[x[1]] > ended[r]
    BY <1>1, <2>2, <2>4, <2>5 DEF Rewritten
  <2>6. CASE \E s \in Requests : /\ Done(s) /\ call[s].op = "editComment" /\ call[s].id = x
                                /\ ended[s] > ended[r]
    BY <1>1, <1>2, <2>2, <2>6 DEF Rewritten
  <2> QED
    BY <2>1, <2>5, <2>6 DEF Rewritten
<1> QED
  BY <1>3, <1>5, <1>6, <1>7, <1>8, <1>9, <1>10

LEMMA PassiveSteps ==
  ASSUME IInv, NEW r \in Requests,
         \/ Read(r)
         \/ Idle(r) /\ OnTime
         \/ OnlyAnswers(r)
  PROVE  Passive
<1>0. pc \in [Requests -> {"idle", "read", "next", "write", "200", "400", "401", "403", "404", "409", "500"}]
  BY DEF IInv, TypeOK
<1>1. CASE Read(r)
  BY <1>0, <1>1 DEF Read, Begin, Passive, Begins, IInv, TypeOK
<1>2. CASE Idle(r) /\ OnTime
  BY <1>0, <1>2 DEF Idle, OnTime, Passive
<1>3. CASE OnlyAnswers(r)
  BY <1>0, <1>3 DEF OnlyAnswers, Passive
<1> QED
  BY <1>1, <1>2, <1>3

-----------------------------------------------------------------------------
(* A commit.                                                               *)
Commits(r) ==
  /\ IInv /\ IInv' /\ OverwriteIInv /\ RowsStay /\ OnTime /\ Committed(r) /\ Effects(r)
LEMMA CommitFacts ==
  ASSUME NEW r \in Requests, Commits(r)
  PROVE  /\ call' = call /\ seen' = seen /\ began' = began
         /\ ~Done(r) /\ Done(r)' /\ pc[r] = "write" /\ ended'[r] = clock
         /\ \A q \in Requests : /\ Done(q) => q # r
                                /\ pc'[q] = "write" => q # r
                                /\ began[q] < clock /\ ended[q] < clock
         /\ \A q \in Requests \ {r} :
              (Done(q)' <=> Done(q)) /\ pc'[q] = pc[q] /\ ended'[q] = ended[q]
  BY DEF Commits, Committed, Done, OverwriteIInv, Past
LEMMA MemoryStays ==
  ASSUME NEW r \in Requests, Commits(r)
  PROVE  /\ \A u : \A q \in Requests : Reopens(q, u) => Reopens(q, u)'
         /\ \A q \in Requests : Done(q) /\ Undone(q) => Undone(q)'
         /\ \A u : \A q \in Requests : Reopened(u, began[q]) => Reopened(u, began[q])'
         /\ \A q \in Requests : ConfirmedSince(began[q]) => ConfirmedSince(began[q])'
         /\ \A e \in Requests : Done(e) /\ Proved(e) => Proved(e)'
         /\ \A x : \A q \in Requests : x[1] \in Requests /\ Done(q) /\ Rewritten(q, x) => Rewritten(q, x)'
<1> USE CommitFacts
<1>1. \A u : \A q \in Requests : Reopens(q, u) => Reopens(q, u)' /\ ended'[q] = ended[q]
  BY DEF Reopens
<1>2. ASSUME NEW q \in Requests, Done(q), Undone(q) PROVE Undone(q)'
  BY <1>1, <1>2 DEF Undone, Overlap
<1>3. ASSUME NEW q \in Requests, NEW u, Reopened(u, began[q]) PROVE Reopened(u, began[q])'
  BY <1>1, <1>3 DEF Reopened
<1>4. ASSUME NEW q \in Requests, ConfirmedSince(began[q]) PROVE ConfirmedSince(began[q])'
  BY <1>4 DEF ConfirmedSince
<1>5. ASSUME NEW e \in Requests, Done(e), Proved(e) PROVE Proved(e)'
  BY <1>5 DEF Proved, Overlap
<1>6. ASSUME NEW q \in Requests, NEW x, x[1] \in Requests, Done(q), Rewritten(q, x)
      PROVE  Rewritten(q, x)'
  BY <1>6 DEF Rewritten
<1> QED
  BY <1>1, <1>2, <1>3, <1>4, <1>5, <1>6

LEMMA LocksHoldOn ==
  ASSUME NEW r \in Requests, Commits(r)
  PROVE  LocksHold'
<1> USE CommitFacts DEF OverwriteIInv
<1>1. OverwriteIInv /\ IInv /\ RowsStay /\ UserEffects(r)
  BY DEF Commits, Effects
<1>2. \A u \in Ids : db[u] # Null /\ db[u].table = "user" => db'[u] # Null /\ db'[u].table = "user"
  BY <1>1 DEF RowsStay, Follows, SamePlace, Lasting
<1> SUFFICES ASSUME NEW q \in Requests, call[q].op \in LockOps PROVE LockHolds(q)'
  BY DEF LocksHold
<1> DEFINE u == call[q].id
<1>3. LockHolds(q)
  BY <1>1 DEF LocksHold
<1>4. pc[q] = "write" => u \in Ids
  <2>1. pc[q] = "write" => call[q] \in Calls
    BY <1>1 DEF IInv, TypeOK
  <2> QED
    BY <2>1, AccountCallShape, OrgCallShape DEF LockOps
(* The account is locked, and is not any more.                             *)
<1>5. ASSUME u \in Ids, db[u] # Null, db[u].table = "user", db[u].state = "locked", db'[u].state # "locked"
      PROVE  Reopens(r, u)' /\ (call[r].op = "accept" => MayAccept(r, u))
  BY <1>1, <1>5 DEF UserEffects, Reopens
<1>6. CASE q = r
  <2>1. u \in Ids /\ Sees(r, u, "user")
    BY <1>1, <1>6 DEF UserEffects
  <2>2. db[u] # Null /\ db[u].table = "user"
    BY <1>1, <2>1, SeenStays DEF Lasting
  <2>3. db'[u].state = "locked" \/ (seen[r][u].state = "locked" /\ db'[u].state = db[u].state)
    BY <1>1, <1>6 DEF UserEffects
  <2>4. db'[u].state = "locked" \/ Reopened(u, began[r])
    BY <1>3, <1>6, <2>1, <2>3 DEF LockHolds
  <2>5. Reopened(u, began[r]) => Undone(q)'
    <3> SUFFICES ASSUME NEW s \in Requests, Reopens(s, u), ended[s] > began[r]
                 PROVE  Undone(q)'
      BY DEF Reopened
    <3>1. Reopens(s, u)' /\ s # r /\ ended'[s] = ended[s]
      BY MemoryStays DEF Reopens
    <3>2. Overlap(q, s)'
      BY <1>6, <3>1 DEF Overlap
    <3> QED
      BY <1>6, <3>1, <3>2 DEF Undone
  <2> QED
    BY <1>2, <1>6, <2>1, <2>2, <2>4, <2>5 DEF LockHolds
<1>7. CASE q # r
  <2>1. ASSUME Done(q), db'[u].state # "locked" PROVE Undone(q)'
    <3>1. u \in Ids /\ db[u] # Null /\ db[u].table = "user" /\ (db[u].state = "locked" \/ Undone(q))
      BY <1>3, <2>1 DEF LockHolds
    <3>2. CASE Undone(q)
      BY <2>1, <3>2, MemoryStays
    <3>3. CASE db[u].state = "locked" /\ ~Undone(q)
      <4>1. Reopens(r, u)' /\ (call[r].op = "accept" => MayAccept(r, u))
        BY <1>5, <2>1, <3>1, <3>3
      <4>2. call[r].op = "accept" => began[r] < ended[q]
        BY <1>1, <2>1, <3>3, <4>1 DEF AcceptsAreEarly, MayAccept, Reopens
      <4>3. call[r].op = "accept" => Overlap(q, r)'
        BY <1>7, <4>2 DEF Overlap
      <4> QED
        BY <1>7, <4>1, <4>3 DEF Undone
    <3> QED
      BY <3>1, <3>2, <3>3
  <2>2. ASSUME pc[q] = "write", Sees(q, u, "user"), seen[q][u].state = "locked", db'[u].state # "locked"
        PROVE  Reopened(u, began[q])'
    <3>1. u \in Ids /\ db[u] # Null /\ db[u].table = "user"
      BY <1>1, <1>4, <2>2, SeenStays DEF Lasting
    <3>2. CASE db[u].state = "locked"
      <4>1. Reopens(r, u)'
        BY <1>5, <2>2, <3>1, <3>2
      <4> QED
        BY <1>7, <4>1 DEF Reopened
    <3>3. CASE Reopened(u, began[q])
      BY <3>3, MemoryStays
    <3> QED
      BY <1>3, <2>2, <3>2, <3>3 DEF LockHolds
  <2>3. Done(q) => u \in Ids /\ db'[u] # Null /\ db'[u].table = "user"
    BY <1>2, <1>3 DEF LockHolds
  <2> QED
    BY <1>7, <2>1, <2>2, <2>3 DEF LockHolds, Sees
<1> QED
  BY <1>6, <1>7

LEMMA AcceptsStayEarly ==
  ASSUME NEW r \in Requests, Commits(r)
  PROVE  AcceptsAreEarly'
<1> USE CommitFacts
<1> SUFFICES ASSUME NEW s \in Requests, s # r, pc[s] = "write", call[s].op = "accept",
                    Sees(s, call[s].id, "user"), seen[s][call[s].id].state # "locked",
                    NEW q \in Requests, Done(q)', call[q].op \in LockOps, call[q].id = call[s].id
             PROVE  began[s] < ended'[q] \/ Undone(q)'
  BY DEF AcceptsAreEarly, Sees
<1>1. CASE q = r
  BY <1>1
<1>2. CASE q # r
  <2>1. began[s] < ended[q] \/ Undone(q)
    BY <1>2 DEF Commits, OverwriteIInv, AcceptsAreEarly
  <2> QED
    BY <1>2, <2>1, MemoryStays
<1> QED
  BY <1>1, <1>2

(* A row that a request has read is not inserted again.                    *)
LEMMA NotInsertedAgain ==
  ASSUME NEW r \in Requests, Commits(r),
         NEW s \in Requests, pc[s] = "write", NEW m \in Ids, seen[s][m] # Null, db'[m] # Null
  PROVE  db[m] # Null /\ Follows(seen[s][m], db[m]) /\ Follows(db[m], db'[m])
<1>1. IInv /\ RowsStay
  BY DEF Commits
<1>2. db[m] # Null
  <2> SUFFICES ASSUME db[m] = Null PROVE FALSE
    OBVIOUS
  <2>1. PICK q \in Requests, k \in 1..MaxRows : m = <<q, k>> /\ pc[q] # "200"
    BY <1>1 DEF RowsStay
  <2> QED
    BY <1>1, <2>1 DEF IInv, PlacesStay
<1> QED
  BY <1>1, <1>2 DEF RowsStay, IInv, PlacesStay

(* What is true of a seed that is drawn or confirmed.                      *)
LEMMA SeedChanges ==
  ASSUME NEW r \in Requests, Commits(r), NEW m \in Ids, IsSeed(db'[m])
  PROVE  \/ IsSeed(db[m]) /\ SameWords(db[m], db'[m])
         \/ /\ Enrols(r) /\ db'[m].name = r
            /\ db'[m].state = "confirmed" =>
                 /\ db[m] # Null /\ IsSeed(seen[r][m])
                 /\ db[m].state = "confirmed" /\ seen[r][m].state = "enrolling"
         \/ Confirms(r, m) /\ IsSeed(db[m])
<1> USE CommitFacts
<1>1. IInv /\ RowsStay /\ SeedEffects(r) /\ Drawn(seen[r])
  BY DEF Commits, Effects, OverwriteIInv, SeedsAreDrawn
<1>2. db[m] # Null => IsSeed(db[m])
  BY <1>1 DEF IsSeed, RowsStay, Follows, SamePlace
<1>3. ASSUME Draws(r, m)
      PROVE  /\ Enrols(r) /\ db'[m].name = r
             /\ db'[m].state = "confirmed" =>
                  /\ db[m] # Null /\ IsSeed(seen[r][m])
                  /\ db[m].state = "confirmed" /\ seen[r][m].state = "enrolling"
  <2>1. Enrols(r)
    BY <1>3 DEF Draws, Enrols
  <2>2. IsSeed(seen[r][m]) => seen[r][m].name # r
    BY <1>1, <2>1 DEF Drawn
  <2>3. db'[m].name = r
    BY <1>3, <2>2 DEF Draws
  <2>4. ASSUME db'[m].state = "confirmed"
        PROVE  IsSeed(seen[r][m]) /\ seen[r][m].state = "enrolling" /\ db[m].state = "confirmed"
    BY <1>3, <2>4 DEF Draws
  <2>5. IsSeed(seen[r][m]) => db[m] # Null
    BY NotInsertedAgain DEF IsSeed
  <2> QED
    BY <2>1, <2>3, <2>4, <2>5
<1>4. Confirms(r, m) => IsSeed(db[m])
  BY <1>2 DEF Confirms
<1> QED
  BY <1>1, <1>2, <1>3, <1>4 DEF SeedEffects

LEMMA SeedsStayDrawn ==
  ASSUME NEW r \in Requests, Commits(r)
  PROVE  SeedsAreDrawn'
<1> USE CommitFacts
<1>1. SeedsAreDrawn
  BY DEF Commits, OverwriteIInv
<1>2. \A e \in Requests : Done(e) => Done(e)'
  OBVIOUS
<1>3. ASSUME NEW m \in Ids, IsSeed(db'[m]), NEW e, e = db'[m].name, Enrols(e) PROVE Done(e)'
  <2>1. CASE IsSeed(db[m]) /\ db'[m].name = db[m].name
    BY <1>1, <1>2, <1>3, <2>1 DEF SeedsAreDrawn, Drawn, Enrols
  <2>2. CASE db'[m].name = r
    BY <1>3, <2>2
  <2> QED
    BY <1>3, <2>1, <2>2, SeedChanges DEF SameWords, Confirms
<1>4. ASSUME NEW s \in Requests, pc'[s] = "write",
             NEW m \in Ids, IsSeed(seen[s][m]), NEW e, e = seen[s][m].name, Enrols(e)
      PROVE  Done(e)'
  BY <1>1, <1>2, <1>4 DEF SeedsAreDrawn, Drawn, Enrols
<1> QED
  BY <1>3, <1>4 DEF SeedsAreDrawn, Drawn, Enrols, Done

LEMMA SeedsStayProved ==
  ASSUME NEW r \in Requests, Commits(r)
  PROVE  SeedsAreProved'
<1> USE CommitFacts
<1>1. SeedsAreProved /\ SeedsAreDrawn /\ SeedsAreSeen
  BY DEF Commits, OverwriteIInv
<1> SUFFICES ASSUME NEW m \in Ids, IsSeed(db'[m]), db'[m].state = "confirmed",
                    NEW e, e = db'[m].name, Enrols(e)
             PROVE  Proved(e)'
  BY DEF SeedsAreProved, Enrols, Proved, Overlap
<1>2. CASE IsSeed(db[m]) /\ SameWords(db[m], db'[m])
  <2>1. e \in Requests /\ Done(e) /\ Proved(e)
    BY <1>1, <1>2 DEF SameWords, SeedsAreProved, SeedsAreDrawn, Drawn, Enrols
  <2> QED
    BY <2>1, MemoryStays
<1>3. CASE /\ db'[m].name = r /\ db[m] # Null /\ IsSeed(seen[r][m])
           /\ db[m].state = "confirmed" /\ seen[r][m].state = "enrolling"
  <2>1. ConfirmedSince(began[r])
    BY <1>1, <1>3 DEF SeedsAreSeen, SeedIsSeen
  <2>2. PICK q \in Requests : Done(q) /\ call[q].op = "confirm" /\ ended[q] > began[r]
    BY <2>1 DEF ConfirmedSince
  <2>3. Overlap(q, r)'
    BY <2>2 DEF Overlap
  <2> QED
    BY <1>3, <2>2, <2>3 DEF Proved
<1>4. CASE Confirms(r, m) /\ IsSeed(db[m])
  <2> DEFINE u == call[r].user
  <2>1. PICK k \in SecretOf(r, u) : seen[r][k].name = call[r].proves
    BY <1>4 DEF Confirms
  <2>2. m \in SecretOf(r, u) /\ call[r].op = "confirm" /\ db'[m].name = db[m].name
    BY <1>4 DEF Confirms
  <2>3. k = m
    <3>1. NoDuplicates(seen[r])
      BY <1>1 DEF SeedsAreSeen
    <3>2. k \in Ids /\ m \in Ids /\ Sees(r, k, "mfa") /\ Sees(r, m, "mfa")
          /\ seen[r][k].under = u /\ seen[r][m].under = u
      BY <2>2 DEF SecretOf
    <3>3. UniqueOn["mfa"] = {"under"} /\ "mfa" \in DOMAIN UniqueOn
      BY DEF UniqueOn
    <3>4. SameKey(seen[r][m], seen[r][k])
      BY <3>2, <3>3 DEF SameKey, Sees
    <3> QED
      BY <3>1, <3>2, <3>3, <3>4 DEF NoDuplicates, Unlike, Sees
  <2>4. CASE db[m].name = seen[r][m].name
    BY <2>1, <2>2, <2>3, <2>4 DEF Proved
  <2>5. CASE db[m].name # seen[r][m].name
    <3>1. IsSeed(seen[r][m]) /\ db[m] # Null
      BY <1>4, <2>2 DEF SecretOf, Sees, IsSeed
    <3>2. SeedIsSeen(r, m)
      BY <1>1, <3>1 DEF SeedsAreSeen
    <3>3. db[m].name \in Requests /\ ended[db[m].name] > began[r] /\ call[db[m].name].op = "enroll"
      BY <2>5, <3>2 DEF SeedIsSeen, Enrols
    <3>4. Overlap(r, db[m].name)'
      BY <2>2, <3>3 DEF Overlap
    <3> QED
      BY <2>2, <3>3, <3>4 DEF Proved
  <2> QED
    BY <2>4, <2>5
<1> QED
  BY <1>2, <1>3, <1>4, SeedChanges

LEMMA SeedsStaySeen ==
  ASSUME NEW r \in Requests, Commits(r)
  PROVE  SeedsAreSeen'
<1> USE CommitFacts
<1>1. SeedsAreSeen
  BY DEF Commits, OverwriteIInv
<1> SUFFICES ASSUME NEW s \in Requests, s # r, pc[s] = "write"
             PROVE  /\ NoDuplicates(seen[s])'
                    /\ \A m \in Ids : IsSeed(seen[s][m]) /\ db'[m] # Null => SeedIsSeen(s, m)'
  BY DEF SeedsAreSeen
<1>2. NoDuplicates(seen[s])'
  BY <1>1 DEF SeedsAreSeen, NoDuplicates, Unlike
<1>3. ASSUME NEW m \in Ids, IsSeed(seen[s][m]), db'[m] # Null PROVE SeedIsSeen(s, m)'
  <2>1. db[m] # Null /\ IsSeed(db'[m])
    BY <1>3, NotInsertedAgain DEF IsSeed, Follows, SamePlace
  <2>2. SeedIsSeen(s, m)
    BY <1>1, <1>3, <2>1 DEF SeedsAreSeen
  <2>3. \A e \in Requests : ended[e] > began[s] => ended'[e] > began[s]
    <3>1. \A e \in Requests : e = r \/ ended'[e] = ended[e]
      OBVIOUS
    <3> QED
      BY <3>1
  <2>4. CASE SameWords(db[m], db'[m])
    BY <2>2, <2>3, <2>4, MemoryStays DEF SeedIsSeen, SameWords, Enrols
  <2>5. CASE /\ Enrols(r) /\ db'[m].name = r
             /\ db'[m].state = "confirmed" => db[m].state = "confirmed"
    BY <2>2, <2>5, MemoryStays DEF SeedIsSeen, Enrols
  <2>6. CASE Confirms(r, m)
    <3>1. db'[m].name = db[m].name /\ ConfirmedSince(began[s])'
      BY <2>6 DEF Confirms, ConfirmedSince
    <3> QED
      BY <2>2, <2>3, <3>1 DEF SeedIsSeen, Enrols
  <2> QED
    BY <2>1, <2>4, <2>5, <2>6, SeedChanges
<1> QED
  BY <1>2, <1>3

LEMMA ErasedStaysOn ==
  ASSUME NEW r \in Requests, Commits(r)
  PROVE  ErasedStays'
<1> USE CommitFacts
<1>1. IInv /\ IInv' /\ RowsStay /\ TextEffects(r) /\ ErasedStays
      /\ \A x \in Ids : db[x] # Null /\ db'[x] # Null => SameAuthor(db[x], db'[x])
  BY DEF Commits, Effects, OverwriteIInv
<1> SUFFICES ASSUME NEW q \in Requests, Done(q)', call[q].op = "erase",
                    NEW x \in Authored(db', call[q].id)
             PROVE  db'[x].state = "erased" \/ Rewritten(q, x)'
  BY DEF ErasedStays, Authored
<1>2. x \in Ids /\ db'[x] # Null /\ db'[x].by = call[q].id /\ db'[x].table \in Texts
  BY DEF Authored, Texts
<1>3. CASE q = r
  BY <1>1, <1>3 DEF TextEffects
<1>4. CASE q # r /\ db[x] = Null
  <2>1. PICK p \in Requests, k \in 1..MaxRows : x = <<p, k>> /\ pc[p] # "200"
    BY <1>1, <1>2, <1>4 DEF RowsStay
  <2>2. pc'[p] = "200"
    BY <1>1, <1>2, <2>1 DEF IInv, PlacesStay
  <2>3. p = r
    BY <2>1, <2>2
  <2>4. x[1] = r /\ x \notin First
    BY <2>1, <2>3, IdsAssumption
  <2> QED
    BY <1>4, <2>4 DEF Rewritten
<1>5. CASE q # r /\ db[x] # Null
  <2>1. x \in Authored(db, call[q].id) /\ db[x].table \in Texts
    BY <1>1, <1>2, <1>5 DEF Authored, Texts, SameAuthor, RowsStay, Follows, SamePlace
  <2>2. db[x].state = "erased" \/ Rewritten(q, x)
    BY <1>1, <1>5, <2>1 DEF ErasedStays
  <2>3. CASE db[x].state = "erased"
    <3>1. db'[x].state = "erased" \/ (call[r].op = "editComment" /\ call[r].id = x)
      BY <1>1, <1>2, <1>5, <2>1, <2>3 DEF TextEffects
    <3> QED
      BY <1>5, <3>1 DEF Rewritten
  <2>4. CASE Rewritten(q, x)
    <3>1. x \notin First => x[1] \in Requests
      BY <1>2 DEF Ids
    <3> QED
      BY <1>5, <2>4, <3>1 DEF Rewritten
  <2> QED
    BY <2>2, <2>3, <2>4
<1> QED
  BY <1>3, <1>4, <1>5

LEMMA CommitKeepsOverwrite ==
  ASSUME NEW r \in Requests, Commits(r)
  PROVE  OverwriteIInv'
<1>1. Past'
  BY PastStays DEF Commits, OverwriteIInv
<1> QED
  BY <1>1, LocksHoldOn, AcceptsStayEarly, SeedsStayDrawn, SeedsStayProved, SeedsStaySeen,
     ErasedStaysOn DEF OverwriteIInv

LEMMA OverwriteNext == IInv /\ OverwriteIInv /\ [Next]_vars => OverwriteIInv'
<1> SUFFICES ASSUME IInv, OverwriteIInv, [Next]_vars PROVE OverwriteIInv'
  OBVIOUS
<1>1. IInv' /\ RowsStay
  BY NextIInv
<1>2. CASE UNCHANGED tableVars
  <2>1. OnTime
    BY <1>2 DEF tableVars, OnTime, IInv, TypeOK
  <2>2. Passive
    BY <1>2 DEF tableVars, Passive
  <2> QED
    BY <1>1, <2>1, <2>2, PassiveKeeps
<1>3. ASSUME NEW r \in Requests, Read(r), UNCHANGED indexerVars PROVE OverwriteIInv'
  BY <1>1, <1>3, ReadKeeps, PassiveSteps, PassiveKeeps DEF Keeps, Quiet
<1>4. ASSUME NEW r \in Requests, AccountStep(r) \/ LibraryStep(r), UNCHANGED indexerVars
      PROVE  OverwriteIInv'
  <2>1. OnTime
    BY <1>4, AccountKeeps, LibraryKeeps DEF Keeps, Quiet
  <2>2. CASE Idle(r)
    BY <1>1, <2>1, <2>2, PassiveSteps, PassiveKeeps
  <2>3. CASE Committed(r) /\ Effects(r)
    BY <1>1, <2>1, <2>3, CommitKeepsOverwrite DEF Commits
  <2> QED
    BY <1>1, <1>4, <2>2, <2>3, EveryHandlerTells DEF Tells
<1>5. ASSUME NEW r \in Requests, (View(r) /\ UNCHANGED indexerVars) \/ SearchSimilarCases(r)
      PROVE  OverwriteIInv'
  <2>1. OnlyAnswers(r)
    BY <1>5, ViewKeeps
  <2> QED
    BY <1>1, <2>1, PassiveSteps, PassiveKeeps DEF OnlyAnswers
<1>6. (\E w \in Workers : Query(w) \/ Index(w) \/ LoseRound(w)) \/ Backfill => UNCHANGED tableVars
  BY DEF Query, Index, LoseRound, Backfill
<1>7. UNCHANGED vars => UNCHANGED tableVars
  BY DEF vars
<1> QED
  BY <1>2, <1>3, <1>4, <1>5, <1>6, <1>7 DEF Next

(* A user who was locked or erased is active again only if somebody        *)
(* unlocked them since or accepted an invitation at the time, a seed is    *)
(* confirmed by who proves it or by one who was at it while it was drawn,  *)
(* and what an erased user wrote is there again only if it is newer or was *)
(* edited since: users.py:413, mfa.py:97 and gdpr.py:142-153 overwrite     *)
(* what they have not read only when another was at work beside them.      *)
THEOREM Overwrites == Spec => []OverwritesNeedOverlap
<1>1. BackOfficeInit => OverwriteIInv
  BY OverwriteInit
<1>2. IInv /\ OverwriteIInv /\ [Next]_vars => OverwriteIInv'
  BY OverwriteNext
<1>3. OverwriteIInv => OverwritesNeedOverlap
  BY OverwriteIInvImplies
<1> QED
  BY <1>1, <1>2, <1>3, Invariance, PTL DEF Spec

-----------------------------------------------------------------------------
(* What a client follows.  What p read is, in rows of a later time, in its *)
(* place, and an audit record is there; what is not as p read it has the   *)
(* time at which a request began that committed since.                     *)
Wrote(w, t) == Done(w) /\ began[w] = t
Recalls(rows, p) ==
  \A x \in Ids :
    /\ seen[p][x] # Null /\ rows[x] # Null => SamePlace(seen[p][x], rows[x])
    /\ seen[p][x] # Null /\ seen[p][x].table = "audit" => rows[x] # Null
    /\ rows[x] # Null /\ rows[x].table \in Stamped /\ rows[x] # seen[p][x] =>
         \E w \in Requests : Wrote(w, rows[x].at) /\ ended[w] > began[p]
Recalled(q) == Done(call[q].since) /\ Recalls(seen[q], call[q].since)
RowsAreRecalled ==
  /\ \A p \in Requests : Recalls(db, p)
  /\ \A q \in Requests : Done(q) /\ IsQuery(q) /\ call[q].since # Null => Recalled(q)
WellRead ==
  \A r \in Requests : /\ seen[r] \in [Ids -> Row \cup {Null}]
                      /\ \A x \in Ids : seen[r][x] # Null => Known(x)
(* The time of a user is that of the start or one before the end of a      *)
(* request in which they looked at their mentions.                         *)
Visits(s, u, t) == Done(s) /\ call[s].op = "seen" /\ call[s].user = u /\ ended[s] >= t
Visited(rows) ==
  \A u \in Callers : rows[u] # Null /\ (rows[u].at < Start \/ \E s \in Requests : Visits(s, u, rows[u].at))
VisitsAreKept == Visited(db) /\ \A r \in Requests : Visited(seen[r])
Times ==
  /\ clock >= Start
  /\ \A r \in Requests : pc[r] = "write" => began[r] >= Start
  /\ \A x \in Ids \ First : db[x] # Null => began[x[1]] >= Start
  /\ \A r, s \in Requests : began[r] = ended[s] => began[r] = 0
(* What is not in an answer that is not full was no match, or is older     *)
(* than a row that the client had been answered.                           *)
Earlier(q, x) ==
  LET p == call[q].since
  IN  p # Null /\ (IsQuery(p) => \E y \in LastOf(p) : ~(seen[q][x].at >= seen[p][y].at))
Lists(q) ==
  call[q].op \in DOMAIN PollsFor =>
    /\ \A x \in LastOf(q) : x \in Ids /\ seen[q][x] # Null
    /\ Full(q) \/ \A x \in call[q].match : Shows(q, x) => x \in LastOf(q) \/ Earlier(q, x)
Mention(q, x) ==
  /\ seen[q][x] # Null /\ seen[q][x].table = "audit" /\ seen[q][x].state = "mentioned"
  /\ seen[q][x].under = call[q].user /\ seen[q][x].org = call[q].org
Counts(q) ==
  call[q].op \in {"unreadCount", "listMentions"} =>
    (call[q].unread /\ ~Full(q) => \A x \in call[q].match \ (First \cup LastOf(q)) :
       Mention(q, x) => \E s \in Requests : Visits(s, call[q].user, 0) /\ ended[s] > began[x[1]])
Record(q, x) == seen[q][x] # Null /\ seen[q][x].table = "audit" /\ seen[q][x].org = call[q].org
Records(q) == {x \in call[q].match : Record(q, x)}
MadeBy(q) == [x \in Ids |-> IF seen[q][x] = Null THEN 0 ELSE MadeAt(x)]
Pages(q) ==
  call[q].op = "listAudit" =>
    LastOf(q) \in Page(Records(q), MadeBy(q), call[q].skip, call[q].limit)
Replied(q) == Lists(q) /\ Counts(q) /\ Pages(q)
FollowIInv ==
  /\ RowsAreRecalled /\ WellRead /\ VisitsAreKept /\ Times
  /\ \A q \in Requests : Done(q) /\ IsQuery(q) => Replied(q)

LEMMA IdsAreFinite == IsFiniteSet(Ids)
<1>1. IsFiniteSet(1..MaxRows)
  BY IdsAssumption, FS_Interval
<1>2. IsFiniteSet(Requests \X (1..MaxRows))
  BY <1>1, IdsAssumption, FS_Product
<1> QED
  BY <1>2, IdsAssumption, FS_Union DEF Ids
(* What a query asks for.                                                  *)
LEMMA Question ==
  ASSUME IInv, NEW r \in Requests, IsQuery(r)
  PROVE  /\ call[r] \in Queries(STRING \ Acting)
         /\ call[r].match \subseteq Ids /\ call[r].user \in Callers
         /\ call[r].since \in Requests \cup {Null} /\ Null \notin Requests
         /\ call[r].limit \in Nat /\ call[r].skip \in Nat
<1>1. call[r] \in AllCalls /\ call[r] \notin Calls
  BY CallsWrite DEF IInv, TypeOK
<1> QED
  BY <1>1, IdsAssumption DEF AllCalls, Queries
(* An answer below its limit is all there is.                              *)
LEMMA Whole ==
  ASSUME NEW S, IsFiniteSet(S), NEW n \in Nat, NEW R, Cardinality(R) # n, NEW time,
         R \in Some(S, n) \/ R \in Newest(S, time, n)
  PROVE  R = S
<1>1. Cardinality(S) \in Nat /\ R \subseteq S
  BY FS_CardinalityType DEF Some, Newest, Page
<1>2. CASE R \in Some(S, n)
  <2>1. Cardinality(R) = Cardinality(S)
    BY <1>1, <1>2 DEF Some, AtMost
  <2> QED
    BY <1>1, <2>1, FS_Subset
<1>3. CASE R \in Newest(S, time, n)
  <2>1. PICK before \in SUBSET (S \ R) :
          Cardinality(before) = AtMost(0, S) /\ Cardinality(R) = AtMost(n, S \ before)
    BY <1>3 DEF Newest, Page
  <2>2. before = {}
    <3>1. IsFiniteSet(before) /\ Cardinality(before) = 0
      BY <1>1, <2>1, FS_Subset DEF AtMost
    <3> QED
      BY <3>1, FS_EmptySet
  <2>3. Cardinality(R) = Cardinality(S)
    BY <1>1, <2>1, <2>2 DEF AtMost
  <2> QED
    BY <1>1, <2>3, FS_Subset
<1> QED
  BY <1>2, <1>3

(* Of two pages, one after the other, of rows that stay.                   *)
LEMMA TwoPages ==
  ASSUME NEW S, NEW T, IsFiniteSet(T), S \subseteq T, NEW made, \A x \in T : made[x] \in Nat,
         NEW n \in Nat, NEW P \in Page(S, made, 0, n), NEW Q \in Page(T, made, n, n),
         NEW x \in S, x \notin P, x \notin Q,
         \A y \in T \ {x} : made[y] # made[x]
  PROVE  \E U \in SUBSET {y \in T \ {x} : made[y] >= made[x]} : Cardinality(U) = 2 * n
<1>0. /\ P \subseteq S /\ Q \subseteq T /\ x \in T /\ IsFiniteSet(S) /\ IsFiniteSet(P) /\ IsFiniteSet(Q)
      /\ Cardinality(S) \in Nat /\ Cardinality(T) \in Nat /\ Cardinality(P) \in Nat
  <2>1. P \subseteq S /\ Q \subseteq T
    BY DEF Page
  <2>2. IsFiniteSet(S)
    BY FS_Subset
  <2>3. IsFiniteSet(P) /\ IsFiniteSet(Q)
    BY <2>1, <2>2, FS_Subset
  <2> QED
    BY <2>1, <2>2, <2>3, FS_CardinalityType
<1>1. Cardinality(P) = n /\ \A y \in P : made[y] >= made[x]
  <2>1. PICK before \in SUBSET (S \ P) :
          /\ Cardinality(before) = AtMost(0, S) /\ Cardinality(P) = AtMost(n, S \ before)
          /\ \A z \in P, y \in S \ (before \cup P) : made[z] >= made[y]
    BY DEF Page
  <2>2. before = {}
    <3>1. IsFiniteSet(before) /\ Cardinality(before) = 0
      BY <1>0, <2>1, FS_Subset DEF AtMost
    <3> QED
      BY <3>1, FS_EmptySet
  <2>3. Cardinality(P) # Cardinality(S)
    BY <1>0, FS_Subset
  <2> QED
    BY <1>0, <2>1, <2>2, <2>3 DEF AtMost
<1>2. PICK before \in SUBSET (T \ Q) :
        /\ Cardinality(before) = AtMost(n, T) /\ Cardinality(Q) = AtMost(n, T \ before)
        /\ \A z \in before, y \in T \ before : made[z] >= made[y]
        /\ \A z \in Q, y \in T \ (before \cup Q) : made[z] >= made[y]
  BY DEF Page
<1>3. IsFiniteSet(before) /\ IsFiniteSet(T \ before) /\ Cardinality(T \ before) \in Nat
  BY <1>2, FS_Subset, FS_CardinalityType
<1>4. Cardinality(before) = n
  <2>1. P \in SUBSET T
    BY <1>0
  <2>2. Cardinality(P) <= Cardinality(T)
    BY <2>1, FS_Subset
  <2> QED
    BY <1>0, <1>1, <1>2, <2>2 DEF AtMost
<1>5. CASE x \in before
  <2>1. P \subseteq before
    <3> SUFFICES ASSUME NEW y \in P, y \notin before PROVE FALSE
      OBVIOUS
    <3>1. made[x] >= made[y] /\ made[y] >= made[x] /\ y \in T \ {x} /\ made[x] \in Nat /\ made[y] \in Nat
      BY <1>0, <1>1, <1>2, <1>5
    <3> QED
      BY <3>1
  <2>2. P = before
    BY <1>1, <1>3, <1>4, <2>1, FS_Subset
  <2> QED
    BY <1>5, <2>2
<1>6. CASE x \notin before
  <2>1. Cardinality(Q) = n
    <3>1. Q \in SUBSET (T \ before) /\ Q # T \ before
      BY <1>0, <1>2, <1>6
    <3>2. Cardinality(Q) # Cardinality(T \ before)
      BY <1>3, <3>1, FS_Subset
    <3> QED
      BY <1>2, <1>3, <3>2 DEF AtMost
  <2>2. before \cup Q \subseteq {y \in T \ {x} : made[y] >= made[x]}
    BY <1>0, <1>2, <1>6
  <2>3. Cardinality(before \cup Q) = 2 * n
    <3>1. before \cap Q = {}
      BY <1>2
    <3>2. Cardinality(before \cap Q) = 0
      BY <3>1, FS_EmptySet
    <3>3. Cardinality(before \cup Q) = Cardinality(before) + Cardinality(Q) - Cardinality(before \cap Q)
      BY <1>0, <1>3, FS_Union
    <3> QED
      BY <1>4, <2>1, <3>2, <3>3
  <2> QED
    BY <2>2, <2>3
<1> QED
  BY <1>5, <1>6

LEMMA NothingSlipsBy ==
  ASSUME IInv, FollowIInv
  PROVE  PollMissesLateCommits
<1> SUFFICES ASSUME NEW p \in Requests, Done(p), IsQuery(p), call[p].op \in DOMAIN PollsFor,
                    NEW q \in Requests, Done(q), IsQuery(q), call[q].op \in DOMAIN PollsFor,
                    call[q].since = p, SameView(p, q), call[p].since = Null, ~Full(p), ~Full(q),
                    NEW x \in call[q].match \ LastOf(q), Shows(q, x)
             PROVE  \/ x \in LastOf(p) /\ seen[q][x] = seen[p][x]
                    \/ \E w \in Requests : /\ Done(w) /\ began[w] = seen[q][x].at /\ ended[w] > began[p]
                                           /\ \E y \in LastOf(p) : began[w] < seen[p][y].at
  BY DEF PollMissesLateCommits
<1>1. /\ call[q].op = call[p].op /\ call[q].org = call[p].org /\ call[q].id = call[p].id
      /\ call[q].match = call[p].match
  <2>1. call[p] \in Queries(STRING \ Acting)
    BY Question
  <2> QED
    BY <2>1 DEF SameView, Queries
<1>2. Lists(p) /\ Lists(q) /\ Recalled(q)
  <2>1. p # Null
    BY Question
  <2> QED
    BY <2>1 DEF FollowIInv, Replied, RowsAreRecalled
<1>3. x \in Ids /\ seen[q][x] # Null /\ seen[q][x] \in Row
  BY Question DEF FollowIInv, WellRead, Shows
<1>4. PICK y \in LastOf(p) : ~(seen[q][x].at >= seen[p][y].at)
  BY <1>2 DEF Lists, Earlier
<1>5. seen[q][x].at < seen[p][y].at
  <2>1. y \in Ids /\ seen[p][y] # Null
    BY <1>2 DEF Lists
  <2>2. seen[p][y] \in Row
    BY <2>1 DEF FollowIInv, WellRead
  <2> QED
    BY <1>3, <1>4, <2>2 DEF Row
<1>6. CASE seen[q][x] = seen[p][x]
  <2>1. Shows(p, x)
    BY <1>1, <1>6 DEF Shows
  <2>2. x \in LastOf(p)
    BY <1>1, <1>2, <2>1 DEF Lists, Earlier
  <2> QED
    BY <1>6, <2>2
<1>7. CASE seen[q][x] # seen[p][x]
  <2>1. seen[q][x].table \in Stamped
    BY DEF Shows, PollsFor, Stamped
  <2>2. PICK w \in Requests : Wrote(w, seen[q][x].at) /\ ended[w] > began[p]
    BY <1>2, <1>3, <1>7, <2>1 DEF Recalled, Recalls
  <2> QED
    BY <1>5, <2>2 DEF Wrote
<1> QED
  BY <1>6, <1>7

LEMMA MadeInTime ==
  ASSUME IInv, NEW x \in Ids
  PROVE  MadeAt(x) \in Nat
<1>1. CASE x \in First
  BY <1>1, FirstAssumption DEF MadeAt, Row
<1>2. CASE x \notin First
  BY <1>2 DEF MadeAt, Ids, IInv, TypeOK
<1> QED
  BY <1>1, <1>2
LEMMA PagesTile ==
  ASSUME IInv, FollowIInv
  PROVE  PagesSkipTies
<1> DEFINE made == [y \in Ids |-> MadeAt(y)]
<1>1. ASSUME NEW q \in Requests, IsQuery(q), NEW skip, NEW n,
             NEW R \in Page(Records(q), MadeBy(q), skip, n)
      PROVE  R \in Page(Records(q), made, skip, n)
  <2>1. \A y \in Records(q) : MadeBy(q)[y] = made[y]
    BY <1>1, Question DEF Records, Record, MadeBy
  <2> HIDE DEF made
  <2> QED
    BY <2>1 DEF Page
<1> SUFFICES ASSUME NEW p \in Requests, NEW q \in Requests, Done(p), Done(q), IsQuery(p), IsQuery(q),
                    call[p].op = "listAudit", call[q].op = "listAudit",
                    call[q] = [call[p] EXCEPT !.skip = call[p].limit, !.since = p], call[p].skip = 0,
                    NEW x \in call[p].match \ (LastOf(p) \cup LastOf(q)),
                    Record(q, x), seen[p][x] # Null
             PROVE  LET others == {y \in call[p].match \ {x} : Record(q, y) /\ MadeAt(y) >= MadeAt(x)}
                    IN  \/ \E y \in others : MadeAt(y) = MadeAt(x)
                        \/ Cardinality(others) >= 2 * call[p].limit
  BY ZenonT(60) DEF PagesSkipTies, Record
<1> DEFINE others == {y \in call[p].match \ {x} : Record(q, y) /\ MadeAt(y) >= MadeAt(x)}
           n == call[p].limit
           S == Records(p)
           T == Records(q)
<1>2. /\ call[p] \in Queries(STRING \ Acting) /\ call[p].match \subseteq Ids /\ n \in Nat
      /\ p # Null
  BY Question
<1>3. /\ call[q].org = call[p].org /\ call[q].match = call[p].match /\ call[q].since = p
      /\ call[q].skip = n /\ call[q].limit = n
  BY <1>2 DEF Queries
<1>4. Pages(p) /\ Pages(q) /\ Recalls(seen[q], p)
  BY <1>2, <1>3 DEF FollowIInv, Replied, RowsAreRecalled, Recalled
<1>5. S \subseteq T /\ x \in S
  BY <1>2, <1>3, <1>4 DEF Records, Record, Recalls, SamePlace
<1>6. LastOf(p) \in Page(S, made, 0, n) /\ LastOf(q) \in Page(T, made, n, n)
  BY <1>1, <1>3, <1>4 DEF Pages
<1>7. IsFiniteSet(T) /\ \A y \in T : y \in Ids /\ made[y] = MadeAt(y) /\ made[y] \in Nat
  <2>1. T \in SUBSET Ids
    BY <1>2, <1>3 DEF Records
  <2> QED
    BY <2>1, IdsAreFinite, FS_Subset, MadeInTime
<1>8. others = {y \in T \ {x} : made[y] >= made[x]}
  <2>1. made[x] = MadeAt(x)
    BY <1>2
  <2>2. others \subseteq {y \in T \ {x} : made[y] >= made[x]}
    BY <1>2, <1>3, <2>1 DEF Records
  <2>3. {y \in T \ {x} : made[y] >= made[x]} \subseteq others
    BY <1>2, <1>3, <2>1 DEF Records
  <2> QED
    BY <2>2, <2>3
<1>9. CASE \E y \in T \ {x} : made[y] = made[x]
  <2>1. PICK y \in T \ {x} : made[y] = made[x]
    BY <1>9
  <2>2. made[y] \in Nat /\ made[x] \in Nat /\ made[x] = MadeAt(x) /\ made[y] = MadeAt(y)
    BY <1>5, <1>7
  <2>3. y \in others
    BY <1>8, <2>1, <2>2
  <2> QED
    BY <2>1, <2>2, <2>3
<1>10. CASE ~\E y \in T \ {x} : made[y] = made[x]
  <2> HIDE DEF made, S, T, n
  <2>1. PICK U \in SUBSET {y \in T \ {x} : made[y] >= made[x]} : Cardinality(U) = 2 * n
    BY <1>2, <1>5, <1>6, <1>7, <1>10, TwoPages
  <2> HIDE DEF others
  <2>2. U \in SUBSET others /\ others \subseteq T
    BY <1>8, <2>1
  <2>3. IsFiniteSet(others)
    BY <1>7, <2>2, FS_Subset
  <2>4. Cardinality(U) <= Cardinality(others) /\ Cardinality(others) \in Nat
    BY <2>2, <2>3, FS_Subset, FS_CardinalityType
  <2> QED
    BY <1>2, <2>1, <2>4 DEF others, n
<1> QED
  BY <1>9, <1>10

LEMMA FollowIInvImplies == IInv /\ FollowIInv => NothingIsMissed
<1> SUFFICES ASSUME IInv, FollowIInv PROVE NothingIsMissed
  OBVIOUS
<1>1. UnreadUntilSeen
  BY DEF UnreadUntilSeen, FollowIInv, Replied, Counts, Mention, Visits
<1> QED
  BY <1>1, NothingSlipsBy, PagesTile DEF NothingIsMissed

LEMMA FollowInit == BackOfficeInit => FollowIInv
<1> SUFFICES ASSUME BackOfficeInit PROVE FollowIInv
  OBVIOUS
<1>1. IInv
  BY InitIInv
<1>2. /\ db = [x \in Ids |-> IF x \in First THEN FirstRow[x] ELSE Null]
      /\ clock = Start
      /\ \A r \in Requests : seen[r] = db /\ pc[r] # "write" /\ ~Done(r) /\ began[r] = 0
  BY DEF BackOfficeInit, Init, Done
<1>3. db \in [Ids -> Row \cup {Null}]
  BY <1>1 DEF IInv, TypeOK
<1>4. \A x \in Ids : /\ db[x] # Null => x \in First
                     /\ x \in First => Known(x) /\ db[x] = FirstRow[x]
  BY <1>2, IdsAssumption DEF Known
<1>5. RowsAreRecalled
  BY <1>2, <1>4 DEF RowsAreRecalled, Recalls, SamePlace
<1>6. WellRead
  BY <1>2, <1>3, <1>4 DEF WellRead
<1>7. Visited(db)
  <2>1. \A u \in Callers : u \in Ids /\ u \in First
    BY OrgIds
  <2>2. \A x \in First : FirstRow[x] # Null
    BY FirstAssumption
  <2> QED
    BY <1>4, <2>1, <2>2, FirstAssumption DEF Visited
<1>8. Times
  BY <1>2, <1>4, IdsAssumption DEF Times
<1> QED
  BY <1>2, <1>5, <1>6, <1>7, <1>8 DEF FollowIInv, VisitsAreKept, Visited

(* What is done stays as it is.                                            *)
Stands ==
  /\ call' = call
  /\ \A s \in Requests : Done(s) => /\ Done(s)' /\ began'[s] = began[s] /\ ended'[s] = ended[s]
                                    /\ seen'[s] = seen[s]
                                    /\ IsQuery(s) => answer'[s] = answer[s]
LEMMA KnownStands ==
  ASSUME Stands, NEW x \in Ids, Known(x)
  PROVE  Known(x)' /\ MadeAt(x)' = MadeAt(x)
<1>1. Known(x)'
  BY DEF Known, Stands, Done
<1>2. x \notin First => began'[x[1]] = began[x[1]]
  BY DEF Known, Stands, Done, Ids
<1> QED
  BY <1>1, <1>2 DEF MadeAt
LEMMA RecalledStands ==
  ASSUME Stands, NEW p \in Requests, NEW q \in Requests, Done(p), seen'[q] = seen[q],
         Recalls(seen[q], p)
  PROVE  Recalls(seen[q], p)'
<1>1. seen'[p] = seen[p] /\ began'[p] = began[p]
  BY DEF Stands
<1>2. \A w \in Requests : Done(w) => Done(w)' /\ began'[w] = began[w] /\ ended'[w] = ended[w]
  BY DEF Stands
<1> QED
  BY <1>1, <1>2 DEF Recalls, SamePlace, Wrote, Done
LEMMA VisitsStand ==
  ASSUME Stands
  PROVE  /\ \A s \in Requests : \A u, t : Visits(s, u, t) => Visits(s, u, t)'
         /\ \A rows : Visited(rows) =>
              \A u \in Callers : /\ rows[u] # Null
                                 /\ rows[u].at < Start \/ \E s \in Requests : Visits(s, u, rows[u].at)'
<1>1. \A s \in Requests : \A u, t : Visits(s, u, t) => Visits(s, u, t)'
  BY DEF Visits, Stands
<1> QED
  BY <1>1 DEF Visited
LEMMA RepliedStands ==
  ASSUME IInv, FollowIInv, Stands, NEW q \in Requests, Done(q), IsQuery(q)
  PROVE  /\ Replied(q)'
         /\ call[q].since # Null => Recalled(q)'
<1>1. /\ call' = call /\ seen'[q] = seen[q] /\ answer'[q] = answer[q] /\ began'[q] = began[q]
      /\ LastOf(q)' = LastOf(q)
  BY DEF Stands, LastOf
<1>2. Replied(q)
  BY DEF FollowIInv
<1>3. ASSUME call[q].since # Null
      PROVE  /\ Recalled(q)' /\ call[q].since \in Requests
             /\ seen'[call[q].since] = seen[call[q].since]
             /\ IsQuery(call[q].since) => LastOf(call[q].since)' = LastOf(call[q].since)
  <2>1. PICK p \in Requests : p = call[q].since /\ Recalled(q)
    BY <1>3, Question DEF FollowIInv, RowsAreRecalled
  <2>2. Done(p) /\ Done(p)' /\ seen'[p] = seen[p] /\ began'[p] = began[p] /\ Recalls(seen[q], p)
    BY <2>1 DEF Recalled, Stands
  <2>3. Recalls(seen[q], p)'
    BY <1>1, <2>1, <2>2, RecalledStands
  <2> QED
    BY <1>1, <2>1, <2>2, <2>3 DEF Recalled, Stands, LastOf
<1>4. Lists(q)'
  <2>1. \A x : Shows(q, x)' <=> Shows(q, x)
    BY <1>1 DEF Shows
  <2>2. \A x : Earlier(q, x) => Earlier(q, x)'
    BY <1>1, <1>3 DEF Earlier, IsQuery
  <2>3. Full(q)' <=> Full(q)
    BY <1>1 DEF Full
  <2> QED
    BY <1>1, <1>2, <2>1, <2>2, <2>3 DEF Lists, Replied
<1>5. Counts(q)'
  <2>1. \A x : Mention(q, x)' <=> Mention(q, x)
    BY <1>1 DEF Mention
  <2>2. Full(q)' <=> Full(q)
    BY <1>1 DEF Full
  <2>3. ASSUME NEW x \in call[q].match, x \notin First, Mention(q, x)
        PROVE  began'[x[1]] = began[x[1]]
    <3>1. x \in Ids /\ Known(x)
      BY <2>3, Question DEF FollowIInv, WellRead, Mention
    <3> QED
      BY <2>3, <3>1 DEF Known, Stands, Done, Ids
  <2>4. \A s \in Requests : Visits(s, call[q].user, 0) => Visits(s, call[q].user, 0)' /\ ended'[s] = ended[s]
    BY VisitsStand DEF Visits, Stands
  <2> QED
    BY <1>1, <1>2, <2>1, <2>2, <2>3, <2>4 DEF Counts, Replied
<1>6. Pages(q)'
  <2>1. Records(q)' = Records(q)
    BY <1>1 DEF Records, Record
  <2>2. \A x \in Ids : seen[q][x] # Null => MadeAt(x)' = MadeAt(x)
    BY KnownStands DEF FollowIInv, WellRead
  <2>3. MadeBy(q)' = MadeBy(q)
    BY <1>1, <2>2 DEF MadeBy
  <2> QED
    BY <1>1, <1>2, <2>1, <2>3 DEF Pages, Replied
<1> QED
  BY <1>3, <1>4, <1>5, <1>6 DEF Replied

(* A step that commits nothing: who reads has the rows that are there, and *)
(* who is done by it has.                                                  *)
Undisturbed(q) ==
  seen'[q] = seen[q] /\ began'[q] = began[q] /\ (pc'[q] = "write" => pc[q] = "write")
Looked(q) ==
  /\ ~Done(q) /\ seen'[q] = db /\ began'[q] \in {began[q], clock}
  /\ pc'[q] = "write" => began'[q] = clock
EndsWell(q) ==
  IsQuery(q) => /\ seen'[q] = db
                /\ call[q].since # Null => Done(call[q].since)
Rests ==
  /\ UNCHANGED <<db, call>> /\ OnTime /\ (UNCHANGED ended \/ UNCHANGED began)
  /\ \A q \in Requests : /\ Undisturbed(q) \/ Looked(q)
                         /\ Done(q) /\ IsQuery(q) => answer'[q] = answer[q]
                         /\ ~Done(q) /\ Done(q)' => EndsWell(q)
LEMMA RestsStand ==
  ASSUME Rests
  PROVE  Stands
BY DEF Rests, Stands, Undisturbed, Looked, OnTime, Done
LEMMA RestsKeepRows ==
  ASSUME IInv, IInv', FollowIInv, Rests
  PROVE  RowsAreRecalled' /\ WellRead' /\ VisitsAreKept'
<1>1. Stands /\ db' = db /\ call' = call
  BY RestsStand DEF Rests
<1>2. \A w \in Requests : Done(w) => Done(w)' /\ began'[w] = began[w] /\ ended'[w] = ended[w]
  BY <1>1 DEF Stands
<1>3. \A q \in Requests : (seen'[q] = seen[q] /\ began'[q] = began[q]) \/ seen'[q] = db
  BY DEF Rests, Undisturbed, Looked
<1>4. ASSUME NEW p \in Requests
      PROVE  Recalls(db, p)'
  <2>1. CASE seen'[p] = db
    BY <1>1, <2>1 DEF Recalls, SamePlace
  <2>2. CASE seen'[p] = seen[p] /\ began'[p] = began[p]
    <3>1. Recalls(db, p)
      BY DEF FollowIInv, RowsAreRecalled
    <3> QED
      BY <1>1, <1>2, <2>2, <3>1 DEF Recalls, SamePlace, Wrote, Done
  <2> QED
    BY <1>3, <2>1, <2>2
<1>5. ASSUME NEW q \in Requests, Done(q)', IsQuery(q), call[q].since # Null
      PROVE  Recalled(q)'
  <2>1. CASE Done(q)
    BY <1>1, <1>5, <2>1, RepliedStands
  <2>2. CASE ~Done(q)
    <3>1. PICK p \in Requests : p = call[q].since /\ Done(p) /\ seen'[q] = db
      BY <1>5, <2>2, Question DEF Rests, EndsWell
    <3>2. Recalls(db, p)'
      BY <1>4
    <3>3. Recalls(seen[q], p)'
      BY <1>1, <3>1, <3>2 DEF Recalls, SamePlace, Wrote, Done
    <3> QED
      BY <1>1, <1>2, <3>1, <3>3 DEF Recalled
  <2> QED
    BY <2>1, <2>2
<1>6. WellRead'
  <2>1. \A x \in Ids : db[x] # Null => Known(x)'
    BY <1>1, KnownRows, KnownStands
  <2>2. \A r \in Requests : \A x \in Ids : seen[r][x] # Null => Known(x)'
    BY <1>1, KnownStands DEF FollowIInv, WellRead
  <2>3. db \in [Ids -> Row \cup {Null}] /\ \A r \in Requests : seen[r] \in [Ids -> Row \cup {Null}]
    BY DEF IInv, TypeOK, FollowIInv, WellRead
  <2> QED
    BY <1>3, <2>1, <2>2, <2>3 DEF WellRead
<1>7. VisitsAreKept'
  <2>1. \A s \in Requests : \A u, t : Visits(s, u, t) => Visits(s, u, t)'
    BY <1>1, VisitsStand
  <2>2. Visited(db)'
    BY <1>1, <2>1 DEF FollowIInv, VisitsAreKept, Visited, Visits
  <2>3. ASSUME NEW r \in Requests
        PROVE  Visited(seen[r])'
    <3>1. CASE seen'[r] = db
      BY <1>1, <2>2, <3>1 DEF Visited, Visits
    <3>2. CASE seen'[r] = seen[r]
      BY <2>1, <3>2 DEF FollowIInv, VisitsAreKept, Visited, Visits
    <3> QED
      BY <1>3, <3>1, <3>2
  <2> QED
    BY <2>2, <2>3 DEF VisitsAreKept
<1> QED
  BY <1>1, <1>4, <1>5, <1>6, <1>7 DEF RowsAreRecalled, IsQuery
LEMMA RestsKeepTimes ==
  ASSUME IInv, IInv', Past, FollowIInv, Rests
  PROVE  Times'
<1>1. /\ db' = db /\ clock \in Nat /\ clock' \in Nat /\ clock' >= clock
      /\ clock >= Start /\ Start \in Nat
  BY IdsAssumption DEF Rests, OnTime, IInv, TypeOK, FollowIInv, Times
<1>2. \A q \in Requests : began'[q] = began[q] \/ began'[q] = clock
  BY DEF Rests, Undisturbed, Looked
<1>3. \A q \in Requests : pc'[q] = "write" => began'[q] >= Start
  BY <1>1 DEF Rests, Undisturbed, Looked, FollowIInv, Times
<1>4. ASSUME NEW x \in Ids \ First, db[x] # Null
      PROVE  began'[x[1]] >= Start
  <2>1. x[1] \in Requests /\ Known(x)
    BY <1>4, KnownRows DEF Ids
  <2>2. began'[x[1]] = began[x[1]]
    BY <2>1, RestsStand DEF Known, Stands, Done, Ids
  <2> QED
    BY <1>4, <2>2 DEF FollowIInv, Times
<1>5. ASSUME NEW r \in Requests, NEW s \in Requests, began'[r] = ended'[s]
      PROVE  began'[r] = 0
  <2>1. ended[s] < clock /\ ended[s] \in Nat /\ began[r] < clock /\ began[r] \in Nat
    BY DEF Past, IInv, TypeOK
  <2>2. CASE ended'[s] = ended[s]
    BY <1>1, <1>2, <1>5, <2>1, <2>2 DEF FollowIInv, Times
  <2>3. CASE ended'[s] = clock /\ began'[r] = began[r]
    BY <1>1, <1>5, <2>1, <2>3
  <2> QED
    BY <2>2, <2>3 DEF Rests, OnTime
<1> QED
  BY <1>1, <1>3, <1>4, <1>5 DEF Times
LEMMA RestsKeep ==
  ASSUME IInv, IInv', Past, FollowIInv, Rests,
         \A q \in Requests : ~Done(q) /\ Done(q)' /\ IsQuery(q) => Replied(q)'
  PROVE  FollowIInv'
<1>1. \A q \in Requests : Done(q)' /\ IsQuery(q) => Replied(q)'
  BY RestsStand, RepliedStands
<1>2. call' = call
  BY DEF Rests
<1> QED
  BY <1>1, <1>2, RestsKeepRows, RestsKeepTimes DEF FollowIInv, IsQuery
(* Requests read, fail and answer so.                                      *)
LEMMA StepsRest ==
  ASSUME IInv, NEW r \in Requests,
         \/ Read(r)
         \/ Idle(r) /\ Quiet(r)
         \/ OnlyAnswers(r)
  PROVE  Rests
<1>0. /\ pc \in [Requests -> {"idle", "read", "next", "write", "200", "400", "401", "403", "404", "409", "500"}]
      /\ DOMAIN seen = Requests /\ began \in [Requests -> Nat] /\ clock \in Nat
  BY DEF IInv, TypeOK
<1>1. CASE Read(r)
  <2>1. /\ UNCHANGED <<db, call, ended, answer>> /\ clock' = clock + 1 /\ ~IsQuery(r) /\ pc[r] = "read"
        /\ seen'[r] = db /\ began'[r] = clock /\ pc'[r] = "write"
        /\ \A q \in Requests \ {r} : seen'[q] = seen[q] /\ began'[q] = began[q] /\ pc'[q] = pc[q]
    BY <1>0, <1>1 DEF Read, Begin
  <2> QED
    BY <1>0, <2>1 DEF Rests, Undisturbed, Looked, OnTime, Done
<1>2. CASE Idle(r) /\ Quiet(r)
  BY <1>0, <1>2 DEF Idle, Quiet, Rests, Undisturbed, Done
<1>3. CASE OnlyAnswers(r)
  <2>1. UNCHANGED <<db, call, ended>> /\ OnTime
    BY <1>3 DEF OnlyAnswers
  <2>2. \A q \in Requests \ {r} : Undisturbed(q) /\ answer'[q] = answer[q] /\ pc'[q] = pc[q]
    BY <1>3 DEF OnlyAnswers, Undisturbed
  <2>3. CASE Replies(r)
    <3>1. Looked(r) /\ ~Done(r) /\ EndsWell(r)
      BY <1>3, <2>3 DEF OnlyAnswers, Replies, Looked, EndsWell, Done
    <3> QED
      BY <2>1, <2>2, <3>1 DEF Rests, Done
  <2>4. CASE UNCHANGED <<seen, answer, began, clock>> /\ pc'[r] \notin {"write", "next", "200"}
    <3>1. Undisturbed(r) /\ ~Done(r)' /\ answer'[r] = answer[r]
      BY <2>4 DEF Undisturbed, Done
    <3> QED
      BY <2>1, <2>2, <3>1 DEF Rests, Done
  <2> QED
    BY <1>3, <2>3, <2>4 DEF OnlyAnswers
<1> QED
  BY <1>1, <1>2, <1>3

(* A commit.                                                               *)
LEMMA CommitKeepsRows ==
  ASSUME NEW r \in Requests, Commits(r), FollowIInv, Stands
  PROVE  (\A p \in Requests : Recalls(db, p)') /\ VisitsAreKept'
<1>1. /\ call' = call /\ seen' = seen /\ began' = began /\ Done(r)' /\ ended'[r] = clock
      /\ \A q \in Requests : began[q] < clock
  BY CommitFacts
<1>2. /\ IInv /\ IInv' /\ RowsStay /\ OnTime /\ Dates(r)
  BY DEF Commits, Effects
<1>3. \A w \in Requests : Done(w) => Done(w)' /\ ended'[w] = ended[w]
  BY DEF Stands
<1>4. ASSUME NEW p \in Requests, NEW x \in Ids, seen[p][x] # Null
      PROVE  /\ db'[x] # Null => SamePlace(seen[p][x], db'[x])
             /\ seen[p][x].table = "audit" => db'[x] # Null
  <2>1. Known(x) /\ Recalls(db, p)
    BY <1>4 DEF FollowIInv, WellRead, RowsAreRecalled
  <2>2. db'[x] # Null => db[x] # Null /\ SamePlace(db[x], db'[x])
    BY <1>2, <2>1, KnownStays DEF Follows
  <2>3. db[x] # Null => SamePlace(seen[p][x], db[x])
    BY <1>4, <2>1 DEF Recalls
  <2>4. seen[p][x].table = "audit" => db'[x] # Null
    BY <1>2, <1>4, <2>1, <2>3 DEF Recalls, Dates, SamePlace
  <2> QED
    BY <2>2, <2>3, <2>4 DEF SamePlace
<1>5. ASSUME NEW p \in Requests, NEW x \in Ids,
             db'[x] # Null, db'[x].table \in Stamped, db'[x] # seen[p][x]
      PROVE  \E w \in Requests : Done(w)' /\ began[w] = db'[x].at /\ ended'[w] > began[p]
  <2>1. CASE db'[x] = db[x]
    <3>1. \E w \in Requests : Wrote(w, db[x].at) /\ ended[w] > began[p]
      BY <1>5, <2>1 DEF FollowIInv, RowsAreRecalled, Recalls
    <3> QED
      BY <1>3, <2>1, <3>1 DEF Wrote
  <2>2. CASE db'[x] # db[x]
    <3>1. db'[x].at = began[r]
      BY <1>2, <1>5, <2>2 DEF Dates, Dated
    <3>2. began[p] \in Nat /\ clock \in Nat
      BY <1>2 DEF IInv, TypeOK
    <3> QED
      BY <1>1, <3>1, <3>2
  <2> QED
    BY <2>1, <2>2
<1>6. \A p \in Requests : Recalls(db, p)'
  BY <1>1, <1>4, <1>5 DEF Recalls, SamePlace, Wrote, Done
<1>7. \A s \in Requests : \A u, t : Visits(s, u, t) => Visits(s, u, t)'
  BY VisitsStand
<1>8. ASSUME NEW u \in Callers
      PROVE  db'[u] # Null /\ (db'[u].at < Start \/ \E s \in Requests : Visits(s, u, db[u].at)')
  <2>1. u \in Ids /\ db[u] # Null /\ db[u].table = "user" /\ db'[u] # Null
    BY <1>2, OrgIds DEF IInv, PlacesStay
  <2>2. db'[u].at = db[u].at \/ (Looks(r, u) /\ db'[u].at \in 0..clock)
    BY <1>2, <2>1 DEF Dates, Dated
  <2>3. CASE db'[u].at = db[u].at
    BY <1>7, <2>1, <2>3 DEF FollowIInv, VisitsAreKept, Visited, Visits
  <2>4. CASE Looks(r, u) /\ db'[u].at \in 0..clock
    <3>1. clock >= db'[u].at
      BY <1>2, <2>4 DEF IInv, TypeOK
    <3>2. Visits(r, u, db[u].at)'
      BY <1>1, <2>4, <3>1 DEF Visits, Looks
    <3> QED
      BY <2>1, <3>2
  <2> QED
    BY <2>2, <2>3, <2>4
<1>9. VisitsAreKept'
  <2>1. Visited(db)'
    BY <1>8 DEF Visited, Visits
  <2>2. \A q \in Requests : Visited(seen[q])'
    BY <1>1, <1>7 DEF FollowIInv, VisitsAreKept, Visited, Visits
  <2> QED
    BY <2>1, <2>2 DEF VisitsAreKept
<1> QED
  BY <1>6, <1>9
LEMMA CommitKeepsTimes ==
  ASSUME NEW r \in Requests, Commits(r), FollowIInv
  PROVE  Times'
<1>1. /\ began' = began /\ ended'[r] = clock /\ pc[r] = "write"
      /\ \A q \in Requests : began[q] < clock
      /\ \A q \in Requests : pc'[q] = "write" => q # r
      /\ \A q \in Requests \ {r} : pc'[q] = pc[q] /\ ended'[q] = ended[q]
  BY CommitFacts
<1>2. IInv /\ IInv' /\ RowsStay /\ clock' = clock + 1 /\ clock \in Nat /\ Times
  BY DEF Commits, Committed, IInv, TypeOK, FollowIInv
<1>3. \A q \in Requests : pc'[q] = "write" => began'[q] >= Start
  BY <1>1, <1>2 DEF Times
<1>4. ASSUME NEW x \in Ids \ First, db'[x] # Null
      PROVE  began[x[1]] >= Start
  <2>1. CASE db[x] # Null
    BY <1>2, <1>4, <2>1 DEF Times
  <2>2. CASE db[x] = Null
    <3>1. PICK q \in Requests, k \in 1..MaxRows : x = <<q, k>> /\ pc[q] # "200"
      BY <1>2, <1>4, <2>2 DEF RowsStay
    <3>2. pc'[q] = "200"
      BY <1>2, <1>4, <3>1 DEF IInv, PlacesStay
    <3>3. q = r /\ x[1] = r
      BY <1>1, <3>1, <3>2
    <3> QED
      BY <1>1, <1>2, <3>3 DEF Times
  <2> QED
    BY <2>1, <2>2
<1>5. ASSUME NEW q \in Requests, NEW s \in Requests, began[q] = ended'[s]
      PROVE  began[q] = 0
  BY <1>1, <1>2, <1>5 DEF Times, IInv, TypeOK
<1>6. clock' >= Start
  BY <1>2, IdsAssumption DEF Times
<1> QED
  BY <1>1, <1>3, <1>4, <1>5, <1>6 DEF Times
LEMMA CommitKeepsFollow ==
  ASSUME NEW r \in Requests, Commits(r), Quiet(r), FollowIInv
  PROVE  FollowIInv'
<1>1. /\ call' = call /\ seen' = seen /\ began' = began
      /\ \A q \in Requests : Done(q) => q # r
      /\ \A q \in Requests \ {r} : (Done(q)' <=> Done(q)) /\ ended'[q] = ended[q]
  BY CommitFacts
<1>2. Stands
  BY <1>1 DEF Stands, Quiet
<1>3. IInv /\ ~IsQuery(r)
  <2>1. call[r] \in Calls
    BY DEF Commits, Committed, IInv, TypeOK
  <2> QED
    BY <2>1, CallsWrite DEF Commits, IsQuery
<1>4. \A q \in Requests : Done(q)' /\ IsQuery(q) => Done(q)
  BY <1>1, <1>3
<1>5. \A q \in Requests : Done(q)' /\ IsQuery(q) =>
        Replied(q)' /\ (call[q].since # Null => Recalled(q)')
  BY <1>2, <1>3, <1>4, RepliedStands
<1>6. WellRead'
  BY <1>1, <1>2, KnownStands DEF FollowIInv, WellRead
<1> QED
  BY <1>1, <1>2, <1>5, <1>6, CommitKeepsRows, CommitKeepsTimes
     DEF FollowIInv, RowsAreRecalled, IsQuery

-----------------------------------------------------------------------------
(* The views that clients follow.                                          *)
Followed == DOMAIN PollsFor \cup {"unreadCount", "listMentions", "listAudit"}
FollowedView(r) ==
  \/ ListCases(r) \/ ExportCasesCsv(r) \/ ExportTasksCsv(r) \/ ListAllTasks(r) \/ ListAlerts(r)
  \/ ExportAlertsCsv(r) \/ ListObservables(r) \/ ExportObservablesCsv(r) \/ ListKbPages(r)
  \/ ListTemplates(r) \/ ListCasePages(r)
  \/ ListMyMentions(r) \/ UnreadMentionCount(r) \/ ListAudit(r)
LEMMA ViewsAreNamed ==
  \A r, op, found, statements :
    (Asks(r, op) \/ Answer(r, op, statements) \/ AnswerIf(r, op, found, statements)) => call[r].op = op
BY DEF Answer, AnswerIf, Asks
LEMMA OnlyFollowed ==
  ASSUME NEW r \in Requests, call[r].op \in Followed, View(r) \/ SearchSimilarCases(r)
  PROVE  FollowedView(r) \/ RefuseView(r)
<1>0. /\ \A op, statements : Answer(r, op, statements) => op \in Followed
      /\ \A op, found, statements : AnswerIf(r, op, found, statements) => op \in Followed
      /\ \A op : Asks(r, op) => op \in Followed
  BY ViewsAreNamed
<1>1. Followed = {"listCases", "exportCases", "allTasks", "exportTasks", "listAlerts", "exportAlerts",
                  "listObservables", "exportObservables", "listKb", "listTemplates", "listPages",
                  "unreadCount", "listMentions", "listAudit"}
  BY DEF Followed, PollsFor
<1>2. ~(SearchUsers(r) \/ ListRecentUsers(r) \/ ListUsers(r) \/ GetUser(r) \/ PeekInvite(r)
          \/ UserRecentActivity(r) \/ ListProfiles(r))
  BY <1>0, <1>1 DEF SearchUsers, ListRecentUsers, ListUsers, GetUser, PeekInvite, UserRecentActivity,
    ListProfiles
<1>3. ~(GetProfile(r) \/ ListMyOrgs(r) \/ GetOrg(r) \/ ListSharings(r) \/ ListMyKeys(r)
          \/ ListUserKeys(r) \/ ExportUser(r))
  BY <1>0, <1>1 DEF GetProfile, ListMyOrgs, GetOrg, ListSharings, ListMyKeys, ListUserKeys, ExportUser
<1>4. ~(ListRecentKbPages(r) \/ GetKbPage(r) \/ ListRecentCaseTemplates(r) \/ ListTaxonomyEntries(r)
          \/ ListCatalog(r) \/ ListCaseTtps(r) \/ CasesByTechnique(r))
  BY <1>0, <1>1 DEF ListRecentKbPages, GetKbPage, ListRecentCaseTemplates, ListTaxonomyEntries,
    ListCatalog, ListCaseTtps, CasesByTechnique
<1>5. ~(ExportAuditCsv(r) \/ AuditSummary(r) \/ ListEndpoints(r) \/ ListRules(r)
          \/ ListDeliveries(r) \/ DeliveriesSummary(r) \/ ExportDeliveriesCsv(r))
  BY <1>0, <1>1 DEF ExportAuditCsv, AuditSummary, ListEndpoints, ListRules, ListDeliveries,
    DeliveriesSummary, ExportDeliveriesCsv
<1>6. ~(ListRecentCases(r) \/ GetCase(r) \/ ListCaseContributors(r) \/ MyCaseContributorRow(r)
          \/ ListRelatedCases(r) \/ ListLinks(r) \/ ListRecentTasks(r) \/ ListTasks(r))
  BY <1>0, <1>1 DEF ListRecentCases, GetCase, ListCaseContributors, MyCaseContributorRow,
    ListRelatedCases, ListLinks, ListRecentTasks, ListTasks
<1>7. ~(CaseTasksSummary(r) \/ ListTaskLogs(r) \/ ListComments(r) \/ CaseTimeline(r)
          \/ CaseTimelineSummary(r) \/ CaseReport(r) \/ ListRecentAlerts(r) \/ GetAlert(r)
          \/ ListSimilarAlerts(r) \/ AlertTimeline(r))
  BY <1>0, <1>1 DEF CaseTasksSummary, ListTaskLogs, ListComments, CaseTimeline, CaseTimelineSummary,
    CaseReport, ListRecentAlerts, GetAlert, ListSimilarAlerts, AlertTimeline
<1>8. ~(SearchObservables(r) \/ ListRecentObservables(r) \/ GetObservable(r) \/ FindSimilar(r)
          \/ ObservableCaseRefs(r) \/ ListCaseObservables(r) \/ CaseObservablePapSummary(r)
          \/ CaseObservableTlpSummary(r) \/ CaseObservableTags(r))
  BY <1>0, <1>1 DEF SearchObservables, ListRecentObservables, GetObservable, FindSimilar,
    ObservableCaseRefs, ListCaseObservables, CaseObservablePapSummary, CaseObservableTlpSummary,
    CaseObservableTags
<1>9. ~(CaseObservableSummary(r) \/ ExportObservablesToMisp(r) \/ CaseObservableSimilarityCounts(r)
          \/ ListCaseAttachments(r) \/ ListShares(r) \/ ListMySharedCases(r) \/ ListPortalComments(r)
          \/ Search(r))
  BY <1>0, <1>1 DEF CaseObservableSummary, ExportObservablesToMisp, CaseObservableSimilarityCounts,
    ListCaseAttachments, ListShares, ListMySharedCases, ListPortalComments, Search
<1>10. ~(CasesPerDay(r) \/ AlertsPerDay(r) \/ AuditPerDay(r) \/ NotificationsPerDay(r)
          \/ TtpsHeatmap(r) \/ CaseMttr(r) \/ SlowestOpenCases(r) \/ ObservablesByType(r))
  BY <1>0, <1>1 DEF CasesPerDay, AlertsPerDay, AuditPerDay, NotificationsPerDay, TtpsHeatmap,
    CaseMttr, SlowestOpenCases, ObservablesByType, CountPerDay, Count
<1>11. ~(ObservablesByTlp(r) \/ ObservablesByPap(r) \/ CaseStages(r) \/ CasesByTlp(r)
          \/ CasesByAssignee(r) \/ AlertsByStatus(r) \/ AlertsBySource(r) \/ TasksByStatus(r))
  BY <1>0, <1>1 DEF ObservablesByTlp, ObservablesByPap, CaseStages, CasesByTlp, CasesByAssignee,
    AlertsByStatus, AlertsBySource, TasksByStatus, Count
<1>12. ~SearchSimilarCases(r)
  BY <1>0, <1>1 DEF SearchSimilarCases
<1> QED
  BY <1>2, <1>3, <1>4, <1>5, <1>6, <1>7, <1>8, <1>9, <1>10, <1>11, <1>12
     DEF View, AccountView, LibraryView, CaseView, ObservableView, Figures, FollowedView

(* A view that is done has answered with its last statement.               *)
Replying(r) ==
  /\ TenantIInv /\ FollowIInv /\ IsQuery(r) /\ call[r].op \in Followed /\ OnlyAnswers(r) /\ Done(r)'
LEMMA LastStatement ==
  ASSUME NEW r \in Requests, Replying(r), NEW op, NEW statements, Answer(r, op, statements)
  PROVE  \E R \in statements[Len(statements)] : LastOf(r)' = R
<1>1. answer[r] \in Seq(SUBSET Ids)
  <2>1. call[r].op \notin AnyOrganization \cap Anyhow
    BY DEF Replying, Followed, PollsFor, AnyOrganization, Anyhow
  <2> QED
    BY <2>1 DEF Replying, TenantIInv, AnswersAreProper, ProperAnswers, Scoped
<1>2. TypeOK
  BY DEF Replying, TenantIInv, IInv
<1>3. Len(answer[r]) + 1 = Len(statements)
  BY <1>2 DEF Answer, Replying, Done, TypeOK
<1>4. PICK R \in statements[Len(answer[r]) + 1] : answer' = [answer EXCEPT ![r] = Append(@, R)]
  BY DEF Answer
<1>5. answer'[r] = Append(answer[r], R)
  BY <1>2, <1>4 DEF TypeOK
<1>6. LastOf(r)' = R
  BY <1>1, <1>5 DEF LastOf
<1> QED
  BY <1>3, <1>4, <1>6
LEMMA AloneOrLast ==
  ASSUME NEW r \in Requests, Replying(r), NEW op, NEW S,
         \/ Answer(r, op, <<S>>)
         \/ \E T : Answer(r, op, <<T, S>>)
         \/ \E found : AnswerIf(r, op, found, <<S>>)
  PROVE  call[r].op = op /\ \E R \in S : LastOf(r)' = R
<1>1. call[r].op = op
  BY ViewsAreNamed
<1>2. CASE Answer(r, op, <<S>>)
  BY <1>1, <1>2, LastStatement
<1>3. ASSUME NEW T, Answer(r, op, <<T, S>>)
      PROVE  \E R \in S : LastOf(r)' = R
  <2>1. \E R \in <<T, S>>[Len(<<T, S>>)] : LastOf(r)' = R
    BY <1>3, LastStatement
  <2> QED
    BY <2>1
<1>4. ASSUME NEW found, AnswerIf(r, op, found, <<S>>)
      PROVE  \E R \in S : LastOf(r)' = R
  <2>1. ~Refuse(r, "404")
    BY DEF Replying, Refuse, Done, TenantIInv, IInv, TypeOK
  <2> DEFINE all == <<{found}>> \o <<S>>
  <2>2. Len(all) = 2 /\ all[2] = S
    <3>1. <<{found}>> \in Seq({{found}, S}) /\ <<S>> \in Seq({{found}, S})
      OBVIOUS
    <3> QED
      BY <3>1
  <2>3. Answer(r, op, all)
    BY <1>4, <2>1 DEF AnswerIf
  <2> HIDE DEF all
  <2> QED
    BY <2>2, <2>3, LastStatement
<1> QED
  BY <1>1, <1>2, <1>3, <1>4

(* What is known when one is done.                                         *)
LEMMA ReplyFacts ==
  ASSUME NEW r \in Requests, Replying(r)
  PROVE  /\ IInv /\ db' = db /\ call' = call /\ ended' = ended /\ seen'[r] = db /\ ~Done(r)
         /\ Stands /\ Rests
         /\ call[r].match \subseteq Ids /\ call[r].limit \in Nat /\ call[r].user \in Callers
         /\ call[r].since \in Requests \cup {Null} /\ Null \notin Requests
         /\ call[r].since # Null => Done(call[r].since)
<1>1. IInv /\ OnlyAnswers(r) /\ IsQuery(r)
  BY DEF Replying, TenantIInv
<1>2. Rests /\ Stands
  BY <1>1, StepsRest, RestsStand
<1>3. Replies(r)
  BY <1>1 DEF OnlyAnswers, Replying, Done
<1> QED
  BY <1>1, <1>2, <1>3, Question DEF OnlyAnswers, Replies, Done
(* A list that is not full has what is new.                                *)
LEMMA ListEnds ==
  ASSUME NEW r \in Requests, Replying(r), call[r].op \in DOMAIN PollsFor,
         NEW S, S \subseteq call[r].match, \A x \in S : db[x] # Null,
         \A x \in call[r].match : Shows(r, x)' => x \in S,
         NEW R, \/ R \in Polled(r, S)
                \/ R \in All(Since(r, S))
                \/ R \in Newest(Since(r, S), Created, call[r].limit),
         LastOf(r)' = R
  PROVE  Replied(r)'
<1> USE ReplyFacts
<1>1. S \subseteq Ids /\ IsFiniteSet(S) /\ Since(r, S) \subseteq S /\ IsFiniteSet(Since(r, S))
  <2>1. S \in SUBSET Ids /\ Since(r, S) \in SUBSET S
    BY DEF Since
  <2>2. IsFiniteSet(S)
    BY <2>1, IdsAreFinite, FS_Subset
  <2> QED
    BY <2>1, <2>2, FS_Subset
<1>2. R \subseteq S
  BY <1>1 DEF Polled, Some, All, Newest, Page
<1>3. Full(r)' \/ R = S \/ R = Since(r, S)
  <2> SUFFICES ASSUME ~Full(r)' PROVE R = S \/ R = Since(r, S)
    OBVIOUS
  <2>1. Cardinality(R) # call[r].limit
    BY DEF Full
  <2>2. CASE R \in Some(S, call[r].limit)
    BY <1>1, <2>1, <2>2, Whole
  <2>3. ASSUME NEW time, R \in Newest(Since(r, S), time, call[r].limit)
        PROVE  R = Since(r, S)
    BY <1>1, <2>1, <2>3, Whole
  <2>4. CASE R \in All(Since(r, S))
    BY <2>4 DEF All
  <2> QED
    BY <2>2, <2>3, <2>4 DEF Polled
<1>4. ASSUME NEW x \in S, x \notin Since(r, S)
      PROVE  Earlier(r, x)'
  <2>1. PICK p \in Requests : p = call[r].since /\ Done(p)
    BY <1>4 DEF Since, NoEarlier
  <2>2. \E y \in LastOf(p) : ~(db[x].at >= seen[p][y].at)
    BY <1>4, <2>1 DEF Since, NoEarlier
  <2>3. seen'[p] = seen[p] /\ (IsQuery(p) => answer'[p] = answer[p])
    BY <2>1 DEF Stands
  <2>4. IsQuery(p) => LastOf(p)' = LastOf(p)
    BY <2>3 DEF LastOf
  <2> QED
    BY <2>1, <2>2, <2>3, <2>4 DEF Earlier, IsQuery
<1>5. Lists(r)'
  BY <1>1, <1>2, <1>3, <1>4 DEF Lists
<1>6. Counts(r)' /\ Pages(r)'
  BY DEF Counts, Pages, PollsFor
<1> QED
  BY <1>5, <1>6 DEF Replied
LEMMA Matches ==
  ASSUME NEW r \in Requests, Replying(r), call[r].op \in DOMAIN PollsFor,
         NEW table, table = PollsFor[call[r].op]
  PROVE  LET id == call[r].id
         IN  /\ \A x \in call[r].match : Shows(r, x)' =>
                  /\ x \in Live(Own(r, table)) /\ x \in Own(r, table)
                  /\ call[r].op = "listPages" => x \in Under(Own(r, table), id)
             /\ \A S \in {Own(r, table), Live(Own(r, table)), Under(Own(r, table), id)} :
                  S \subseteq call[r].match /\ \A x \in S : db[x] # Null
<1>1. \A x \in call[r].match : Shows(r, x)' =>
        /\ db[x] # Null /\ db[x].table = table /\ db[x].org = call[r].org /\ ~db[x].gone
        /\ call[r].op = "listPages" => db[x].under = call[r].id
  BY ReplyFacts DEF Shows
<1> QED
  BY <1>1 DEF Live, Own, In, Under
LEMMA PollsEnd ==
  ASSUME NEW r \in Requests, Replying(r),
         \/ ListCases(r) \/ ExportCasesCsv(r) \/ ExportTasksCsv(r) \/ ListAllTasks(r)
         \/ ListAlerts(r) \/ ExportAlertsCsv(r) \/ ListObservables(r) \/ ExportObservablesCsv(r)
         \/ ListKbPages(r) \/ ListTemplates(r) \/ ListCasePages(r)
  PROVE  Replied(r)'
<1> DEFINE Ends(S, R) ==
      /\ \/ R \in Polled(r, S)
         \/ R \in All(Since(r, S))
         \/ R \in Newest(Since(r, S), Created, call[r].limit)
      /\ LastOf(r)' = R
<1>1. ASSUME call[r].op \in DOMAIN PollsFor, NEW table, table = PollsFor[call[r].op], NEW S,
             \/ S \in {Own(r, table), Live(Own(r, table))}
             \/ call[r].op = "listPages" /\ S = Under(Own(r, table), call[r].id),
             NEW R, Ends(S, R)
      PROVE  Replied(r)'
  BY <1>1, Matches, ListEnds
<1> HIDE DEF Ends
<1>2. CASE ListCases(r) \/ ExportCasesCsv(r)
  <2> DEFINE S == Live(Own(r, "case"))
  <2>1. /\ call[r].op \in {"listCases", "exportCases"}
        /\ \E R \in Polled(r, S) \cup All(Since(r, S)) : LastOf(r)' = R
    BY <1>2, AloneOrLast DEF ListCases, ExportCasesCsv
  <2>2. call[r].op \in DOMAIN PollsFor /\ PollsFor[call[r].op] = "case"
    BY <2>1 DEF PollsFor
  <2> QED
    BY <1>1, <2>1, <2>2 DEF Ends
<1>3. CASE ListAllTasks(r) \/ ExportTasksCsv(r)
  <2> DEFINE S == Own(r, "task")
  <2>1. /\ call[r].op \in {"allTasks", "exportTasks"}
        /\ \E R \in Polled(r, S) \cup All(Since(r, S)) : LastOf(r)' = R
    BY <1>3, AloneOrLast DEF ListAllTasks, ExportTasksCsv
  <2>2. call[r].op \in DOMAIN PollsFor /\ PollsFor[call[r].op] = "task"
    BY <2>1 DEF PollsFor
  <2> QED
    BY <1>1, <2>1, <2>2 DEF Ends
<1>4. CASE ListAlerts(r) \/ ExportAlertsCsv(r)
  <2> DEFINE S == Own(r, "alert")
  <2>1. /\ call[r].op \in {"listAlerts", "exportAlerts"}
        /\ \E R \in Polled(r, S) \cup All(Since(r, S)) : LastOf(r)' = R
    BY <1>4, AloneOrLast DEF ListAlerts, ExportAlertsCsv
  <2>2. call[r].op \in DOMAIN PollsFor /\ PollsFor[call[r].op] = "alert"
    BY <2>1 DEF PollsFor
  <2> QED
    BY <1>1, <2>1, <2>2 DEF Ends
<1>5. CASE ListObservables(r) \/ ExportObservablesCsv(r)
  <2> DEFINE S == Live(Own(r, "observable"))
  <2>1. /\ call[r].op \in {"listObservables", "exportObservables"}
        /\ \E R \in All(Since(r, S)) \cup Newest(Since(r, S), Created, call[r].limit) : LastOf(r)' = R
    BY <1>5, AloneOrLast DEF ListObservables, ExportObservablesCsv, OwnObservables
  <2>2. call[r].op \in DOMAIN PollsFor /\ PollsFor[call[r].op] = "observable"
    BY <2>1 DEF PollsFor
  <2> QED
    BY <1>1, <2>1, <2>2 DEF Ends
<1>6. CASE ListKbPages(r)
  <2> DEFINE S == Own(r, "kb")
  <2>1. call[r].op = "listKb" /\ \E R \in Polled(r, S) : LastOf(r)' = R
    BY <1>6, AloneOrLast DEF ListKbPages
  <2>2. call[r].op \in DOMAIN PollsFor /\ PollsFor[call[r].op] = "kb"
    BY <2>1 DEF PollsFor
  <2> QED
    BY <1>1, <2>1, <2>2 DEF Ends
<1>7. CASE ListTemplates(r)
  <2> DEFINE S == Own(r, "template")
  <2>1. call[r].op = "listTemplates" /\ \E R \in All(Since(r, S)) : LastOf(r)' = R
    BY <1>7, AloneOrLast DEF ListTemplates
  <2>2. call[r].op \in DOMAIN PollsFor /\ PollsFor[call[r].op] = "template"
    BY <2>1 DEF PollsFor
  <2> QED
    BY <1>1, <2>1, <2>2 DEF Ends
<1>8. CASE ListCasePages(r)
  <2> DEFINE S == Under(Own(r, "case_page"), call[r].id)
  <2>1. call[r].op = "listPages" /\ \E R \in All(Since(r, S)) : LastOf(r)' = R
    BY <1>8, AloneOrLast DEF ListCasePages
  <2>2. call[r].op \in DOMAIN PollsFor /\ PollsFor[call[r].op] = "case_page"
    BY <2>1 DEF PollsFor
  <2> QED
    BY <1>1, <2>1, <2>2 DEF Ends
<1> QED
  BY <1>2, <1>3, <1>4, <1>5, <1>6, <1>7, <1>8
(* A mention that is not unread is older than the last look at them.       *)
LEMMA MentionsEnd ==
  ASSUME NEW r \in Requests, Replying(r), ListMyMentions(r) \/ UnreadMentionCount(r)
  PROVE  Replied(r)'
<1> DEFINE u == call[r].user
<1>0. u \in Callers /\ u \in Ids
  BY ReplyFacts, OrgIds
<1>1. /\ call[r].op \in {"unreadCount", "listMentions"}
      /\ call[r].unread => \E R \in All(Unread(r)) \cup Newest(Unread(r), Created, call[r].limit) :
                             LastOf(r)' = R
  BY AloneOrLast DEF ListMyMentions, UnreadMentionCount
<1>2. call[r].unread => Full(r)' \/ LastOf(r)' = Unread(r)
  <2>1. IsFiniteSet(Unread(r))
    <3>1. Unread(r) \in SUBSET Ids
      BY ReplyFacts DEF Unread, Mentions, Under, Own, In
    <3> QED
      BY <3>1, IdsAreFinite, FS_Subset
  <2>2. ASSUME NEW R \in Newest(Unread(r), Created, call[r].limit), LastOf(r)' = R, ~Full(r)'
        PROVE  R = Unread(r)
    <3>1. Cardinality(R) # call[r].limit
      BY <2>2, ReplyFacts DEF Full
    <3> QED
      BY <2>1, <2>2, <3>1, ReplyFacts, Whole
  <2> QED
    BY <1>1, <2>2 DEF All
<1>3. ASSUME NEW x \in call[r].match, x \notin First, x \notin Unread(r), Mention(r, x)'
      PROVE  \E s \in Requests : Visits(s, u, 0)' /\ ended'[s] > began'[x[1]]
  <2>1. x \in Mentions(r) /\ db[x] # Null /\ x \in Ids
    BY <1>3, ReplyFacts DEF Mention, Mentions, Under, Own, In
  <2>2. ~(began[x[1]] > seen[r][u].at)
    BY <1>3, <2>1 DEF Unread, MadeAt
  <2>3. x[1] \in Requests /\ began'[x[1]] = began[x[1]] /\ began[x[1]] \in Nat
    <3>1. x[1] \in Requests /\ Known(x)
      BY <1>3, <2>1, ReplyFacts, KnownRows DEF Ids
    <3>2. Done(x[1])
      BY <1>3, <2>1, <3>1 DEF Known, Done, Ids
    <3> QED
      BY <3>1, <3>2, ReplyFacts DEF Stands, IInv, TypeOK
  <2>4. began[x[1]] >= Start /\ Start \in Nat \ {0}
    BY <1>3, <2>1, IdsAssumption DEF Replying, FollowIInv, Times
  <2>5. /\ seen[r][u] # Null /\ seen[r][u].at \in Nat
        /\ seen[r][u].at < Start \/ \E s \in Requests : Visits(s, u, seen[r][u].at)
    <3>1. seen[r][u] # Null /\ seen[r][u] \in Row
      BY <1>0 DEF Replying, FollowIInv, VisitsAreKept, Visited, WellRead
    <3> QED
      BY <1>0, <3>1 DEF Replying, FollowIInv, VisitsAreKept, Visited, Row
  <2>6. PICK s \in Requests : Visits(s, u, seen[r][u].at)
    BY <2>2, <2>3, <2>4, <2>5
  <2>7. ended[s] \in Nat /\ ended[s] # began[x[1]]
    BY <2>3, <2>4, ReplyFacts DEF Replying, FollowIInv, Times, IInv, TypeOK
  <2>8. ended[s] > began[x[1]]
    BY <2>2, <2>3, <2>5, <2>6, <2>7 DEF Visits
  <2>9. Visits(s, u, 0)'
    BY <2>6, <2>7, ReplyFacts DEF Visits, Stands
  <2> QED
    BY <2>3, <2>8, <2>9, ReplyFacts
<1>4. Counts(r)'
  BY <1>2, <1>3, ReplyFacts DEF Counts
<1>5. Lists(r)' /\ Pages(r)'
  BY <1>1, ReplyFacts DEF Lists, Pages, PollsFor
<1> QED
  BY <1>4, <1>5 DEF Replied
LEMMA AuditEnds ==
  ASSUME NEW r \in Requests, Replying(r), ListAudit(r)
  PROVE  Replied(r)'
<1>1. /\ call[r].op = "listAudit"
      /\ LastOf(r)' \in Page(Own(r, "audit"), Created, call[r].skip, call[r].limit)
  BY AloneOrLast DEF ListAudit
<1>2. Records(r)' = Own(r, "audit")
  BY ReplyFacts DEF Records, Record, Own, In
<1>3. \A x \in Ids : db[x] # Null => MadeAt(x)' = MadeAt(x)
  BY ReplyFacts, KnownRows, KnownStands
<1>4. MadeBy(r)' = Created
  BY <1>3, ReplyFacts DEF MadeBy, Created
<1>5. Pages(r)'
  BY <1>1, <1>2, <1>4, ReplyFacts DEF Pages
<1>6. Lists(r)' /\ Counts(r)'
  BY <1>1, ReplyFacts DEF Lists, Counts, PollsFor
<1> QED
  BY <1>5, <1>6 DEF Replied
LEMMA ViewKeepsFollow ==
  ASSUME TenantIInv, Past, FollowIInv, NEW r \in Requests,
         (View(r) /\ UNCHANGED indexerVars) \/ SearchSimilarCases(r)
  PROVE  FollowIInv'
<1>1. IInv /\ OnlyAnswers(r) /\ IInv'
  BY ViewKeeps DEF TenantIInv, OnlyAnswers
<1>2. ASSUME IsQuery(r), Done(r)'
      PROVE  Replied(r)'
  <2>1. CASE call[r].op \in Followed
    <3>1. Replying(r)
      BY <1>1, <1>2, <2>1 DEF Replying
    <3>2. FollowedView(r)
      <4>1. ~RefuseView(r)
        BY <1>1, <1>2 DEF RefuseView, Refuse, Done, IInv, TypeOK
      <4> QED
        BY <2>1, <4>1, OnlyFollowed
    <3> QED
      BY <3>1, <3>2, PollsEnd, MentionsEnd, AuditEnds DEF FollowedView
  <2>2. CASE call[r].op \notin Followed
    BY <1>1, <2>2 DEF Replied, Lists, Counts, Pages, Followed, PollsFor, OnlyAnswers
  <2> QED
    BY <2>1, <2>2
<1>3. \A q \in Requests \ {r} : Done(q)' <=> Done(q)
  BY <1>1 DEF OnlyAnswers, Done
<1>4. \A q \in Requests : ~Done(q) /\ Done(q)' /\ IsQuery(q) => Replied(q)'
  BY <1>2, <1>3
<1>5. Rests
  BY <1>1, StepsRest
<1> QED
  BY <1>1, <1>4, <1>5, RestsKeep

LEMMA FollowNext ==
  TenantIInv /\ OverwriteIInv /\ FollowIInv /\ [Next]_vars => FollowIInv'
<1> SUFFICES ASSUME TenantIInv, OverwriteIInv, FollowIInv, [Next]_vars PROVE FollowIInv'
  OBVIOUS
<1>1. IInv /\ IInv' /\ RowsStay /\ Past
  BY NextIInv DEF TenantIInv, OverwriteIInv
<1>2. ASSUME Rests, \A q \in Requests : Done(q)' /\ ~Done(q) => ~IsQuery(q)
      PROVE  FollowIInv'
  BY <1>1, <1>2, RestsKeep
<1>3. CASE UNCHANGED tableVars
  <2>1. Rests
    BY <1>1, <1>3 DEF tableVars, Rests, Undisturbed, OnTime, Done, IInv, TypeOK
  <2>2. \A q \in Requests : Done(q)' <=> Done(q)
    BY <1>3 DEF tableVars, Done
  <2> QED
    BY <1>2, <2>1, <2>2
<1>4. ASSUME NEW r \in Requests, Read(r), UNCHANGED indexerVars
      PROVE  FollowIInv'
  <2>1. Rests /\ Quiet(r)
    BY <1>1, <1>4, StepsRest, ReadKeeps DEF Keeps
  <2> QED
    BY <1>2, <2>1 DEF Quiet, Done
<1>5. ASSUME NEW r \in Requests, AccountStep(r) \/ LibraryStep(r), UNCHANGED indexerVars
      PROVE  FollowIInv'
  <2>1. Quiet(r)
    BY <1>1, <1>5, AccountKeeps, LibraryKeeps DEF Keeps
  <2>2. CASE Idle(r)
    <3>1. Rests
      BY <1>1, <2>1, <2>2, StepsRest
    <3> QED
      BY <1>2, <2>1, <3>1 DEF Quiet, Done
  <2>3. CASE Committed(r) /\ Effects(r)
    BY <1>1, <2>1, <2>3, CommitKeepsFollow DEF Commits, Quiet
  <2> QED
    BY <1>1, <1>5, <2>2, <2>3, EveryHandlerTells DEF Tells
<1>6. ASSUME NEW r \in Requests, (View(r) /\ UNCHANGED indexerVars) \/ SearchSimilarCases(r)
      PROVE  FollowIInv'
  BY <1>1, <1>6, ViewKeepsFollow
<1>7. (\E w \in Workers : Query(w) \/ Index(w) \/ LoseRound(w)) \/ Backfill => UNCHANGED tableVars
  BY DEF Query, Index, LoseRound, Backfill
<1>8. UNCHANGED vars => UNCHANGED tableVars
  BY DEF vars
<1> QED
  BY <1>3, <1>4, <1>5, <1>6, <1>7, <1>8 DEF Next

(* Who polls with the latest updated_at of their last answer misses a row  *)
(* only if its writer began before that updated_at and committed after     *)
(* that answer (cases.py:150-155); a mention is not counted as unread only *)
(* if a look at the mentions ended after its writer began                  *)
(* (mentions.py:101-110); and a record is on neither of two pages only if  *)
(* another is as old or it has two pages of records before it (audit.py).  *)
THEOREM Following == Spec => []NothingIsMissed
<1>1. BackOfficeInit => TenantIInv /\ OverwriteIInv /\ FollowIInv
  BY TenantInit, OverwriteInit, FollowInit
<1>2. TenantIInv /\ OverwriteIInv /\ FollowIInv /\ [Next]_vars =>
        TenantIInv' /\ OverwriteIInv' /\ FollowIInv'
  BY TenantNext, OverwriteNext, FollowNext DEF TenantIInv
<1>3. TenantIInv /\ FollowIInv => NothingIsMissed
  BY FollowIInvImplies DEF TenantIInv
<1> QED
  BY <1>1, <1>2, <1>3, PTL DEF Spec
=============================================================================
