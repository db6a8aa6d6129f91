--------------------------- MODULE CaseWorkProofs ---------------------------
(***************************************************************************)
(* Proofs about CaseWork, for any number of requests, cases, rows and      *)
(* users.  The first half is about CoreInv: what every write does to the   *)
(* rows and their references, then to deletions and shares, then what the  *)
(* requests that are still waiting found.  The second half is about        *)
(* Grounded and Explained: every step is calm or one commit (WriteSteps),  *)
(* whose effects on the rows are stated once (Effects), and each part of   *)
(* the invariant has a lemma for calm steps and one for commits.           *)
(***************************************************************************)
EXTENDS CaseWork, TLAPS, FiniteSetTheorems

-----------------------------------------------------------------------------
(* What the fields of a call are, by its op.                               *)
LEMMA CaseCallShape ==
  ASSUME NEW c \in Calls
  PROVE  /\ c.op = "patchCase" => c \in [op : {"patchCase"}, case : Cases,
              stage : Stages \cup {"same"}, date : {"same", "clear", "set"}, fits : BOOLEAN]
         /\ c.op = "bulkPatchCases" => c \in [op : {"bulkPatchCases"}, ids : SUBSET Cases,
              stage : Stages \cup {"same"}, date : {"same", "clear", "set"}, fits : BOOLEAN]
         /\ c.op = "deleteCase" => c \in [op : {"deleteCase"}, case : Cases]
  BY SMT DEF Calls

LEMMA TaskCallShape ==
  ASSUME NEW c \in Calls
  PROVE  /\ c.op = "createTask" =>
              c \in [op : {"createTask"}, case : Cases, index : Nat, fits : BOOLEAN]
         /\ c.op = "reorder" => c \in [op : {"reorder"}, case : Cases, list : Seq(TaskIds)]
         /\ c.op = "patchTask" =>
              c \in [op : {"patchTask"}, id : TaskIds, index : Nat, fits : BOOLEAN]
         /\ c.op = "bulkPatchTasks" =>
              c \in [op : {"bulkPatchTasks"}, ids : SUBSET TaskIds, index : Nat, fits : BOOLEAN]
         /\ c.op = "deleteTask" => c \in [op : {"deleteTask"}, id : TaskIds]
         /\ c.op = "addLog" => c \in [op : {"addLog"}, id : TaskIds, fits : BOOLEAN]
  BY SMT DEF Calls

LEMMA FileCallShape ==
  ASSUME NEW c \in Calls
  PROVE  /\ c.op = "registerFile" =>
              c \in [op : {"registerFile"}, case : Cases, key : Keys, quarantined : BOOLEAN,
                    fits : BOOLEAN]
         /\ c.op = "registerTaskFile" =>
              c \in [op : {"registerTaskFile"}, id : TaskIds, key : Keys, quarantined : BOOLEAN,
                    fits : BOOLEAN]
         /\ c.op \in {"verdict", "scan"} =>
              c \in [op : {"verdict", "scan"}, id : FileIds, av : Verdicts]
         /\ c.op = "verdictByKey" =>
              c \in [op : {"verdictByKey"}, key : Keys, av : Verdicts, fits : BOOLEAN]
         /\ c.op = "deleteFile" => c \in [op : {"deleteFile"}, id : FileIds]
  BY SMT DEF Calls

LEMMA ObservableCallShape ==
  ASSUME NEW c \in Calls
  PROVE  /\ c.op = "createObservable" =>
              /\ c \in [op : {"createObservable"}, value : Values, fits : BOOLEAN]
              /\ c.fits => Stored[c.value] = c.value
         /\ c.op = "import" =>
              c \in [op : {"import"}, case : Cases \cup {Null}, value : Values, fits : BOOLEAN]
         /\ c.op = "attach" => c \in [op : {"attach"}, case : Cases,
              ids : {S \in SUBSET ObsIds : IsFiniteSet(S)}]
         /\ c.op = "detach" => c \in [op : {"detach"}, case : Cases, id : ObsIds]
         /\ c.op = "deleteObservable" => c \in [op : {"deleteObservable"}, id : ObsIds]
  BY SMT DEF Calls

LEMMA TalkCallShape ==
  ASSUME NEW c \in Calls
  PROVE  /\ c.op \in {"comment", "portalComment"} =>
              c \in [op : {"comment", "portalComment"}, case : Cases, user : Users, fits : BOOLEAN]
         /\ c.op = "revoke" => c \in [op : {"revoke"}, case : Cases, user : Users]
         /\ c.op = "patchComment" =>
              c \in [op : {"patchComment"}, id : Requests, user : Users, fits : BOOLEAN]
         /\ c.op = "deleteComment" => c \in [op : {"deleteComment"}, id : Requests, user : Users]
         /\ c.op = "grant" => c \in [op : {"grant"}, case : Cases, user : Users, may : BOOLEAN]
         /\ c.op = "link" => c \in [op : {"link"}, case : Cases, id : Cases, fits : BOOLEAN]
         /\ c.op = "unlink" => c \in [op : {"unlink"}, id : Requests]
  BY SMT DEF Calls

(* A request that writes is a call.                                        *)
LEMMA WriterCalls ==
  ASSUME TypeOK, NEW r \in Requests, NEW op, op # "none", Of(r, op)
  PROVE  call[r] \in Calls /\ call[r].op = op
  BY DEF TypeOK, Of, Idle

-----------------------------------------------------------------------------
(* What each column of a database holds.                                  *)
LEMMA DatabaseColumns ==
  ASSUME NEW d \in Database
  PROVE  /\ d.gone \in SUBSET Cases
         /\ d.stage \in [Cases -> Stages]
         /\ d.date \in [Cases -> Requests \cup {Null}]
         /\ d.taskOf \in [TaskIds -> Cases \cup {Null}]
         /\ d.index \in [TaskIds -> Nat]
         /\ d.notes \in [TaskIds -> SUBSET Requests]
         /\ d.key \in [FileIds -> Keys \cup {Null}]
         /\ d.fileTask \in [FileIds -> TaskIds \cup {Null}]
         /\ d.av \in [FileIds -> Verdicts \cup {"pending"}]
         /\ d.quarantined \in [FileIds -> BOOLEAN]
         /\ d.value \in [ObsIds -> Values \cup {Null}]
         /\ d.place \in [ObsIds -> Cases \cup {Null}]
         /\ d.dropped \in SUBSET ObsIds
         /\ d.trail \in Seq([ids : SUBSET ObsIds, to : Cases \cup {Null}, by : Requests])
         /\ d.said \in [Requests -> Requests \cup {Null}]
         /\ d.share \in [Cases \X Users -> {"none", "active", "revoked"}]
         /\ d.mayComment \in SUBSET (Cases \X Users)
         /\ d.link \in [Cases \X Cases -> Requests \cup {Null}]
  BY DEF Database

(* A database with one column set to what the column may hold is a         *)
(* database: by this lemma and the next, no action's proof has to look     *)
(* into all columns at once.                                               *)
LEMMA DatabaseExcept ==
  ASSUME NEW d \in Database
  PROVE  /\ \A v \in SUBSET Cases : [d EXCEPT !.gone = v] \in Database
         /\ \A v \in [Cases -> Stages] : [d EXCEPT !.stage = v] \in Database
         /\ \A v \in [Cases -> Requests \cup {Null}] : [d EXCEPT !.date = v] \in Database
         /\ \A v \in [TaskIds -> Cases \cup {Null}] : [d EXCEPT !.taskOf = v] \in Database
         /\ \A v \in [TaskIds -> Nat] : [d EXCEPT !.index = v] \in Database
         /\ \A v \in [TaskIds -> SUBSET Requests] : [d EXCEPT !.notes = v] \in Database
         /\ \A v \in [FileIds -> Keys \cup {Null}] : [d EXCEPT !.key = v] \in Database
         /\ \A v \in [FileIds -> TaskIds \cup {Null}] : [d EXCEPT !.fileTask = v] \in Database
         /\ \A v \in [FileIds -> Verdicts \cup {"pending"}] : [d EXCEPT !.av = v] \in Database
         /\ \A v \in [FileIds -> BOOLEAN] : [d EXCEPT !.quarantined = v] \in Database
         /\ \A v \in [ObsIds -> Values \cup {Null}] : [d EXCEPT !.value = v] \in Database
         /\ \A v \in [ObsIds -> Cases \cup {Null}] : [d EXCEPT !.place = v] \in Database
         /\ \A v \in SUBSET ObsIds : [d EXCEPT !.dropped = v] \in Database
         /\ \A v \in Seq([ids : SUBSET ObsIds, to : Cases \cup {Null}, by : Requests]) :
              [d EXCEPT !.trail = v] \in Database
         /\ \A v \in [Requests -> Requests \cup {Null}] : [d EXCEPT !.said = v] \in Database
         /\ \A v \in [Cases \X Users -> {"none", "active", "revoked"}] :
              [d EXCEPT !.share = v] \in Database
         /\ \A v \in SUBSET (Cases \X Users) : [d EXCEPT !.mayComment = v] \in Database
         /\ \A v \in [Cases \X Cases -> Requests \cup {Null}] : [d EXCEPT !.link = v] \in Database
<1> DEFINE gone == SUBSET Cases
           stages == [Cases -> Stages]
           dates == [Cases -> Requests \cup {Null}]
           parents == [TaskIds -> Cases \cup {Null}]
           indexes == [TaskIds -> Nat]
           notes == [TaskIds -> SUBSET Requests]
           keys == [FileIds -> Keys \cup {Null}]
           tasks == [FileIds -> TaskIds \cup {Null}]
           verdicts == [FileIds -> Verdicts \cup {"pending"}]
           flags == [FileIds -> BOOLEAN]
           values == [ObsIds -> Values \cup {Null}]
           places == [ObsIds -> Cases \cup {Null}]
           dropped == SUBSET ObsIds
           trails == Seq([ids : SUBSET ObsIds, to : Cases \cup {Null}, by : Requests])
           words == [Requests -> Requests \cup {Null}]
           shares == [Cases \X Users -> {"none", "active", "revoked"}]
           guests == SUBSET (Cases \X Users)
           links == [Cases \X Cases -> Requests \cup {Null}]
<1>0. Database =
       [gone : gone, stage : stages, date : dates, taskOf : parents, index : indexes, notes : notes,
        key : keys, fileTask : tasks, av : verdicts, quarantined : flags, value : values,
        place : places, dropped : dropped, trail : trails, said : words, share : shares,
        mayComment : guests, link : links]
  BY DEF Database
<1> HIDE DEF gone, stages, dates, parents, indexes, notes, keys, tasks, verdicts, flags,
      values, places, dropped, trails, words, shares, guests, links
<1>1. \A v \in gone : [d EXCEPT !.gone = v] \in Database
  BY <1>0
<1>2. \A v \in stages : [d EXCEPT !.stage = v] \in Database
  BY <1>0
<1>3. \A v \in dates : [d EXCEPT !.date = v] \in Database
  BY <1>0
<1>4. \A v \in parents : [d EXCEPT !.taskOf = v] \in Database
  BY <1>0
<1>5. \A v \in indexes : [d EXCEPT !.index = v] \in Database
  BY <1>0
<1>6. \A v \in notes : [d EXCEPT !.notes = v] \in Database
  BY <1>0
<1>7. \A v \in keys : [d EXCEPT !.key = v] \in Database
  BY <1>0
<1>8. \A v \in tasks : [d EXCEPT !.fileTask = v] \in Database
  BY <1>0
<1>9. \A v \in verdicts : [d EXCEPT !.av = v] \in Database
  BY <1>0
<1>10. \A v \in flags : [d EXCEPT !.quarantined = v] \in Database
  BY <1>0
<1>11. \A v \in values : [d EXCEPT !.value = v] \in Database
  BY <1>0
<1>12. \A v \in places : [d EXCEPT !.place = v] \in Database
  BY <1>0
<1>13. \A v \in dropped : [d EXCEPT !.dropped = v] \in Database
  BY <1>0
<1>14. \A v \in trails : [d EXCEPT !.trail = v] \in Database
  BY <1>0
<1>15. \A v \in words : [d EXCEPT !.said = v] \in Database
  BY <1>0
<1>16. \A v \in shares : [d EXCEPT !.share = v] \in Database
  BY <1>0
<1>17. \A v \in guests : [d EXCEPT !.mayComment = v] \in Database
  BY <1>0
<1>18. \A v \in links : [d EXCEPT !.link = v] \in Database
  BY <1>0
<1> QED
  BY <1>1, <1>2, <1>3, <1>4, <1>5, <1>6, <1>7, <1>8, <1>9, <1>10, <1>11, <1>12, <1>13,
     <1>14, <1>15, <1>16, <1>17, <1>18 DEF gone, stages, dates, parents, indexes, notes,
     keys, tasks, verdicts, flags, values, places, dropped, trails, words, shares, guests,
     links

(* The same for one cell of a column.                                      *)
LEMMA DatabaseCell ==
  ASSUME NEW d \in Database
  PROVE  /\ \A x \in TaskIds, v \in Cases \cup {Null} : [d EXCEPT !.taskOf[x] = v] \in Database
         /\ \A x \in TaskIds, v \in Nat : [d EXCEPT !.index[x] = v] \in Database
         /\ \A x \in TaskIds, v \in SUBSET Requests : [d EXCEPT !.notes[x] = v] \in Database
         /\ \A x \in FileIds, v \in Keys \cup {Null} : [d EXCEPT !.key[x] = v] \in Database
         /\ \A x \in FileIds, v \in TaskIds \cup {Null} : [d EXCEPT !.fileTask[x] = v] \in Database
         /\ \A x \in FileIds, v \in BOOLEAN : [d EXCEPT !.quarantined[x] = v] \in Database
         /\ \A x \in ObsIds, v \in Values \cup {Null} : [d EXCEPT !.value[x] = v] \in Database
         /\ \A x \in ObsIds, v \in Cases \cup {Null} : [d EXCEPT !.place[x] = v] \in Database
         /\ \A x \in Requests, v \in Requests \cup {Null} : [d EXCEPT !.said[x] = v] \in Database
         /\ \A x \in Cases \X Users, v \in {"none", "active", "revoked"} :
              [d EXCEPT !.share[x] = v] \in Database
         /\ \A x \in Cases \X Cases, v \in Requests \cup {Null} :
              [d EXCEPT !.link[x] = v] \in Database
<1>1. \A x \in TaskIds, v \in Cases \cup {Null} :
        [d.taskOf EXCEPT ![x] = v] \in [TaskIds -> Cases \cup {Null}]
  BY DatabaseColumns
<1>2. \A x \in TaskIds, v \in Nat : [d.index EXCEPT ![x] = v] \in [TaskIds -> Nat]
  BY DatabaseColumns
<1>3. \A x \in TaskIds, v \in SUBSET Requests :
        [d.notes EXCEPT ![x] = v] \in [TaskIds -> SUBSET Requests]
  BY DatabaseColumns
<1>4. \A x \in FileIds, v \in Keys \cup {Null} :
        [d.key EXCEPT ![x] = v] \in [FileIds -> Keys \cup {Null}]
  BY DatabaseColumns
<1>5. \A x \in FileIds, v \in TaskIds \cup {Null} :
        [d.fileTask EXCEPT ![x] = v] \in [FileIds -> TaskIds \cup {Null}]
  BY DatabaseColumns
<1>6. \A x \in FileIds, v \in BOOLEAN : [d.quarantined EXCEPT ![x] = v] \in [FileIds -> BOOLEAN]
  BY DatabaseColumns
<1>7. \A x \in ObsIds, v \in Values \cup {Null} :
        [d.value EXCEPT ![x] = v] \in [ObsIds -> Values \cup {Null}]
  BY DatabaseColumns
<1>8. \A x \in ObsIds, v \in Cases \cup {Null} :
        [d.place EXCEPT ![x] = v] \in [ObsIds -> Cases \cup {Null}]
  BY DatabaseColumns
<1>9. \A x \in Requests, v \in Requests \cup {Null} :
        [d.said EXCEPT ![x] = v] \in [Requests -> Requests \cup {Null}]
  BY DatabaseColumns
<1>10. \A x \in Cases \X Users, v \in {"none", "active", "revoked"} :
        [d.share EXCEPT ![x] = v] \in [Cases \X Users -> {"none", "active", "revoked"}]
  BY DatabaseColumns
<1>11. \A x \in Cases \X Cases, v \in Requests \cup {Null} :
        [d.link EXCEPT ![x] = v] \in [Cases \X Cases -> Requests \cup {Null}]
  BY DatabaseColumns
<1> QED
  BY <1>1, <1>2, <1>3, <1>4, <1>5, <1>6, <1>7, <1>8, <1>9, <1>10, <1>11, DatabaseExcept

-----------------------------------------------------------------------------
(* What a write may do to keep the invariant, whatever it is.              *)
LEMMA CommitKeeps ==
  ASSUME RowsInv, NEW r \in Requests, NEW rows \in Database, Referenced(rows), Commit(r, rows)
  PROVE  RowsInv'
<1>1. TypeOK'
  BY DEF RowsInv, TypeOK, Commit, Answer, Codes
<1>2. QED
  BY <1>1 DEF RowsInv, ReferencesHold, Referenced, Commit
LEMMA RefuseKeeps ==
  ASSUME RowsInv, NEW r \in Requests, NEW code \in Codes, Refuse(r, code)
  PROVE  RowsInv'
<1>1. TypeOK'
  BY DEF RowsInv, TypeOK, Refuse, Answer
<1>2. QED
  BY <1>1 DEF RowsInv, ReferencesHold, Referenced, Refuse

(* An update keeps the type of a column.                                   *)
LEMMA UpdatedType ==
  ASSUME NEW S, NEW T, NEW f \in [S -> T], NEW old, NEW new, \A x \in DOMAIN new : new[x] \in T
  PROVE  Updated(f, old, new) \in [S -> T]
BY DEF Updated, Changed

LEMMA NullOut == Null \notin TaskIds /\ Null \notin Requests /\ Null \notin Cases
                   /\ Null \notin Keys /\ Null \notin Values
BY NamesAssumption DEF TaskIds

LEMMA FirstRowsType ==
  ASSUME NEW Q \in SUBSET Files
  PROVE  LET rows == FirstRows([f \in FileIds |-> f \in Q])
         IN  rows \in Database /\ Referenced(rows)
<1> DEFINE rows == FirstRows([f \in FileIds |-> f \in Q])
<1>1. rows \in Database
  BY FirstAssumption DEF FirstRows, Database, NoRows, Stages, Verdicts, TaskIds, FileIds, ObsIds
<1>2. Referenced(rows)
  BY DEF FirstRows, Referenced, NoRows
<1> QED
  BY <1>1, <1>2

LEMMA InitRows == Init => RowsInv
<1> SUFFICES ASSUME Init PROVE RowsInv
  OBVIOUS
<1>1. db \in Database /\ Referenced(db)
  BY FirstRowsType DEF Init
<1>2. TypeOK
  BY <1>1 DEF Init, TypeOK
<1> QED
  BY <1>1, <1>2 DEF RowsInv, ReferencesHold

(* Steps before the write change no row.                                   *)
LEMMA StepsKeep ==
  ASSUME RowsInv, NEW r \in Requests, Send(r) \/ CheckCase(r) \/ Read(r)
  PROVE  RowsInv'
<1>1. db' = db
  BY DEF Send, CheckCase, Read
<1>2. Len(log) \in Nat
  BY DEF RowsInv, TypeOK
<1>3. Wanted(call[r]) \in {"write"} \cup Codes
  BY DEF Wanted, Codes
<1>4. TypeOK'
  <2>1. CASE Send(r)
    <3>1. PICK c \in Calls :
            /\ call' = [call EXCEPT ![r] = c]
            /\ Answer(r, IF c.op \in UnderCase /\ c.case # Null THEN "check" ELSE "read")
      BY <2>1, TrafficAssumption DEF Send
    <3> QED
      BY <1>1, <2>1, <3>1 DEF RowsInv, TypeOK, Send, Answer
  <2>2. CASE CheckCase(r)
    BY <1>1, <1>2, <2>2 DEF RowsInv, TypeOK, CheckCase, Answer, Codes
  <2>3. CASE Read(r)
    BY <1>1, <1>2, <1>3, <2>3 DEF RowsInv, TypeOK, Read, Answer
  <2> QED
    BY <2>1, <2>2, <2>3
<1> QED
  BY <1>1, <1>4 DEF RowsInv, ReferencesHold, Referenced

-----------------------------------------------------------------------------
LEMMA CaseCallKeeps ==
  ASSUME RowsInv, NEW r \in Requests, CaseCall(r)
  PROVE  RowsInv'
<1> USE DEF RowsInv
<1>1. ASSUME NEW S \in SUBSET Cases, Patch(r, S),
             call[r].stage \in Stages \cup {"same"}, call[r].date \in {"same", "clear", "set"}
      PROVE  RowsInv'
  <2> DEFINE rows == [db EXCEPT !.stage = Updated(@, seen[r].stage, NewStage(call[r], S)),
                                !.date = Updated(@, seen[r].date, NewDate(r, S))]
  <2>1. \A x \in DOMAIN NewStage(call[r], S) : NewStage(call[r], S)[x] \in Stages
    BY <1>1 DEF NewStage
  <2>2. \A x \in DOMAIN NewDate(r, S) : NewDate(r, S)[x] \in Requests \cup {Null}
    BY <1>1 DEF NewDate
  <2>3. /\ Updated(db.stage, seen[r].stage, NewStage(call[r], S)) \in [Cases -> Stages]
        /\ Updated(db.date, seen[r].date, NewDate(r, S)) \in [Cases -> Requests \cup {Null}]
    BY <2>1, <2>2, UpdatedType DEF TypeOK, Database
  <2>4. rows \in Database
    BY <2>3, DatabaseExcept DEF TypeOK
  <2>5. Referenced(rows)
    BY DEF ReferencesHold, Referenced, TypeOK, Database
  <2> QED
    BY <1>1, <2>4, <2>5, CommitKeeps DEF Patch
<1>2. CASE PatchCase(r)
  <2>1. call[r] \in Calls /\ call[r].op = "patchCase"
    BY <1>2, WriterCalls DEF PatchCase
  <2> QED
    BY <1>1, <1>2, <2>1, CaseCallShape DEF PatchCase
<1>3. CASE BulkPatchCases(r)
  <2>1. call[r] \in Calls /\ call[r].op = "bulkPatchCases"
    BY <1>3, WriterCalls DEF BulkPatchCases
  <2>2. call[r].ids \ seen[r].gone \in SUBSET Cases
    BY <2>1, CaseCallShape
  <2> QED
    BY <1>1, <1>3, <2>1, <2>2, CaseCallShape DEF BulkPatchCases
<1>4. CASE DeleteCase(r)
  <2> DEFINE rows == [db EXCEPT !.gone = @ \cup {call[r].case}]
  <2>1. call[r] \in Calls /\ call[r].op = "deleteCase"
    BY <1>4, WriterCalls DEF DeleteCase
  <2>4. call[r].case \in Cases
    BY <2>1, CaseCallShape
  <2>2. rows \in Database
    <3>1. db \in Database /\ db.gone \cup {call[r].case} \in SUBSET Cases
      BY <2>4, DatabaseColumns DEF TypeOK
    <3> QED
      BY <3>1, DatabaseExcept
  <2>3. Referenced(rows)
    BY DEF ReferencesHold, Referenced, TypeOK, Database
  <2> QED
    BY <1>4, <2>2, <2>3, CommitKeeps DEF DeleteCase
<1> QED
  BY <1>2, <1>3, <1>4 DEF CaseCall

LEMMA ReindexKeeps ==
  ASSUME RowsInv, NEW r \in Requests, NEW new, \A t \in DOMAIN new : new[t] \in Nat, Reindex(r, new)
  PROVE  RowsInv'
<1> USE DEF RowsInv
<1> DEFINE rows == [db EXCEPT !.index = Updated(@, seen[r].index, new)]
<1>1. Updated(db.index, seen[r].index, new) \in [TaskIds -> Nat]
  BY UpdatedType DEF TypeOK, Database
<1>2. rows \in Database
  BY <1>1, DatabaseExcept DEF TypeOK
<1>3. Referenced(rows)
  BY DEF ReferencesHold, Referenced, TypeOK, Database
<1>4. Commit(r, rows) \/ Refuse(r, "500")
  BY DEF Reindex, Batch
<1> QED
  BY <1>2, <1>3, <1>4, CommitKeeps, RefuseKeeps DEF Codes

LEMMA TaskCallKeeps ==
  ASSUME RowsInv, NEW r \in Requests, TaskCall(r)
  PROVE  RowsInv'
<1> USE DEF RowsInv
<1>1. CASE CreateTask(r)
  <2> DEFINE rows == [db EXCEPT !.taskOf[r] = call[r].case, !.index[r] = call[r].index]
  <2>1. call[r] \in Calls /\ call[r].op = "createTask"
    BY <1>1, WriterCalls DEF CreateTask
  <2>2. call[r].case \in Cases /\ call[r].index \in Nat
    BY <2>1, TaskCallShape
  <2>3. rows \in Database
    BY <2>2, DatabaseCell DEF TypeOK, TaskIds
  <2>4. Referenced(rows)
    <3>1. /\ rows.taskOf = [db.taskOf EXCEPT ![r] = call[r].case]
          /\ rows.notes = db.notes /\ rows.fileTask = db.fileTask
      BY DEF TypeOK, Database
    <3>2. /\ db.taskOf \in [TaskIds -> Cases \cup {Null}]
          /\ db.fileTask \in [FileIds -> TaskIds \cup {Null}]
      BY DatabaseColumns DEF TypeOK
    <3> HIDE DEF rows
    <3> QED
      BY <2>2, <3>1, <3>2, NullOut DEF ReferencesHold, Referenced
  <2> QED
    BY <1>1, <2>3, <2>4, CommitKeeps DEF CreateTask
<1>2. CASE ReorderTasks(r)
  <2> DEFINE S == {t \in Range(call[r].list) : seen[r].taskOf[t] = call[r].case}
  <2>1. PICK position \in [S -> 0..Len(call[r].list) - 1] : Reindex(r, position)
    BY <1>2 DEF ReorderTasks
  <2>2. \A t \in DOMAIN position : position[t] \in Nat
    BY <2>1
  <2> QED
    BY <2>1, <2>2, ReindexKeeps
<1>3. CASE PatchTask(r)
  <2>1. call[r].index \in Nat
    BY <1>3, WriterCalls, TaskCallShape DEF PatchTask
  <2>2. \A t \in {call[r].id} : [u \in {call[r].id} |-> call[r].index][t] \in Nat
    BY <2>1
  <2> QED
    BY <1>3, <2>2, ReindexKeeps DEF PatchTask
<1>4. CASE BulkPatchTasks(r)
  <2> DEFINE S == FoundTasks(r)
  <2>1. call[r].index \in Nat
    BY <1>4, WriterCalls, TaskCallShape DEF BulkPatchTasks
  <2>2. \A t \in S : [u \in S |-> call[r].index][t] \in Nat
    BY <2>1
  <2>3. Reindex(r, [u \in S |-> call[r].index])
    BY <1>4 DEF BulkPatchTasks
  <2> HIDE DEF S
  <2> QED
    BY <2>2, <2>3, ReindexKeeps
<1>5. CASE DeleteTask(r)
  <2> DEFINE rows == [db EXCEPT !.taskOf[call[r].id] = Null]
  <2>1. call[r].id \in TaskIds
    BY <1>5, WriterCalls, TaskCallShape DEF DeleteTask
  <2>2. CASE Unreferenced(call[r].id)
    <3>1. rows \in Database
      BY <2>1, DatabaseCell DEF TypeOK
    <3>2. Referenced(rows)
      BY <2>1, <2>2 DEF ReferencesHold, Referenced, Unreferenced, TypeOK, Database
    <3> QED
      BY <1>5, <2>2, <3>1, <3>2, CommitKeeps DEF DeleteTask
  <2>3. CASE ~Unreferenced(call[r].id)
    BY <1>5, <2>3, RefuseKeeps DEF DeleteTask, Codes
  <2> QED
    BY <2>2, <2>3
<1>6. CASE AddTaskLog(r)
  <2> DEFINE rows == [db EXCEPT !.notes[call[r].id] = @ \cup {r}]
  <2>1. call[r].id \in TaskIds
    BY <1>6, WriterCalls, TaskCallShape DEF AddTaskLog
  <2>2. CASE db.taskOf[call[r].id] # Null
    <3>3. db.notes[call[r].id] \cup {r} \in SUBSET Requests
      BY <2>1 DEF TypeOK, Database
    <3>1. rows \in Database
      BY <2>1, <3>3, DatabaseCell DEF TypeOK
    <3>2. Referenced(rows)
      BY <2>1, <2>2 DEF ReferencesHold, Referenced, TypeOK, Database
    <3> QED
      BY <1>6, <2>2, <3>1, <3>2, CommitKeeps DEF AddTaskLog
  <2>3. CASE db.taskOf[call[r].id] = Null
    BY <1>6, <2>3, RefuseKeeps DEF AddTaskLog, Codes
  <2> QED
    BY <2>2, <2>3
<1> QED
  BY <1>1, <1>2, <1>3, <1>4, <1>5, <1>6 DEF TaskCall

-----------------------------------------------------------------------------
LEMMA RegisteredKeeps ==
  ASSUME RowsInv, NEW r \in Requests, NEW t \in TaskIds \cup {Null},
         t # Null => db.taskOf[t] # Null,
         call[r].key \in Keys, call[r].quarantined \in BOOLEAN,
         Commit(r, Registered(r, t))
  PROVE  RowsInv'
<1> USE DEF RowsInv
<1>1. Registered(r, t) \in Database
  BY DatabaseCell DEF Registered, TypeOK, FileIds
<1>2. Referenced(Registered(r, t))
  BY DEF Registered, ReferencesHold, Referenced, TypeOK, Database, FileIds
<1> QED
  BY <1>1, <1>2, CommitKeeps

LEMMA JudgeKeeps ==
  ASSUME RowsInv, NEW r \in Requests, NEW f \in FileIds, call[r].av \in Verdicts, Judge(r, f)
  PROVE  RowsInv'
<1> USE DEF RowsInv
<1> DEFINE status == [x \in {f} |-> call[r].av]
           rows == [db EXCEPT !.av = Updated(@, seen[r].av, status),
                              !.quarantined = Updated(@, seen[r].quarantined, Quarantine(r, f))]
<1>1. Updated(db.av, seen[r].av, status) \in [FileIds -> Verdicts \cup {"pending"}]
  <2>1. \A x \in DOMAIN status : status[x] \in Verdicts \cup {"pending"}
    OBVIOUS
  <2> QED
    BY <2>1, UpdatedType DEF TypeOK, Database
<1>2. Updated(db.quarantined, seen[r].quarantined, Quarantine(r, f)) \in [FileIds -> BOOLEAN]
  <2>1. \A x \in DOMAIN Quarantine(r, f) : Quarantine(r, f)[x] \in BOOLEAN
    <3>1. CASE call[r].av = "clean"
      BY <3>1 DEF Quarantine
    <3>2. CASE call[r].av = "infected" /\ call[r].op # "scan"
      BY <3>2 DEF Quarantine
    <3>3. CASE ~(call[r].av = "clean") /\ ~(call[r].av = "infected" /\ call[r].op # "scan")
      <4>1. Quarantine(r, f) = <<>>
        BY <3>3 DEF Quarantine
      <4> QED
        BY <4>1
    <3> QED
      BY <3>1, <3>2, <3>3
  <2> QED
    BY <2>1, UpdatedType DEF TypeOK, Database
<1>3. rows \in Database
  BY <1>1, <1>2, DatabaseExcept DEF TypeOK
<1>4. Referenced(rows)
  BY DEF ReferencesHold, Referenced, TypeOK, Database
<1>5. Commit(r, rows) \/ Refuse(r, "500")
  BY DEF Judge, Batch
<1> QED
  BY <1>3, <1>4, <1>5, CommitKeeps, RefuseKeeps DEF Codes

LEMMA FileCallKeeps ==
  ASSUME RowsInv, NEW r \in Requests, FileCall(r)
  PROVE  RowsInv'
<1> USE DEF RowsInv
<1>1. CASE RegisterCaseAttachment(r)
  <2>1. call[r].key \in Keys /\ call[r].quarantined \in BOOLEAN
    BY <1>1, WriterCalls, FileCallShape DEF RegisterCaseAttachment
  <2> QED
    BY <1>1, <2>1, RegisteredKeeps DEF RegisterCaseAttachment
<1>2. CASE RegisterTaskAttachment(r)
  <2>1. call[r].key \in Keys /\ call[r].quarantined \in BOOLEAN /\ call[r].id \in TaskIds
    BY <1>2, WriterCalls, FileCallShape DEF RegisterTaskAttachment
  <2> QED
    BY <1>2, <2>1, RegisteredKeeps, RefuseKeeps DEF RegisterTaskAttachment, Codes
<1>3. CASE AvScanWebhook(r)
  <2>1. call[r] \in Calls /\ call[r].op \in {"verdict", "verdictByKey"}
    BY <1>3, WriterCalls DEF AvScanWebhook
  <2>2. call[r].av \in Verdicts /\ (call[r].op = "verdict" => call[r].id \in FileIds)
    BY <2>1, FileCallShape
  <2>3. PICK f \in FileIds : Judge(r, f)
    BY <1>3, <2>2 DEF AvScanWebhook, Of
  <2> QED
    BY <2>2, <2>3, JudgeKeeps
<1>4. CASE SetAvScan(r)
  <2>1. call[r].av \in Verdicts /\ call[r].id \in FileIds
    BY <1>4, WriterCalls, FileCallShape DEF SetAvScan
  <2> QED
    BY <1>4, <2>1, JudgeKeeps DEF SetAvScan
<1>5. CASE DeleteAttachment(r)
  <2> DEFINE rows == [db EXCEPT !.key[call[r].id] = Null, !.fileTask[call[r].id] = Null]
  <2>1. call[r].id \in FileIds
    BY <1>5, WriterCalls, FileCallShape DEF DeleteAttachment
  <2>2. rows \in Database
    BY <2>1, DatabaseCell DEF TypeOK
  <2>3. Referenced(rows)
    BY <2>1 DEF ReferencesHold, Referenced, TypeOK, Database
  <2> QED
    BY <1>5, <2>2, <2>3, CommitKeeps DEF DeleteAttachment
<1> QED
  BY <1>1, <1>2, <1>3, <1>4, <1>5 DEF FileCall

-----------------------------------------------------------------------------
LEMMA AuditedParts == ASSUME NEW S, NEW T \in Audited(S) PROVE T \subseteq S
BY DEF Audited

LEMMA AppendType == ASSUME NEW R, NEW s \in Seq(R), NEW x \in R PROVE Append(s, x) \in Seq(R)
OBVIOUS

LEMMA MoveKeeps ==
  ASSUME RowsInv, NEW r \in Requests, NEW S \in SUBSET ObsIds, NEW to \in Cases \cup {Null},
         Move(r, S, to)
  PROVE  RowsInv'
<1> USE DEF RowsInv
<1>1. PICK T \in Audited(S) :
        Commit(r, [db EXCEPT !.place = Updated(@, seen[r].place, [o \in S |-> to]),
                             !.trail = Append(@, Moved(r, T, to))])
  BY DEF Move
<1> DEFINE rows == [db EXCEPT !.place = Updated(@, seen[r].place, [o \in S |-> to]),
                              !.trail = Append(@, Moved(r, T, to))]
<1>2. Moved(r, T, to) \in [ids : SUBSET ObsIds, to : Cases \cup {Null}, by : Requests]
  BY AuditedParts DEF Moved
<1>3. Updated(db.place, seen[r].place, [o \in S |-> to]) \in [ObsIds -> Cases \cup {Null}]
  <2>1. \A x \in DOMAIN [o \in S |-> to] : [o \in S |-> to][x] \in Cases \cup {Null}
    OBVIOUS
  <2> QED
    BY <2>1, UpdatedType DEF TypeOK, Database
<1>4. Append(db.trail, Moved(r, T, to))
        \in Seq([ids : SUBSET ObsIds, to : Cases \cup {Null}, by : Requests])
  BY <1>2 DEF TypeOK, Database
<1>5. rows \in Database
  BY <1>3, <1>4, DatabaseExcept DEF TypeOK
<1>6. Referenced(rows)
  BY DEF ReferencesHold, Referenced, TypeOK, Database
<1> QED
  BY <1>1, <1>5, <1>6, CommitKeeps

LEMMA ObservableCallKeeps ==
  ASSUME RowsInv, NEW r \in Requests, ObservableCall(r)
  PROVE  RowsInv'
<1> USE DEF RowsInv
<1>0. Referenced(db) /\ db \in Database
  BY DEF ReferencesHold, TypeOK
<1>1. CASE CreateObservable(r)
  <2> DEFINE rows == [db EXCEPT !.value[r] = call[r].value]
  <2>1. call[r].value \in Values
    BY <1>1, WriterCalls, ObservableCallShape DEF CreateObservable
  <2>2. rows \in Database
    BY <2>1, DatabaseCell DEF TypeOK, ObsIds
  <2>3. Referenced(rows)
    BY DEF ReferencesHold, Referenced, TypeOK, Database
  <2> QED
    BY <1>1, <2>2, <2>3, CommitKeeps DEF CreateObservable
<1>2. CASE ImportObservables(r)
  <2> DEFINE rows == [db EXCEPT !.value[r] = Stored[call[r].value], !.place[r] = call[r].case,
                                !.trail = Append(@, Moved(r, {r}, call[r].case))]
  <2>1. Stored[call[r].value] \in Values /\ call[r].case \in Cases \cup {Null}
    BY <1>2, WriterCalls, ObservableCallShape, StoredAssumption DEF ImportObservables
  <2>2. Moved(r, {r}, call[r].case)
          \in [ids : SUBSET ObsIds, to : Cases \cup {Null}, by : Requests]
    BY <2>1 DEF Moved, ObsIds
  <2>7. db.trail \in Seq([ids : SUBSET ObsIds, to : Cases \cup {Null}, by : Requests])
    BY DEF TypeOK, Database
  <2>3. Append(db.trail, Moved(r, {r}, call[r].case))
          \in Seq([ids : SUBSET ObsIds, to : Cases \cup {Null}, by : Requests])
    BY <2>2, <2>7, AppendType
  <2>4. rows \in Database
    BY <2>1, <2>3, DatabaseCell, DatabaseExcept DEF TypeOK, ObsIds
  <2>5. Referenced(rows)
    BY DEF ReferencesHold, Referenced, TypeOK, Database
  <2>6. Commit(r, db) \/ Commit(r, rows)
    BY <1>2 DEF ImportObservables
  <2> QED
    BY <1>0, <2>4, <2>5, <2>6, CommitKeeps
<1>3. CASE AttachObservables(r)
  <2> DEFINE S == {o \in call[r].ids \ seen[r].dropped :
                     seen[r].value[o] # Null /\ seen[r].place[o] # call[r].case}
  <2>1. call[r].ids \in SUBSET ObsIds /\ call[r].case \in Cases
    BY <1>3, WriterCalls, ObservableCallShape DEF AttachObservables
  <2>2. S \in SUBSET ObsIds
    BY <2>1
  <2>3. Commit(r, db) \/ Move(r, S, call[r].case)
    BY <1>3 DEF AttachObservables
  <2> HIDE DEF S
  <2> QED
    BY <1>0, <2>1, <2>2, <2>3, CommitKeeps, MoveKeeps
<1>4. CASE DetachObservable(r)
  <2>1. {call[r].id} \in SUBSET ObsIds
    BY <1>4, WriterCalls, ObservableCallShape DEF DetachObservable
  <2> QED
    BY <1>4, <2>1, MoveKeeps DEF DetachObservable
<1>5. CASE DeleteObservable(r)
  <2> DEFINE rows == [db EXCEPT !.dropped = @ \cup {call[r].id}]
  <2>1. call[r].id \in ObsIds
    BY <1>5, WriterCalls, ObservableCallShape DEF DeleteObservable
  <2>2. rows \in Database
    <3>1. db \in Database /\ db.dropped \cup {call[r].id} \in SUBSET ObsIds
      BY <2>1, DatabaseColumns DEF TypeOK
    <3> QED
      BY <3>1, DatabaseExcept
  <2>3. Referenced(rows)
    BY DEF ReferencesHold, Referenced, TypeOK, Database
  <2> QED
    BY <1>5, <2>2, <2>3, CommitKeeps DEF DeleteObservable
<1> QED
  BY <1>1, <1>2, <1>3, <1>4, <1>5 DEF ObservableCall

-----------------------------------------------------------------------------
LEMMA SaidKeeps ==
  ASSUME RowsInv, NEW r \in Requests, NEW c \in Requests, NEW by \in Requests \cup {Null},
         Commit(r, [db EXCEPT !.said[c] = by])
  PROVE  RowsInv'
<1> USE DEF RowsInv
<1>1. [db EXCEPT !.said[c] = by] \in Database
  BY DatabaseCell DEF TypeOK
<1>2. Referenced([db EXCEPT !.said[c] = by])
  BY DEF ReferencesHold, Referenced, TypeOK, Database
<1> QED
  BY <1>1, <1>2, CommitKeeps

LEMMA TalkCallKeeps ==
  ASSUME RowsInv, NEW r \in Requests, TalkCall(r)
  PROVE  RowsInv'
<1> USE DEF RowsInv
<1>1. CASE CreateComment(r)
  BY <1>1, SaidKeeps DEF CreateComment
<1>2. CASE PatchComment(r)
  <2>1. call[r].id \in Requests
    BY <1>2, WriterCalls, TalkCallShape DEF PatchComment
  <2> QED
    BY <1>2, <2>1, SaidKeeps, RefuseKeeps DEF PatchComment, Codes
<1>3. CASE DeleteComment(r)
  <2>1. call[r].id \in Requests
    BY <1>3, WriterCalls, TalkCallShape DEF DeleteComment
  <2> QED
    BY <1>3, <2>1, SaidKeeps DEF DeleteComment
<1>4. CASE CreateLink(r)
  <2> DEFINE p == <<call[r].case, call[r].id>>
             rows == [db EXCEPT !.link[p] = r]
  <2>1. p \in Cases \X Cases
    BY <1>4, WriterCalls, TalkCallShape DEF CreateLink
  <2>2. rows \in Database
    BY <2>1, DatabaseCell DEF TypeOK
  <2>3. Referenced(rows)
    BY DEF ReferencesHold, Referenced, TypeOK, Database
  <2>4. Commit(r, rows) \/ Refuse(r, "409")
    BY <1>4 DEF CreateLink
  <2> QED
    BY <2>2, <2>3, <2>4, CommitKeeps, RefuseKeeps DEF Codes
<1>5. CASE DeleteLink(r)
  <2> DEFINE links == [p \in Cases \X Cases |-> IF db.link[p] = call[r].id THEN Null ELSE db.link[p]]
             rows == [db EXCEPT !.link = links]
  <2>1. links \in [Cases \X Cases -> Requests \cup {Null}]
    BY DEF TypeOK, Database
  <2>2. rows \in Database
    BY <2>1, DatabaseExcept DEF TypeOK
  <2>3. Referenced(rows)
    BY DEF ReferencesHold, Referenced, TypeOK, Database
  <2> QED
    BY <1>5, <2>2, <2>3, CommitKeeps DEF DeleteLink
<1>6. CASE GrantShare(r)
  <2> DEFINE s == <<call[r].case, call[r].user>>
             commenters == IF call[r].may THEN db.mayComment \cup {s} ELSE db.mayComment
             rows == [db EXCEPT !.share[s] = "active", !.mayComment = commenters]
  <2>1. s \in Cases \X Users
    BY <1>6, WriterCalls, TalkCallShape DEF GrantShare
  <2>2. commenters \in SUBSET (Cases \X Users)
    BY <2>1 DEF TypeOK, Database
  <2>3. rows \in Database
    <3> HIDE DEF commenters
    <3> QED
      BY <2>1, <2>2, DatabaseCell, DatabaseExcept DEF TypeOK
  <2>4. Referenced(rows)
    BY DEF ReferencesHold, Referenced, TypeOK, Database
  <2>5. Commit(r, rows) \/ Refuse(r, "409")
    BY <1>6 DEF GrantShare
  <2> QED
    BY <2>3, <2>4, <2>5, CommitKeeps, RefuseKeeps DEF Codes
<1>7. CASE RevokeShare(r)
  <2> DEFINE s == <<call[r].case, call[r].user>>
             rows == [db EXCEPT !.share[s] = "revoked"]
  <2>1. s \in Cases \X Users
    BY <1>7, WriterCalls, TalkCallShape DEF RevokeShare
  <2>2. rows \in Database
    BY <2>1, DatabaseCell DEF TypeOK
  <2>3. Referenced(rows)
    BY DEF ReferencesHold, Referenced, TypeOK, Database
  <2> QED
    BY <1>7, <2>2, <2>3, CommitKeeps DEF RevokeShare
<1> QED
  BY <1>1, <1>2, <1>3, <1>4, <1>5, <1>6, <1>7 DEF TalkCall

-----------------------------------------------------------------------------
LEMMA UnfitCallKeeps ==
  ASSUME RowsInv, NEW r \in Requests, UnfitCall(r)
  PROVE  RowsInv'
<1>1. Referenced(db) /\ db \in Database
  BY DEF RowsInv, ReferencesHold, TypeOK
<1>2. Refuse(r, "500") \/ Commit(r, db)
  BY DEF UnfitCall, RefusedBody, UnwrittenBody
<1> QED
  BY <1>1, <1>2, CommitKeeps, RefuseKeeps DEF Codes

LEMMA NextRows == RowsInv /\ [Next]_vars => RowsInv'
<1> SUFFICES ASSUME RowsInv, [Next]_vars PROVE RowsInv'
  OBVIOUS
<1>1. CASE UNCHANGED vars
  BY <1>1 DEF RowsInv, TypeOK, ReferencesHold, Referenced, vars
<1>2. ASSUME NEW r \in Requests,
             \/ Send(r) \/ CheckCase(r) \/ Read(r)
             \/ CaseCall(r) \/ TaskCall(r) \/ FileCall(r) \/ ObservableCall(r) \/ TalkCall(r)
             \/ UnfitCall(r)
      PROVE  RowsInv'
  BY <1>2, StepsKeep, CaseCallKeeps, TaskCallKeeps, FileCallKeeps, ObservableCallKeeps,
     TalkCallKeeps, UnfitCallKeeps
<1> QED
  BY <1>1, <1>2 DEF Next

-----------------------------------------------------------------------------
(* What a write does to deletions and shares.                              *)
Shows(r, rows) ==
  /\ db.gone \subseteq rows.gone
  /\ call[r].op = "deleteCase" => call[r].case \in rows.gone
  /\ \A s \in Cases \X Users : db.share[s] = "revoked" => rows.share[s] = "revoked"
  /\ call[r].op = "revoke" => rows.share[<<call[r].case, call[r].user>>] = "revoked"
  /\ \A s \in rows.mayComment : s \in db.mayComment \/
       (call[r].op = "grant" /\ call[r].may /\ s = <<call[r].case, call[r].user>>)
Elsewhere(r, rows) ==
  /\ call[r].op \notin {"deleteCase", "revoke"}
  /\ rows.gone = db.gone /\ rows.share = db.share /\ rows.mayComment = db.mayComment
Written(r) ==
  /\ pc[r] = "write"
  /\ \/ \E rows : Commit(r, rows) /\ Shows(r, rows)
     \/ \E code \in {"409", "500"} : Refuse(r, code)

LEMMA ElsewhereShows ==
  ASSUME NEW r, NEW rows, Elsewhere(r, rows) PROVE Shows(r, rows)
BY DEF Elsewhere, Shows

LEMMA CaseCallWrites ==
  ASSUME RowsInv, NEW r \in Requests, CaseCall(r) PROVE Written(r)
<1> USE DEF RowsInv
<1>1. ASSUME NEW S, Patch(r, S), call[r].op \notin {"deleteCase", "revoke"}
      PROVE  \E rows : Commit(r, rows) /\ Shows(r, rows)
  <2> DEFINE rows == [db EXCEPT !.stage = Updated(@, seen[r].stage, NewStage(call[r], S)),
                                !.date = Updated(@, seen[r].date, NewDate(r, S))]
  <2>1. Elsewhere(r, rows)
    BY <1>1 DEF Elsewhere, TypeOK, Database
  <2>2. Commit(r, rows)
    BY <1>1 DEF Patch
  <2> QED
    BY <2>1, <2>2, ElsewhereShows
<1>2. CASE PatchCase(r)
  BY <1>1, <1>2 DEF PatchCase, Of, Written
<1>3. CASE BulkPatchCases(r)
  BY <1>1, <1>3 DEF BulkPatchCases, Of, Written
<1>4. CASE DeleteCase(r)
  <2> DEFINE rows == [db EXCEPT !.gone = @ \cup {call[r].case}]
  <2>1. Shows(r, rows)
    BY <1>4 DEF Shows, DeleteCase, Of, TypeOK, Database
  <2> QED
    BY <1>4, <2>1 DEF DeleteCase, Of, Written
<1> QED
  BY <1>2, <1>3, <1>4 DEF CaseCall

LEMMA TaskCallWrites ==
  ASSUME RowsInv, NEW r \in Requests, TaskCall(r) PROVE Written(r)
<1> USE DEF RowsInv
<1>0. \A rows : Commit(r, rows) /\ Elsewhere(r, rows) => \E x : Commit(r, x) /\ Shows(r, x)
  BY ElsewhereShows
<1>1. ASSUME NEW new, Reindex(r, new), call[r].op \notin {"deleteCase", "revoke"}
      PROVE  (\E rows : Commit(r, rows) /\ Shows(r, rows)) \/ Refuse(r, "500")
  <2> DEFINE rows == [db EXCEPT !.index = Updated(@, seen[r].index, new)]
  <2>1. Elsewhere(r, rows)
    BY <1>1 DEF Elsewhere, TypeOK, Database
  <2>2. Commit(r, rows) \/ Refuse(r, "500")
    BY <1>1 DEF Reindex, Batch
  <2> QED
    BY <2>1, <2>2, ElsewhereShows
<1>2. CASE CreateTask(r)
  <2> DEFINE rows == [db EXCEPT !.taskOf[r] = call[r].case, !.index[r] = call[r].index]
  <2>1. Elsewhere(r, rows)
    BY <1>2 DEF CreateTask, Of, Elsewhere, TypeOK, Database
  <2> QED
    BY <1>0, <1>2, <2>1 DEF CreateTask, Of, Written
<1>3. CASE ReorderTasks(r)
  BY <1>1, <1>3 DEF ReorderTasks, Of, Written
<1>4. CASE PatchTask(r)
  BY <1>1, <1>4 DEF PatchTask, Of, Written
<1>5. CASE BulkPatchTasks(r)
  BY <1>1, <1>5 DEF BulkPatchTasks, Of, Written
<1>6. CASE DeleteTask(r)
  <2> DEFINE rows == [db EXCEPT !.taskOf[call[r].id] = Null]
  <2>1. Elsewhere(r, rows)
    BY <1>6 DEF DeleteTask, Of, Elsewhere, TypeOK, Database
  <2> QED
    BY <1>0, <1>6, <2>1 DEF DeleteTask, Of, Written
<1>7. CASE AddTaskLog(r)
  <2> DEFINE rows == [db EXCEPT !.notes[call[r].id] = @ \cup {r}]
  <2>1. Elsewhere(r, rows)
    BY <1>7 DEF AddTaskLog, Of, Elsewhere, TypeOK, Database
  <2> QED
    BY <1>0, <1>7, <2>1 DEF AddTaskLog, Of, Written
<1> QED
  BY <1>2, <1>3, <1>4, <1>5, <1>6, <1>7 DEF TaskCall

LEMMA FileCallWrites ==
  ASSUME RowsInv, NEW r \in Requests, FileCall(r) PROVE Written(r)
<1> USE DEF RowsInv
<1>0. \A rows : Commit(r, rows) /\ Elsewhere(r, rows) => \E x : Commit(r, x) /\ Shows(r, x)
  BY ElsewhereShows
<1>1. ASSUME NEW t, call[r].op \notin {"deleteCase", "revoke"} PROVE Elsewhere(r, Registered(r, t))
  BY <1>1 DEF Registered, Elsewhere, TypeOK, Database
<1>2. ASSUME NEW f, Judge(r, f), call[r].op \notin {"deleteCase", "revoke"}
      PROVE  (\E rows : Commit(r, rows) /\ Shows(r, rows)) \/ Refuse(r, "500")
  <2> DEFINE rows == [db EXCEPT !.av = Updated(@, seen[r].av, [x \in {f} |-> call[r].av]),
                                !.quarantined = Updated(@, seen[r].quarantined, Quarantine(r, f))]
  <2>1. Elsewhere(r, rows)
    BY <1>2 DEF Elsewhere, TypeOK, Database
  <2>2. Commit(r, rows) \/ Refuse(r, "500")
    BY <1>2 DEF Judge, Batch
  <2> QED
    BY <2>1, <2>2, ElsewhereShows
<1>3. CASE RegisterCaseAttachment(r)
  BY <1>0, <1>1, <1>3 DEF RegisterCaseAttachment, Of, Written
<1>4. CASE RegisterTaskAttachment(r)
  BY <1>0, <1>1, <1>4 DEF RegisterTaskAttachment, Of, Written
<1>5. CASE AvScanWebhook(r)
  BY <1>2, <1>5 DEF AvScanWebhook, Of, Written
<1>6. CASE SetAvScan(r)
  BY <1>2, <1>6 DEF SetAvScan, Of, Written
<1>7. CASE DeleteAttachment(r)
  <2> DEFINE rows == [db EXCEPT !.key[call[r].id] = Null, !.fileTask[call[r].id] = Null]
  <2>1. Elsewhere(r, rows)
    BY <1>7 DEF DeleteAttachment, Of, Elsewhere, TypeOK, Database
  <2> QED
    BY <1>0, <1>7, <2>1 DEF DeleteAttachment, Of, Written
<1> QED
  BY <1>3, <1>4, <1>5, <1>6, <1>7 DEF FileCall

LEMMA ObservableCallWrites ==
  ASSUME RowsInv, NEW r \in Requests, ObservableCall(r) PROVE Written(r)
<1> USE DEF RowsInv
<1>0. \A rows : Commit(r, rows) /\ Elsewhere(r, rows) => \E x : Commit(r, x) /\ Shows(r, x)
  BY ElsewhereShows
<1>1. ASSUME NEW S, NEW to, Move(r, S, to), call[r].op \notin {"deleteCase", "revoke"}
      PROVE  \E rows : Commit(r, rows) /\ Shows(r, rows)
  <2>1. PICK T \in Audited(S) :
          Commit(r, [db EXCEPT !.place = Updated(@, seen[r].place, [o \in S |-> to]),
                               !.trail = Append(@, Moved(r, T, to))])
    BY <1>1 DEF Move
  <2> DEFINE rows == [db EXCEPT !.place = Updated(@, seen[r].place, [o \in S |-> to]),
                                !.trail = Append(@, Moved(r, T, to))]
  <2>2. Elsewhere(r, rows)
    BY <1>1 DEF Elsewhere, TypeOK, Database
  <2> QED
    BY <2>1, <2>2, ElsewhereShows
<1>2. call[r].op \notin {"deleteCase", "revoke"} => Elsewhere(r, db)
  BY DEF Elsewhere
<1>3. CASE CreateObservable(r)
  <2> DEFINE rows == [db EXCEPT !.value[r] = call[r].value]
  <2>1. Elsewhere(r, rows)
    BY <1>3 DEF CreateObservable, Of, Elsewhere, TypeOK, Database
  <2> QED
    BY <1>0, <1>3, <2>1 DEF CreateObservable, Of, Written
<1>4. CASE ImportObservables(r)
  <2> DEFINE rows == [db EXCEPT !.value[r] = Stored[call[r].value], !.place[r] = call[r].case,
                                !.trail = Append(@, Moved(r, {r}, call[r].case))]
  <2>1. Elsewhere(r, rows)
    BY <1>4 DEF ImportObservables, Of, Elsewhere, TypeOK, Database
  <2>2. Commit(r, db) \/ Commit(r, rows)
    BY <1>4 DEF ImportObservables
  <2> QED
    BY <1>0, <1>2, <1>4, <2>1, <2>2 DEF ImportObservables, Of, Written
<1>5. CASE AttachObservables(r)
  <2> DEFINE S == {o \in call[r].ids \ seen[r].dropped :
                     seen[r].value[o] # Null /\ seen[r].place[o] # call[r].case}
  <2>1. Commit(r, db) \/ Move(r, S, call[r].case)
    BY <1>5 DEF AttachObservables
  <2> HIDE DEF S
  <2> QED
    BY <1>0, <1>1, <1>2, <1>5, <2>1 DEF AttachObservables, Of, Written
<1>6. CASE DetachObservable(r)
  BY <1>1, <1>6 DEF DetachObservable, Of, Written
<1>7. CASE DeleteObservable(r)
  <2> DEFINE rows == [db EXCEPT !.dropped = @ \cup {call[r].id}]
  <2>1. Elsewhere(r, rows)
    BY <1>7 DEF DeleteObservable, Of, Elsewhere, TypeOK, Database
  <2> QED
    BY <1>0, <1>7, <2>1 DEF DeleteObservable, Of, Written
<1> QED
  BY <1>3, <1>4, <1>5, <1>6, <1>7 DEF ObservableCall

LEMMA TalkCallWrites ==
  ASSUME RowsInv, NEW r \in Requests, TalkCall(r) PROVE Written(r)
<1> USE DEF RowsInv
<1>0. \A rows : Commit(r, rows) /\ Elsewhere(r, rows) => \E x : Commit(r, x) /\ Shows(r, x)
  BY ElsewhereShows
<1>1. ASSUME NEW x, call[r].op \notin {"deleteCase", "revoke"}
      PROVE  /\ Elsewhere(r, [db EXCEPT !.said[r] = x])
             /\ Elsewhere(r, [db EXCEPT !.said[call[r].id] = x])
             /\ Elsewhere(r, [db EXCEPT !.link[<<call[r].case, call[r].id>>] = x])
             /\ Elsewhere(r, [db EXCEPT !.link = x])
  BY <1>1 DEF Elsewhere, TypeOK, Database
<1>2. CASE CreateComment(r)
  BY <1>0, <1>1, <1>2 DEF CreateComment, Of, Written
<1>3. CASE PatchComment(r)
  BY <1>0, <1>1, <1>3 DEF PatchComment, Of, Written
<1>4. CASE DeleteComment(r)
  BY <1>0, <1>1, <1>4 DEF DeleteComment, Of, Written
<1>5. CASE CreateLink(r)
  BY <1>0, <1>1, <1>5 DEF CreateLink, Of, Written
<1>6. CASE DeleteLink(r)
  <2> DEFINE links == [p \in Cases \X Cases |-> IF db.link[p] = call[r].id THEN Null ELSE db.link[p]]
  <2>1. Commit(r, [db EXCEPT !.link = links])
    BY <1>6 DEF DeleteLink
  <2> HIDE DEF links
  <2> QED
    BY <1>0, <1>1, <1>6, <2>1 DEF DeleteLink, Of, Written
<1>7. CASE GrantShare(r)
  <2> DEFINE s == <<call[r].case, call[r].user>>
             commenters == IF call[r].may THEN db.mayComment \cup {s} ELSE db.mayComment
             rows == [db EXCEPT !.share[s] = "active", !.mayComment = commenters]
  <2>1. Of(r, "grant") /\ ((ShareFree(call[r]) /\ Commit(r, rows)) \/ Refuse(r, "409"))
    BY <1>7 DEF GrantShare
  <2>2. s \in Cases \X Users
    BY <2>1, WriterCalls, TalkCallShape
  <2>3. /\ rows.gone = db.gone
        /\ rows.share = [db.share EXCEPT ![s] = "active"]
        /\ rows.mayComment = commenters
    BY DEF TypeOK, Database
  <2>4. ASSUME ShareFree(call[r]) PROVE Shows(r, rows)
    <3>1. db.share[s] = "none"
      BY <2>4 DEF ShareFree
    <3>2. db.share \in [Cases \X Users -> {"none", "active", "revoked"}]
      BY DEF TypeOK, Database
    <3>3. \A q \in Cases \X Users : db.share[q] = "revoked" => rows.share[q] = "revoked"
      BY <2>3, <3>1, <3>2
    <3>4. call[r].op = "grant"
      BY <2>1 DEF Of
    <3>5. \A q \in rows.mayComment : q \in db.mayComment \/ (call[r].may /\ q = s)
      BY <2>3
    <3> HIDE DEF rows
    <3> QED
      BY <2>3, <3>3, <3>4, <3>5 DEF Shows
  <2> QED
    BY <2>1, <2>4 DEF Of, Written
<1>8. CASE RevokeShare(r)
  <2> DEFINE s == <<call[r].case, call[r].user>>
             rows == [db EXCEPT !.share[s] = "revoked"]
  <2>1. Of(r, "revoke") /\ Commit(r, rows)
    BY <1>8 DEF RevokeShare
  <2>2. s \in Cases \X Users
    BY <2>1, WriterCalls, TalkCallShape
  <2>3. /\ rows.gone = db.gone
        /\ rows.share = [db.share EXCEPT ![s] = "revoked"]
        /\ rows.mayComment = db.mayComment
    BY DEF TypeOK, Database
  <2>4. db.share \in [Cases \X Users -> {"none", "active", "revoked"}]
    BY DEF TypeOK, Database
  <2>5. Shows(r, rows)
    <3> HIDE DEF rows
    <3> QED
      BY <2>1, <2>2, <2>3, <2>4 DEF Shows, Of
  <2> QED
    BY <2>1, <2>5 DEF Of, Written
<1> QED
  BY <1>2, <1>3, <1>4, <1>5, <1>6, <1>7, <1>8 DEF TalkCall

LEMMA UnfitCallWrites ==
  ASSUME RowsInv, NEW r \in Requests, UnfitCall(r) PROVE Written(r)
<1>1. pc[r] = "write"
  BY DEF UnfitCall, RefusedBody, UnwrittenBody, Unfit
<1>2. CASE UnwrittenBody(r)
  <2>1. Commit(r, db) /\ Elsewhere(r, db)
    BY <1>2 DEF UnwrittenBody, Elsewhere
  <2> QED
    BY <1>1, <2>1, ElsewhereShows DEF Written
<1>3. CASE RefusedBody(r)
  BY <1>1, <1>3 DEF RefusedBody, Written
<1> QED
  BY <1>2, <1>3 DEF UnfitCall

-----------------------------------------------------------------------------
(* Where a request is in the log.                                          *)
LEMMA PlaceIn ==
  ASSUME NEW s \in Seq(Requests), \A i, j \in 1..Len(s) : s[i] = s[j] => i = j,
         NEW i \in 1..Len(s)
  PROVE  (CHOOSE k \in 1..Len(s) : s[k] = s[i]) = i
OBVIOUS

LEMMA NthIs ==
  ASSUME TypeOK, CommitOrder, NEW r \in Requests, Done(r)
  PROVE  Nth(r) \in 1..Len(log) /\ log[Nth(r)] = r
BY DEF CommitOrder, Nth

(* Steps that commit nothing leave the history as it is.                   *)
Quiet ==
  /\ db' = db /\ log' = log
  /\ \A q \in Requests : Done(q)' = Done(q) /\ (Done(q) => call'[q] = call[q])
LEMMA QuietOrder ==
  ASSUME TypeOK, CommitOrder, HistoryShows, Quiet,
         \A q \in Requests : checkedAt'[q] \in {checkedAt[q], Len(log)}
                             /\ readAt'[q] \in {readAt[q], Len(log)}
  PROVE  CommitOrder' /\ HistoryShows' /\ \A q \in Requests : Nth(q)' = Nth(q)
<1>1. Len(log) \in Nat
  BY DEF TypeOK
<1>2. CommitOrder'
  BY <1>1 DEF CommitOrder, Quiet
<1>3. \A q \in Requests : Nth(q)' = Nth(q)
  BY DEF Quiet, Nth
<1>4. HistoryShows'
  <2>1. \A q \in Requests : Done(q)' => Done(q) /\ call'[q] = call[q]
    BY DEF Quiet
  <2>2. \A q \in Requests : Done(q) => Done(q)' /\ call'[q] = call[q]
    BY DEF Quiet
  <2> QED
    BY <2>1, <2>2 DEF HistoryShows, Quiet, By
<1> QED
  BY <1>2, <1>3, <1>4

LEMMA CommitOrderKept ==
  ASSUME TypeOK, CommitOrder, HistoryShows, NEW r \in Requests, pc[r] = "write",
         NEW rows, Commit(r, rows), Shows(r, rows)
  PROVE  /\ CommitOrder' /\ HistoryShows'
         /\ \A q \in Requests : Done(q)' <=> Done(q) \/ q = r
         /\ \A q \in Requests : Done(q) => Nth(q)' = Nth(q)
         /\ Nth(r)' = Len(log) + 1
<1>1. /\ log' = Append(log, r) /\ log \in Seq(Requests) /\ log' \in Seq(Requests)
      /\ Len(log') = Len(log) + 1 /\ Len(log) \in Nat
      /\ \A i \in 1..Len(log) : log'[i] = log[i]
      /\ log'[Len(log) + 1] = r
  BY DEF Commit, TypeOK
<1>2. \A q \in Requests : Done(q)' <=> Done(q) \/ q = r
  BY DEF Commit, Answer, Done, TypeOK
<1>3. \A i \in 1..Len(log) : log[i] # r
  BY DEF CommitOrder, Done
<1>4. \A i, j \in 1..Len(log') : log'[i] = log'[j] => i = j
  BY <1>1, <1>3 DEF CommitOrder
<1>5. CommitOrder'
  <2>1. \A q \in Requests : Done(q)' <=> \E i \in 1..Len(log') : log'[i] = q
    <3>1. ASSUME NEW q \in Requests, Done(q)' PROVE \E i \in 1..Len(log') : log'[i] = q
      <4>1. CASE q = r
        BY <1>1, <4>1
      <4>2. CASE Done(q)
        <5>1. PICK i \in 1..Len(log) : log[i] = q
          BY <4>2 DEF CommitOrder
        <5> QED
          BY <1>1, <5>1
      <4> QED
        BY <1>2, <3>1, <4>1, <4>2
    <3>2. ASSUME NEW q \in Requests, NEW i \in 1..Len(log'), log'[i] = q PROVE Done(q)'
      <4>1. CASE i \in 1..Len(log)
        BY <1>1, <1>2, <3>2, <4>1 DEF CommitOrder
      <4>2. CASE i = Len(log) + 1
        BY <1>1, <1>2, <3>2, <4>2
      <4> QED
        BY <1>1, <4>1, <4>2
    <3> QED
      BY <3>1, <3>2
  <2>2. \A q \in Requests : checkedAt'[q] <= Len(log') /\ readAt'[q] <= Len(log')
    BY <1>1 DEF CommitOrder, Commit, TypeOK
  <2> QED
    BY <1>4, <2>1, <2>2 DEF CommitOrder
<1>6. ASSUME NEW q \in Requests, Done(q) PROVE Nth(q)' = Nth(q)
  <2>1. Nth(q) \in 1..Len(log) /\ log[Nth(q)] = q
    BY <1>6, NthIs
  <2>2. Nth(q) \in 1..Len(log') /\ log'[Nth(q)] = q
    BY <1>1, <2>1
  <2> QED
    BY <1>1, <1>4, <2>2, PlaceIn DEF Nth
<1>7. Nth(r)' = Len(log) + 1
  <2>1. Len(log) + 1 \in 1..Len(log')
    BY <1>1
  <2> QED
    BY <1>1, <1>4, <2>1, PlaceIn DEF Nth
<1>8. HistoryShows'
  <2>1. db' = rows /\ call' = call
    BY DEF Commit
  <2>2. \A d \in Requests : Done(d)' /\ call[d].op = "deleteCase" => call[d].case \in rows.gone
    BY <1>2 DEF HistoryShows, By, Shows
  <2>3. ASSUME NEW v \in Requests, Done(v)', call[v].op = "revoke"
        PROVE  rows.share[<<call[v].case, call[v].user>>] = "revoked"
    <3>1. call[v] \in Calls
      BY <2>3 DEF TypeOK, Idle
    <3>2. <<call[v].case, call[v].user>> \in Cases \X Users
      BY <2>3, <3>1, TalkCallShape
    <3> QED
      BY <1>2, <2>3, <3>2 DEF HistoryShows, By, Shows
  <2>4. ASSUME NEW s \in rows.mayComment
        PROVE  s \in FirstShares \/ \E g \in Requests :
                 Done(g)' /\ call[g].op = "grant" /\ call[g].may /\ s = <<call[g].case, call[g].user>>
    BY <1>2 DEF HistoryShows, By, Shows
  <2> QED
    BY <2>1, <2>2, <2>3, <2>4 DEF HistoryShows, By
<1> QED
  BY <1>2, <1>5, <1>6, <1>7, <1>8

-----------------------------------------------------------------------------
(* Requests that wait: what they found stays what they found.              *)
Found == JoinersFoundTheCase /\ GuestsFoundTheShare
HistoryInv == CommitOrder /\ HistoryShows /\ Found

LEMMA DeletesACase ==
  ASSUME TypeOK, NEW d \in Requests, By(d, {"deleteCase"})
  PROVE  call[d].case \in Cases /\ call[d].case # Null
<1>1. call[d] \in Calls /\ call[d].op = "deleteCase"
  BY DEF TypeOK, By, Idle
<1> QED
  BY <1>1, CaseCallShape, NullOut

LEMMA SendFound ==
  ASSUME TypeOK, HistoryInv, NEW r \in Requests, Send(r)
  PROVE  HistoryInv'
<1> USE DEF HistoryInv
<1>1. PICK c \in Calls :
        /\ call' = [call EXCEPT ![r] = c]
        /\ Answer(r, IF c.op \in UnderCase /\ c.case # Null THEN "check" ELSE "read")
  BY TrafficAssumption DEF Send
<1>2. /\ pc[r] = "idle" /\ db' = db /\ log' = log /\ checkedAt' = checkedAt /\ readAt' = readAt
  BY DEF Send
<1>3. /\ call'[r] = c /\ pc'[r] \in {"check", "read"}
      /\ pc'[r] = "read" => ~(c.op \in UnderCase /\ c.case # Null)
      /\ \A q \in Requests \ {r} : call'[q] = call[q] /\ pc'[q] = pc[q]
  BY <1>1 DEF TypeOK, Answer
<1>4. Quiet
  BY <1>2, <1>3 DEF Quiet, Done
<1>5. CommitOrder' /\ HistoryShows' /\ \A q \in Requests : Nth(q)' = Nth(q)
  BY <1>2, <1>4, QuietOrder
<1>6. \A q \in Requests : Done(q)' => Done(q) /\ q # r
  BY <1>2, <1>3 DEF Done
<1>7. JoinersFoundTheCase'
  <2> SUFFICES ASSUME NEW d \in Requests, NEW q \in Requests,
                      Done(d)', By(d, {"deleteCase"})', By(q, Joining)'
               PROVE  /\ pc'[q] \in {"read", "write", "200"} /\ call'[q].case = call'[d].case
                           => checkedAt[q] < Nth(d)
                      /\ pc'[q] \in {"write", "200"} /\ By(q, {"link"})' /\ call'[q].id = call'[d].case
                           => readAt[q] < Nth(d)
    BY <1>2, <1>5 DEF JoinersFoundTheCase
  <2>1. Done(d) /\ By(d, {"deleteCase"}) /\ call'[d] = call[d]
    BY <1>3, <1>6 DEF By
  <2>2. CASE q = r
    <3>1. call[d].case # Null
      BY <2>1, DeletesACase
    <3>2. pc'[q] = "read" => call'[q].case # call'[d].case
      BY <1>3, <2>1, <2>2, <3>1 DEF By, Joining, UnderCase
    <3> QED
      BY <1>3, <2>2, <3>2
  <2>3. CASE q # r
    BY <1>3, <2>1, <2>3 DEF JoinersFoundTheCase, Found, By
  <2> QED
    BY <2>2, <2>3
<1>8. GuestsFoundTheShare'
  <2> SUFFICES ASSUME NEW q \in Requests, pc'[q] \in {"write", "200"}, By(q, {"portalComment"})'
               PROVE  /\ \/ <<call'[q].case, call'[q].user>> \in FirstShares
                         \/ \E g \in Requests : /\ Done(g)' /\ By(g, {"grant"})' /\ SameShare(g, q)'
                                                 /\ call'[g].may /\ Nth(g) <= readAt[q]
                      /\ \A v \in Requests : By(v, {"revoke"})' /\ SameShare(v, q)' /\ Done(v)'
                           => Nth(v) > readAt[q]
    BY <1>2, <1>5 DEF Invited, GuestsFoundTheShare
  <2>1. q # r /\ pc[q] = pc'[q] /\ call'[q] = call[q] /\ By(q, {"portalComment"})
    BY <1>3 DEF By
  <2>2. /\ \/ <<call[q].case, call[q].user>> \in FirstShares
           \/ \E g \in Requests : /\ Done(g) /\ By(g, {"grant"}) /\ SameShare(g, q)
                                   /\ call[g].may /\ Nth(g) <= readAt[q]
        /\ \A v \in Requests : By(v, {"revoke"}) /\ SameShare(v, q) /\ Done(v) => Nth(v) > readAt[q]
    BY <2>1 DEF Invited, GuestsFoundTheShare, Found
  <2>3. \A g \in Requests : Done(g) <=> Done(g)'
    BY <1>4 DEF Quiet
  <2>4. \A g \in Requests : Done(g) => call'[g] = call[g]
    BY <1>4 DEF Quiet
  <2> QED
    BY <2>1, <2>2, <2>3, <2>4 DEF By, SameShare
<1> QED
  BY <1>5, <1>7, <1>8 DEF Found

LEMMA CheckFound ==
  ASSUME TypeOK, HistoryInv, NEW r \in Requests, CheckCase(r)
  PROVE  HistoryInv'
<1> USE DEF HistoryInv
<1>1. /\ pc[r] = "check" /\ db' = db /\ log' = log /\ call' = call /\ readAt' = readAt
      /\ pc'[r] \in {"read", "404"} /\ (pc'[r] = "read" => Live(call[r].case))
      /\ \A q \in Requests \ {r} : pc'[q] = pc[q] /\ checkedAt'[q] = checkedAt[q]
      /\ checkedAt'[r] = Len(log)
  BY DEF CheckCase, Answer, TypeOK
<1>2. Quiet
  BY <1>1 DEF Quiet, Done
<1>3. \A q \in Requests : Done(q)' = Done(q)
  BY <1>2 DEF Quiet
<1>4. CommitOrder' /\ HistoryShows' /\ \A q \in Requests : Nth(q)' = Nth(q)
  BY <1>1, <1>2, QuietOrder
<1>5. JoinersFoundTheCase'
  <2> SUFFICES ASSUME NEW d \in Requests, NEW q \in Requests,
                      Done(d), By(d, {"deleteCase"}), By(q, Joining)
               PROVE  /\ pc'[q] \in {"read", "write", "200"} /\ call[q].case = call[d].case
                           => checkedAt'[q] < Nth(d)
                      /\ pc'[q] \in {"write", "200"} /\ By(q, {"link"}) /\ call[q].id = call[d].case
                           => readAt[q] < Nth(d)
    BY <1>1, <1>3, <1>4 DEF JoinersFoundTheCase, By
  <2>1. CASE q = r
    <3>1. call[d].case \in db.gone
      BY DEF HistoryShows
    <3> QED
      BY <1>1, <2>1, <3>1 DEF Live
  <2>2. CASE q # r
    BY <1>1, <2>2 DEF JoinersFoundTheCase, Found
  <2> QED
    BY <2>1, <2>2
<1>6. GuestsFoundTheShare'
  <2> SUFFICES ASSUME NEW q \in Requests, pc'[q] \in {"write", "200"}, By(q, {"portalComment"})
               PROVE  /\ \/ <<call[q].case, call[q].user>> \in FirstShares
                         \/ \E g \in Requests : /\ Done(g) /\ By(g, {"grant"}) /\ SameShare(g, q)
                                                 /\ call[g].may /\ Nth(g) <= readAt[q]
                      /\ \A v \in Requests : By(v, {"revoke"}) /\ SameShare(v, q) /\ Done(v)
                           => Nth(v) > readAt[q]
    BY <1>1, <1>3, <1>4 DEF Invited, GuestsFoundTheShare, By, SameShare
  <2>1. q # r /\ pc[q] = pc'[q]
    BY <1>1
  <2> QED
    BY <2>1 DEF Invited, GuestsFoundTheShare, Found
<1> QED
  BY <1>4, <1>5, <1>6 DEF Found

(* What Wanted says yes to.                                                *)
LEMMA WantedWrites ==
  ASSUME NEW c, Wanted(c) = "write"
  PROVE  /\ c.op = "link" => Live(c.id)
         /\ c.op = "portalComment" =>
              db.share[c.case, c.user] = "active" /\ <<c.case, c.user>> \in db.mayComment
<1>1. CASE c.op = "link"
  BY <1>1 DEF Wanted
<1>2. CASE c.op = "portalComment"
  BY <1>2 DEF Wanted
<1> QED
  BY <1>1, <1>2
LEMMA WantedRange == \A c : Wanted(c) \in {"write", "404", "403", "500"}
BY DEF Wanted

LEMMA ReadFound ==
  ASSUME TypeOK, HistoryInv, NEW r \in Requests, Read(r)
  PROVE  HistoryInv'
<1> USE DEF HistoryInv
<1>1. /\ pc[r] = "read" /\ db' = db /\ log' = log /\ call' = call
      /\ pc'[r] = Wanted(call[r]) /\ readAt'[r] = Len(log)
      /\ checkedAt'[r] = (IF call[r].op \in UnderCase THEN checkedAt[r] ELSE Len(log))
      /\ \A q \in Requests \ {r} : pc'[q] = pc[q] /\ checkedAt'[q] = checkedAt[q]
                                    /\ readAt'[q] = readAt[q]
  BY DEF Read, Answer, TypeOK
<1>2. pc'[r] \in {"write", "404", "403", "500"}
  BY <1>1, WantedRange
<1>3. Quiet
  BY <1>1, <1>2 DEF Quiet, Done
<1>4. \A q \in Requests : Done(q)' = Done(q)
  BY <1>3 DEF Quiet
<1>5. CommitOrder' /\ HistoryShows' /\ \A q \in Requests : Nth(q)' = Nth(q)
  BY <1>1, <1>3, QuietOrder
<1>6. JoinersFoundTheCase'
  <2> SUFFICES ASSUME NEW d \in Requests, NEW q \in Requests,
                      Done(d), By(d, {"deleteCase"}), By(q, Joining)
               PROVE  /\ pc'[q] \in {"read", "write", "200"} /\ call[q].case = call[d].case
                           => checkedAt'[q] < Nth(d)
                      /\ pc'[q] \in {"write", "200"} /\ By(q, {"link"}) /\ call[q].id = call[d].case
                           => readAt'[q] < Nth(d)
    BY <1>1, <1>4, <1>5 DEF JoinersFoundTheCase, By
  <2>1. CASE q = r
    <3>1. call[d].case \in db.gone
      BY DEF HistoryShows
    <3>2. checkedAt'[q] = checkedAt[q]
      BY <1>1, <2>1 DEF By, Joining, UnderCase
    <3>3. pc'[q] = "write" /\ By(q, {"link"}) => call[q].id \notin db.gone
      BY <1>1, <2>1, WantedWrites DEF By, Live
    <3>4. call[q].case = call[d].case => checkedAt[q] < Nth(d)
      BY <1>1, <2>1 DEF JoinersFoundTheCase, Found
    <3> QED
      BY <1>2, <2>1, <3>1, <3>2, <3>3, <3>4
  <2>2. CASE q # r
    BY <1>1, <2>2 DEF JoinersFoundTheCase, Found
  <2> QED
    BY <2>1, <2>2
<1>7. GuestsFoundTheShare'
  <2> SUFFICES ASSUME NEW q \in Requests, pc'[q] \in {"write", "200"}, By(q, {"portalComment"})
               PROVE  /\ \/ <<call[q].case, call[q].user>> \in FirstShares
                         \/ \E g \in Requests : /\ Done(g) /\ By(g, {"grant"}) /\ SameShare(g, q)
                                                 /\ call[g].may /\ Nth(g) <= readAt'[q]
                      /\ \A v \in Requests : By(v, {"revoke"}) /\ SameShare(v, q) /\ Done(v)
                           => Nth(v) > readAt'[q]
    BY <1>1, <1>4, <1>5 DEF Invited, GuestsFoundTheShare, By, SameShare
  <2>1. CASE q = r
    <3>1. /\ db.share[<<call[q].case, call[q].user>>] = "active"
          /\ <<call[q].case, call[q].user>> \in db.mayComment
      BY <1>1, <1>2, <2>1, WantedWrites DEF By
    <3>2. ASSUME NEW v \in Requests, By(v, {"revoke"}), SameShare(v, q), Done(v)
          PROVE  FALSE
      <4>1. db.share[<<call[v].case, call[v].user>>] = "revoked"
        BY <3>2 DEF HistoryShows
      <4> QED
        BY <3>1, <3>2, <4>1 DEF SameShare
    <3>3. \/ <<call[q].case, call[q].user>> \in FirstShares
          \/ \E g \in Requests : /\ Done(g) /\ By(g, {"grant"}) /\ call[g].may
                                  /\ <<call[q].case, call[q].user>> = <<call[g].case, call[g].user>>
      BY <3>1 DEF HistoryShows
    <3>4. \A g \in Requests : Done(g) => Nth(g) <= readAt'[q]
      BY <1>1, <2>1, NthIs DEF TypeOK
    <3> QED
      BY <3>2, <3>3, <3>4 DEF SameShare
  <2>2. CASE q # r
    BY <1>1, <2>2 DEF Invited, GuestsFoundTheShare, Found
  <2> QED
    BY <2>1, <2>2
<1> QED
  BY <1>5, <1>6, <1>7 DEF Found

LEMMA WriteFound ==
  ASSUME TypeOK, HistoryInv, NEW r \in Requests, Written(r)
  PROVE  HistoryInv'
<1> USE DEF HistoryInv
<1>1. ASSUME NEW rows, Commit(r, rows), Shows(r, rows) PROVE HistoryInv'
  <2>1. /\ CommitOrder' /\ HistoryShows'
        /\ \A q \in Requests : Done(q)' <=> Done(q) \/ q = r
        /\ \A q \in Requests : Done(q) => Nth(q)' = Nth(q)
        /\ Nth(r)' = Len(log) + 1
    BY <1>1, CommitOrderKept DEF Written
  <2>2. /\ call' = call /\ checkedAt' = checkedAt /\ readAt' = readAt
        /\ pc[r] = "write" /\ pc'[r] = "200" /\ \A q \in Requests \ {r} : pc'[q] = pc[q]
    BY <1>1 DEF Commit, Answer, TypeOK, Written
  <2>3. \A q \in Requests : checkedAt[q] < Nth(r)' /\ readAt[q] < Nth(r)'
    BY <2>1 DEF CommitOrder, TypeOK
  <2>4. JoinersFoundTheCase'
    <3> SUFFICES ASSUME NEW d \in Requests, NEW q \in Requests,
                        Done(d)', By(d, {"deleteCase"}), By(q, Joining)
                 PROVE  /\ pc'[q] \in {"read", "write", "200"} /\ call[q].case = call[d].case
                             => checkedAt[q] < Nth(d)'
                        /\ pc'[q] \in {"write", "200"} /\ By(q, {"link"}) /\ call[q].id = call[d].case
                             => readAt[q] < Nth(d)'
      BY <2>2 DEF JoinersFoundTheCase, By
    <3>1. CASE d = r
      BY <2>3, <3>1
    <3>2. CASE d # r
      <4>1. Done(d) /\ Nth(d)' = Nth(d)
        BY <2>1, <3>2
      <4> QED
        BY <2>2, <4>1 DEF JoinersFoundTheCase, Found
    <3> QED
      BY <3>1, <3>2
  <2>5. GuestsFoundTheShare'
    <3> SUFFICES ASSUME NEW q \in Requests, pc'[q] \in {"write", "200"}, By(q, {"portalComment"})
                 PROVE  /\ \/ <<call[q].case, call[q].user>> \in FirstShares
                           \/ \E g \in Requests : /\ Done(g)' /\ By(g, {"grant"}) /\ SameShare(g, q)
                                                   /\ call[g].may /\ Nth(g)' <= readAt[q]
                        /\ \A v \in Requests : By(v, {"revoke"}) /\ SameShare(v, q) /\ Done(v)'
                             => Nth(v)' > readAt[q]
      BY <2>2 DEF Invited, GuestsFoundTheShare, By, SameShare
    <3>1. pc[q] \in {"write", "200"}
      BY <2>2
    <3>2. /\ \/ <<call[q].case, call[q].user>> \in FirstShares
             \/ \E g \in Requests : /\ Done(g) /\ By(g, {"grant"}) /\ SameShare(g, q)
                                     /\ call[g].may /\ Nth(g) <= readAt[q]
          /\ \A v \in Requests : By(v, {"revoke"}) /\ SameShare(v, q) /\ Done(v)
               => Nth(v) > readAt[q]
      BY <3>1 DEF Invited, GuestsFoundTheShare, Found
    <3>3. ASSUME NEW v \in Requests, By(v, {"revoke"}), SameShare(v, q), Done(v)'
          PROVE  Nth(v)' > readAt[q]
      <4>1. CASE v = r
        <5>1. readAt[q] \in Nat /\ Len(log) \in Nat /\ readAt[q] <= Len(log)
          BY DEF TypeOK, CommitOrder
        <5> QED
          BY <2>1, <4>1, <5>1
      <4>2. CASE v # r
        <5>1. Done(v) /\ Nth(v)' = Nth(v)
          BY <2>1, <3>3, <4>2
        <5> QED
          BY <3>2, <3>3, <5>1
      <4> QED
        BY <4>1, <4>2
    <3>4. \A g \in Requests : Done(g) => Done(g)' /\ Nth(g)' = Nth(g)
      BY <2>1
    <3> QED
      BY <3>2, <3>3, <3>4
  <2> QED
    BY <2>1, <2>4, <2>5 DEF Found
<1>2. ASSUME NEW code \in {"409", "500"}, Refuse(r, code) PROVE HistoryInv'
  <2>1. /\ UNCHANGED <<db, call, log, checkedAt, readAt>>
        /\ pc[r] = "write" /\ pc'[r] = code /\ \A q \in Requests \ {r} : pc'[q] = pc[q]
    BY <1>2 DEF Refuse, Answer, TypeOK, Written
  <2>2. Quiet
    BY <1>2, <2>1 DEF Quiet, Done
  <2>3. \A q \in Requests : Done(q)' = Done(q)
    BY <2>2 DEF Quiet
  <2>4. CommitOrder' /\ HistoryShows' /\ \A q \in Requests : Nth(q)' = Nth(q)
    BY <2>1, <2>2, QuietOrder
  <2>5. \A q \in Requests : pc'[q] \in {"read", "write", "200"} => pc[q] = pc'[q]
    BY <1>2, <2>1
  <2>6. JoinersFoundTheCase'
    BY <2>1, <2>3, <2>4, <2>5 DEF JoinersFoundTheCase, Found, By
  <2>7. GuestsFoundTheShare'
    BY <2>1, <2>3, <2>4, <2>5 DEF Invited, GuestsFoundTheShare, Found, By, SameShare
  <2> QED
    BY <2>4, <2>6, <2>7 DEF Found
<1> QED
  BY <1>1, <1>2 DEF Written

-----------------------------------------------------------------------------
LEMMA InitCore == Init => CoreInv
<1> SUFFICES ASSUME Init PROVE CoreInv
  OBVIOUS
<1>1. RowsInv
  BY InitRows
<1>2. /\ log = <<>> /\ \A r \in Requests : pc[r] = "idle" /\ checkedAt[r] = 0 /\ readAt[r] = 0
      /\ db.mayComment = FirstShares
  BY DEF Init, FirstRows
<1>3. CommitOrder /\ HistoryShows
  BY <1>2 DEF CommitOrder, HistoryShows, Done
<1>4. JoinersFoundTheCase /\ GuestsFoundTheShare
  BY <1>2 DEF JoinersFoundTheCase, GuestsFoundTheShare, Done
<1> QED
  BY <1>1, <1>3, <1>4 DEF CoreInv

LEMMA NextCore == CoreInv /\ [Next]_vars => CoreInv'
<1> SUFFICES ASSUME CoreInv, [Next]_vars PROVE CoreInv'
  OBVIOUS
<1>1. RowsInv'
  BY NextRows DEF CoreInv
<1>2. TypeOK /\ HistoryInv
  BY DEF CoreInv, RowsInv, HistoryInv, Found
<1>3. ASSUME UNCHANGED vars PROVE HistoryInv'
  <2>1. CommitOrder' /\ HistoryShows'
    BY <1>2, <1>3 DEF HistoryInv, CommitOrder, HistoryShows, Done, By, vars
  <2>2. JoinersFoundTheCase'
    BY <1>2, <1>3 DEF HistoryInv, Found, JoinersFoundTheCase, Done, By, Nth, vars
  <2>3. GuestsFoundTheShare'
    BY <1>2, <1>3 DEF HistoryInv, Found, Invited, GuestsFoundTheShare, Done, By, SameShare,
       Nth, vars
  <2> QED
    BY <2>1, <2>2, <2>3 DEF HistoryInv, Found
<1>4. ASSUME NEW r \in Requests,
             \/ Send(r) \/ CheckCase(r) \/ Read(r)
             \/ CaseCall(r) \/ TaskCall(r) \/ FileCall(r) \/ ObservableCall(r) \/ TalkCall(r)
             \/ UnfitCall(r)
      PROVE  HistoryInv'
  <2>1. CASE Send(r) \/ CheckCase(r) \/ Read(r)
    BY <1>2, <2>1, SendFound, CheckFound, ReadFound
  <2>2. CASE \/ CaseCall(r) \/ TaskCall(r) \/ FileCall(r) \/ ObservableCall(r) \/ TalkCall(r)
             \/ UnfitCall(r)
    <3>1. RowsInv
      BY DEF CoreInv
    <3>2. Written(r)
      BY <2>2, <3>1, CaseCallWrites, TaskCallWrites, FileCallWrites, ObservableCallWrites,
         TalkCallWrites, UnfitCallWrites
    <3> QED
      BY <1>2, <3>2, WriteFound
  <2> QED
    BY <1>4, <2>1, <2>2
<1>5. HistoryInv'
  BY <1>3, <1>4 DEF Next
<1> QED
  BY <1>1, <1>5 DEF CoreInv, HistoryInv, Found

-----------------------------------------------------------------------------
(* What a write does to each column of the rows.                           *)
PatchOps == {"patchCase", "bulkPatchCases"}
Scope(r) == IF By(r, {"patchCase"}) THEN {call[r].case} ELSE call[r].ids \ seen[r].gone
DateEffect(r) ==
  \A c \in Cases :
    /\ ~(By(r, PatchOps) /\ c \in Scope(r)) => db'.date[c] = db.date[c] /\ db'.stage[c] = db.stage[c]
    /\ db'.stage[c] # db.stage[c] => call[r].stage = db'.stage[c]
    /\ db'.date[c] = Null /\ db.date[c] # Null => call[r].date = "clear"
    /\ db'.date[c] \in {db.date[c], r, Null}
    /\ By(r, PatchOps) /\ c \in Scope(r) /\ call[r].date = "set" /\ seen[r].date[c] # r
         => db'.date[c] = r
    /\ By(r, PatchOps) /\ c \in Scope(r) /\ call[r].date = "same" /\ call[r].stage = "closed"
         => db'.date[c] = (IF seen[r].date[c] = Null THEN r ELSE db.date[c])

TaskEffect(r) ==
  /\ \A t \in TaskIds :
       /\ db'.taskOf[t] = db.taskOf[t] \/ (By(r, {"createTask"}) /\ t = r)
            \/ (By(r, {"deleteTask"}) /\ t = call[r].id /\ db'.taskOf[t] = Null)
       /\ db'.index[t] = db.index[t] \/ (By(r, {"createTask"}) /\ t = r) \/ By(r, IndexWriters)
       /\ \A q \in db'.notes[t] : q \in db.notes[t] \/ (q = r /\ By(r, {"addLog"}) /\ call[r].id = t)
  /\ By(r, {"reorder"}) => \A t \in Range(call[r].list) : seen[r].taskOf[t] = call[r].case =>
       \E i \in 0..Len(call[r].list) - 1 :
         /\ LastAt(call[r].list, t, i)
         /\ db'.index[t] = (IF i = seen[r].index[t] THEN db.index[t] ELSE i)

Judges == {"verdict", "verdictByKey", "scan"}
Target(r, f) ==
  By(r, Judges) /\ IF call[r].op = "verdictByKey" THEN seen[r].key[f] = call[r].key ELSE call[r].id = f
FileEffect(r) ==
  \A f \in FileIds :
    /\ \/ db'.key[f] = db.key[f]
       \/ f = r /\ By(r, {"registerFile", "registerTaskFile"})
       \/ f = call[r].id /\ By(r, {"deleteFile"}) /\ db'.key[f] = Null
    /\ \/ db'.fileTask[f] \in {db.fileTask[f], Null}
       \/ f = r /\ By(r, {"registerTaskFile"}) /\ db'.fileTask[f] = call[r].id
    /\ db'.av[f] = db.av[f] \/ (Target(r, f) /\ db'.av[f] = call[r].av)
    /\ \/ db'.quarantined[f] = db.quarantined[f]
       \/ f = r /\ By(r, {"registerFile", "registerTaskFile"})
       \/ Target(r, f) /\ (~db'.quarantined[f] => call[r].av = "clean")
    /\ Target(r, f) /\ seen[r].av[f] # call[r].av => db'.av[f] = call[r].av
    /\ Target(r, f) /\ call[r].av = "infected" /\ call[r].op # "scan" /\ ~seen[r].quarantined[f]
         => db'.quarantined[f]

Recorded(r, T, to) ==
  /\ db'.trail = Append(db.trail, Moved(r, T, to))
  /\ \A o \in T : db'.place[o] = to
ObsEffect(r) ==
  /\ db.dropped \subseteq db'.dropped
  /\ \A o \in ObsIds :
       /\ db'.value[o] = db.value[o] \/ (o = r /\ By(r, {"createObservable", "import"}))
       /\ \/ db'.place[o] = db.place[o]
          \/ By(r, {"attach"}) /\ o \in call[r].ids
          \/ By(r, {"detach"}) /\ o = call[r].id
          \/ By(r, {"import"}) /\ o = r
  /\ By(r, {"import"}) => IF Twins(r) # {} THEN db' = db
                          ELSE db'.value[r] = Stored[call[r].value] /\ db'.place[r] = call[r].case
  /\ \/ db'.trail = db.trail /\ db'.place = db.place
     \/ \E T \in SUBSET ObsIds, to \in Cases \cup {Null} :
          /\ Recorded(r, T, to)
          /\ \A o \in ObsIds \ T : db'.place[o] # db.place[o] =>
               By(r, {"attach"}) /\ o \in call[r].ids /\ Cardinality(call[r].ids) > AuditedIds
          /\ By(r, {"detach"}) => T = {call[r].id}

TalkEffect(r) ==
  /\ \A c \in Requests : db'.said[c] = Null =>
       db.said[c] = Null \/ (By(r, {"deleteComment"}) /\ call[r].id = c)
  /\ \A s \in Cases \X Users : db'.share[s] = db.share[s]
       \/ (By(r, {"grant", "revoke"}) /\ s = <<call[r].case, call[r].user>>)
  /\ \A p \in Cases \X Cases : db'.link[p] \in {db.link[p], Null}
       \/ (By(r, {"link"}) /\ p = <<call[r].case, call[r].id>> /\ db'.link[p] = r)

Effects(r) == DateEffect(r) /\ TaskEffect(r) /\ FileEffect(r) /\ ObsEffect(r) /\ TalkEffect(r)

(* A write that leaves the columns of a component alone.                   *)
SameDates == db'.date = db.date /\ db'.stage = db.stage
SameTasks == db'.taskOf = db.taskOf /\ db'.index = db.index /\ db'.notes = db.notes
SameFiles == /\ db'.key = db.key /\ db'.fileTask = db.fileTask
             /\ db'.av = db.av /\ db'.quarantined = db.quarantined
SameObs == /\ db'.value = db.value /\ db'.place = db.place
           /\ db'.dropped = db.dropped /\ db'.trail = db.trail
SameTalk == db'.said = db.said /\ db'.share = db.share /\ db'.link = db.link
OtherEffects(r) ==
  /\ SameDates /\ ~By(r, PatchOps) => DateEffect(r)
  /\ SameTasks /\ ~By(r, {"reorder"}) => TaskEffect(r)
  /\ SameFiles /\ ~By(r, Judges) => FileEffect(r)
  /\ SameObs /\ ~By(r, {"import"}) => ObsEffect(r)
  /\ SameTalk => TalkEffect(r)
LEMMA SameHasEffects == ASSUME NEW r PROVE OtherEffects(r)
<1>1. SameDates /\ ~By(r, PatchOps) => DateEffect(r)
  BY DEF SameDates, DateEffect
<1>2. SameTasks /\ ~By(r, {"reorder"}) => TaskEffect(r)
  BY DEF SameTasks, TaskEffect
<1>3. SameFiles /\ ~By(r, Judges) => FileEffect(r)
  BY DEF SameFiles, FileEffect, Target
<1>4. SameObs /\ ~By(r, {"import"}) => ObsEffect(r)
  BY DEF SameObs, ObsEffect
<1>5. SameTalk => TalkEffect(r)
  BY DEF SameTalk, TalkEffect
<1> QED
  BY <1>1, <1>2, <1>3, <1>4, <1>5 DEF OtherEffects

CommitEffects(r) == Commit(r, db') /\ Effects(r)
LEMMA CaseCallEffects ==
  ASSUME RowsInv, NEW r \in Requests, CaseCall(r) PROVE CommitEffects(r)
<1> USE DEF RowsInv
<1>1. ASSUME NEW S \in SUBSET Cases, Patch(r, S), By(r, PatchOps), S = Scope(r),
             call[r].stage \in Stages \cup {"same"}, call[r].date \in {"same", "clear", "set"}
      PROVE  CommitEffects(r)
  <2> DEFINE stages == Updated(db.stage, seen[r].stage, NewStage(call[r], S))
             dates == Updated(db.date, seen[r].date, NewDate(r, S))
  <2>1. Commit(r, db') /\ db' = [db EXCEPT !.stage = stages, !.date = dates]
    BY <1>1 DEF Patch, Commit
  <2>2. SameTasks /\ SameFiles /\ SameObs /\ SameTalk /\ db'.stage = stages /\ db'.date = dates
    <3> HIDE DEF stages, dates
    <3> QED
      BY <2>1 DEF SameTasks, SameFiles, SameObs, SameTalk, TypeOK, Database
  <2>3. TaskEffect(r) /\ FileEffect(r) /\ ObsEffect(r) /\ TalkEffect(r)
    BY <1>1, <2>2, SameHasEffects DEF OtherEffects, By, PatchOps, Judges
  <2>4. ASSUME NEW c \in Cases
        PROVE  stages[c] = IF c \in S /\ call[r].stage \notin {"same", seen[r].stage[c]}
                           THEN call[r].stage ELSE db.stage[c]
    <3>1. stages[c] = IF c \in DOMAIN NewStage(call[r], S) /\ NewStage(call[r], S)[c] # seen[r].stage[c]
                      THEN NewStage(call[r], S)[c] ELSE db.stage[c]
      BY DEF Updated, Changed, TypeOK, Database
    <3>2. CASE call[r].stage = "same"
      <4>1. NewStage(call[r], S) = <<>>
        BY <3>2 DEF NewStage
      <4>2. Cases \cap DOMAIN NewStage(call[r], S) = {}
        BY <4>1
      <4> QED
        BY <3>1, <3>2, <4>2
    <3>3. CASE call[r].stage # "same"
      BY <3>1, <3>3 DEF NewStage
    <3> QED
      BY <3>2, <3>3
  <2>5. ASSUME NEW c \in Cases
        PROVE  dates[c] = IF c \in DOMAIN NewDate(r, S) /\ NewDate(r, S)[c] # seen[r].date[c]
                          THEN NewDate(r, S)[c] ELSE db.date[c]
    BY DEF Updated, Changed, TypeOK, Database
  <2>6. ASSUME NEW c \in Cases
        PROVE  /\ call[r].date = "clear" =>
                    dates[c] = IF c \in S /\ seen[r].date[c] # Null THEN Null ELSE db.date[c]
               /\ call[r].date = "set" =>
                    dates[c] = IF c \in S /\ seen[r].date[c] # r THEN r ELSE db.date[c]
               /\ call[r].date = "same" /\ call[r].stage = "closed" =>
                    dates[c] = IF c \in S /\ seen[r].date[c] = Null THEN r ELSE db.date[c]
               /\ call[r].date = "same" /\ call[r].stage # "closed" => dates[c] = db.date[c]
    <3>1. CASE call[r].date = "clear"
      BY <2>5, <3>1 DEF NewDate
    <3>2. CASE call[r].date = "set"
      BY <2>5, <3>2 DEF NewDate
    <3>3. CASE call[r].date = "same" /\ call[r].stage = "closed"
      BY <2>5, <3>3, NullOut DEF NewDate, Undated
    <3>4. CASE call[r].date = "same" /\ call[r].stage # "closed"
      <4>1. NewDate(r, S) = <<>>
        BY <3>4 DEF NewDate
      <4>2. c \notin DOMAIN NewDate(r, S)
        BY <4>1
      <4> QED
        BY <2>5, <3>4, <4>2
    <3> QED
      BY <1>1, <3>1, <3>2, <3>3, <3>4
  <2>7. DateEffect(r)
    <3> HIDE DEF stages, dates
    <3> QED
      BY <1>1, <2>2, <2>4, <2>6, NullOut DEF DateEffect
  <2> QED
    BY <2>1, <2>3, <2>7 DEF CommitEffects, Effects
<1>2. CASE PatchCase(r)
  <2>1. call[r] \in Calls /\ call[r].op = "patchCase"
    BY <1>2, WriterCalls DEF PatchCase
  <2> QED
    BY <1>1, <1>2, <2>1, CaseCallShape DEF PatchCase, By, PatchOps, Scope
<1>3. CASE BulkPatchCases(r)
  <2>1. call[r] \in Calls /\ call[r].op = "bulkPatchCases"
    BY <1>3, WriterCalls DEF BulkPatchCases
  <2>2. call[r].ids \ seen[r].gone \in SUBSET Cases
    BY <2>1, CaseCallShape
  <2> QED
    BY <1>1, <1>3, <2>1, <2>2, CaseCallShape DEF BulkPatchCases, By, PatchOps, Scope
<1>4. CASE DeleteCase(r)
  <2> DEFINE gone == db.gone \cup {call[r].case}
  <2>1. Commit(r, db') /\ db' = [db EXCEPT !.gone = gone] /\ By(r, {"deleteCase"})
    BY <1>4 DEF DeleteCase, Commit, By, Of
  <2>2. SameDates /\ SameTasks /\ SameFiles /\ SameObs /\ SameTalk
    <3> HIDE DEF gone
    <3> QED
      BY <2>1 DEF SameDates, SameTasks, SameFiles, SameObs, SameTalk, TypeOK, Database
  <2> QED
    BY <2>1, <2>2, SameHasEffects DEF OtherEffects, By, PatchOps, Judges, CommitEffects, Effects
<1> QED
  BY <1>2, <1>3, <1>4 DEF CaseCall

(* A request that is refused, and the row that was gone.                   *)
LostTask(r, t) == seen[r].taskOf[t] # Null /\ db.taskOf[t] = Null
RefusedFor(r) ==
  \/ Refuse(r, "500") /\ By(r, {"reorder"}) /\ \E t \in Range(call[r].list) : LostTask(r, t)
  \/ Refuse(r, "500") /\ By(r, {"bulkPatchTasks"}) /\ \E t \in call[r].ids : LostTask(r, t)
  \/ /\ Refuse(r, "500") /\ By(r, {"patchTask", "addLog", "registerTaskFile"})
     /\ db.taskOf[call[r].id] = Null
  \/ Refuse(r, "500") /\ By(r, {"deleteTask"}) /\ ~Unreferenced(call[r].id)
  \/ /\ Refuse(r, "500") /\ By(r, Judges)
     /\ \E f \in FileIds : Target(r, f) /\ db.key[f] = Null
  \/ Refuse(r, "500") /\ By(r, {"patchComment"}) /\ db.said[call[r].id] = Null
  \/ Refuse(r, "409") /\ By(r, {"link"}) /\ ~LinkFree(call[r])
  \/ Refuse(r, "409") /\ By(r, {"grant"}) /\ ~ShareFree(call[r])
  \/ Refuse(r, "500") /\ ~Fits(call[r])

LEMMA ReindexEffects ==
  ASSUME RowsInv, NEW r \in Requests, NEW new, DOMAIN new \subseteq TaskIds,
         \A t \in DOMAIN new : new[t] \in Nat,
         Reindex(r, new)
  PROVE  \/ /\ Commit(r, db') /\ SameDates /\ SameFiles /\ SameObs /\ SameTalk
            /\ db'.taskOf = db.taskOf /\ db'.notes = db.notes
            /\ \A t \in TaskIds : db'.index[t] = IF t \in DOMAIN new /\ new[t] # seen[r].index[t]
                                                 THEN new[t] ELSE db.index[t]
         \/ /\ Refuse(r, "500")
            /\ \E t \in DOMAIN new : db.taskOf[t] = Null
<1> USE DEF RowsInv
<1> DEFINE index == Updated(db.index, seen[r].index, new)
           lost == {t \in Changed(seen[r].index, new) : db.taskOf[t] = Null}
<1>1. \/ Commit(r, [db EXCEPT !.index = index])
      \/ lost # {} /\ Refuse(r, "500")
  BY DEF Reindex, Batch
<1>2. CASE Commit(r, [db EXCEPT !.index = index])
  <2>1. Commit(r, db') /\ db' = [db EXCEPT !.index = index]
    BY <1>2 DEF Commit
  <2>2. /\ SameDates /\ SameFiles /\ SameObs /\ SameTalk /\ db'.index = index
        /\ db'.taskOf = db.taskOf /\ db'.notes = db.notes
    <3> HIDE DEF index
    <3> QED
      BY <2>1 DEF SameDates, SameFiles, SameObs, SameTalk, TypeOK, Database
  <2>3. \A t \in TaskIds : index[t] = IF t \in DOMAIN new /\ new[t] # seen[r].index[t]
                                      THEN new[t] ELSE db.index[t]
    BY DEF Updated, Changed, TypeOK, Database
  <2> QED
    BY <2>1, <2>2, <2>3
<1>3. CASE lost # {} /\ Refuse(r, "500")
  BY <1>3 DEF Changed
<1> QED
  BY <1>1, <1>2, <1>3

WriteEffects(r) == pc[r] = "write" /\ (CommitEffects(r) \/ RefusedFor(r))
LEMMA TaskCallEffects ==
  ASSUME RowsInv, NEW r \in Requests, Aimed(r), TaskCall(r) PROVE WriteEffects(r)
<1> USE DEF RowsInv
<1>0. ASSUME NEW rows, Commit(r, rows) PROVE Commit(r, db') /\ db' = rows
  BY <1>0 DEF Commit
<1>1. ASSUME pc[r] = "write", Commit(r, db'), SameDates, SameFiles, SameObs, SameTalk, TaskEffect(r),
             By(r, {"createTask", "reorder", "patchTask", "bulkPatchTasks", "deleteTask", "addLog"})
      PROVE  WriteEffects(r)
  BY <1>1, SameHasEffects DEF OtherEffects, By, PatchOps, Judges, CommitEffects, Effects, WriteEffects
<1>2. CASE CreateTask(r)
  <2>1. /\ Commit(r, db') /\ db' = [db EXCEPT !.taskOf[r] = call[r].case, !.index[r] = call[r].index]
        /\ Of(r, "createTask")
    BY <1>0, <1>2 DEF CreateTask
  <2>2. SameDates /\ SameFiles /\ SameObs /\ SameTalk
    BY <2>1 DEF SameDates, SameFiles, SameObs, SameTalk, TypeOK, Database
  <2>3. TaskEffect(r)
    BY <2>1 DEF TaskEffect, TypeOK, Database, Of, By
  <2> QED
    BY <1>1, <2>1, <2>2, <2>3 DEF Of, By
<1>3. CASE ReorderTasks(r)
  <2> DEFINE list == call[r].list
             S == {t \in Range(list) : seen[r].taskOf[t] = call[r].case}
  <2>1. PICK position \in [S -> 0..Len(list) - 1] :
          (\A t \in S : LastAt(list, t, position[t])) /\ Reindex(r, position)
    BY <1>3 DEF ReorderTasks
  <2>2. list \in Seq(TaskIds) /\ Range(list) \subseteq TaskIds /\ call[r].case \in Cases
        /\ Of(r, "reorder")
    BY <1>3, WriterCalls, TaskCallShape DEF ReorderTasks, Range
  <2>3. DOMAIN position = S /\ S \subseteq TaskIds /\ \A t \in S : position[t] \in Nat
    BY <2>1, <2>2
  <2>4. CASE /\ Commit(r, db') /\ SameDates /\ SameFiles /\ SameObs /\ SameTalk
             /\ db'.taskOf = db.taskOf /\ db'.notes = db.notes
             /\ \A t \in TaskIds :
                  db'.index[t] = IF t \in DOMAIN position /\ position[t] # seen[r].index[t]
                                 THEN position[t] ELSE db.index[t]
    <3>1. ASSUME NEW t \in Range(list), seen[r].taskOf[t] = call[r].case
          PROVE  \E i \in 0..Len(list) - 1 :
                   /\ LastAt(list, t, i)
                   /\ db'.index[t] = (IF i = seen[r].index[t] THEN db.index[t] ELSE i)
      <4>1. t \in S /\ position[t] \in 0..Len(list) - 1 /\ t \in TaskIds
        BY <2>1, <2>2, <3>1
      <4> QED
        BY <2>1, <2>3, <2>4, <4>1
    <3>2. TaskEffect(r)
      BY <2>2, <2>4, <3>1 DEF TaskEffect, By, Of, IndexWriters
    <3> QED
      BY <1>1, <2>2, <2>4, <3>2 DEF By, Of
  <2>5. CASE Refuse(r, "500") /\ \E t \in DOMAIN position : db.taskOf[t] = Null
    <3>1. PICK t \in S : db.taskOf[t] = Null
      BY <2>3, <2>5
    <3>2. LostTask(r, t) /\ t \in Range(list)
      BY <2>2, <3>1, NullOut DEF LostTask
    <3> QED
      BY <2>2, <2>5, <3>2 DEF WriteEffects, RefusedFor, By, Of
  <2> HIDE DEF S
  <2> QED
    BY <2>1, <2>3, <2>4, <2>5, ReindexEffects
<1>4. CASE PatchTask(r)
  <2> DEFINE new == [t \in {call[r].id} |-> call[r].index]
  <2>1. call[r].id \in TaskIds /\ call[r].index \in Nat /\ Of(r, "patchTask")
    BY <1>4, WriterCalls, TaskCallShape DEF PatchTask
  <2>2. Reindex(r, new) /\ DOMAIN new = {call[r].id} /\ \A t \in DOMAIN new : new[t] \in Nat
    BY <1>4, <2>1 DEF PatchTask
  <2>3. CASE Commit(r, db') /\ SameDates /\ SameFiles /\ SameObs /\ SameTalk
             /\ db'.taskOf = db.taskOf /\ db'.notes = db.notes
    <3>1. TaskEffect(r)
      BY <2>1, <2>3 DEF TaskEffect, By, Of, IndexWriters
    <3> QED
      BY <1>1, <2>1, <2>3, <3>1 DEF By, Of
  <2>4. CASE Refuse(r, "500") /\ db.taskOf[call[r].id] = Null
    BY <2>1, <2>4 DEF WriteEffects, RefusedFor, By, Of
  <2> HIDE DEF new
  <2> QED
    BY <2>1, <2>2, <2>3, <2>4, ReindexEffects
<1>5. CASE BulkPatchTasks(r)
  <2> DEFINE S == FoundTasks(r)
             new == [t \in S |-> call[r].index]
  <2>1. call[r].ids \subseteq TaskIds /\ call[r].index \in Nat /\ Of(r, "bulkPatchTasks")
    BY <1>5, WriterCalls, TaskCallShape DEF BulkPatchTasks, FoundTasks
  <2>2. Reindex(r, new) /\ DOMAIN new = S /\ S \subseteq TaskIds
        /\ \A t \in DOMAIN new : new[t] \in Nat
    BY <1>5, <2>1 DEF BulkPatchTasks, FoundTasks
  <2>3. CASE Commit(r, db') /\ SameDates /\ SameFiles /\ SameObs /\ SameTalk
             /\ db'.taskOf = db.taskOf /\ db'.notes = db.notes
    <3>1. TaskEffect(r)
      BY <2>1, <2>3 DEF TaskEffect, By, Of, IndexWriters
    <3> QED
      BY <1>1, <2>1, <2>3, <3>1 DEF By, Of
  <2>4. CASE Refuse(r, "500") /\ \E t \in S : db.taskOf[t] = Null
    BY <2>1, <2>4 DEF WriteEffects, RefusedFor, LostTask, FoundTasks, By, Of
  <2> HIDE DEF new, S
  <2> QED
    BY <2>1, <2>2, <2>3, <2>4, ReindexEffects
<1>6. CASE DeleteTask(r)
  <2>1. call[r].id \in TaskIds /\ Of(r, "deleteTask")
    BY <1>6, WriterCalls, TaskCallShape DEF DeleteTask
  <2>2. CASE Unreferenced(call[r].id)
    <3>1. Commit(r, db') /\ db' = [db EXCEPT !.taskOf[call[r].id] = Null]
      BY <1>0, <1>6, <2>2 DEF DeleteTask
    <3>2. SameDates /\ SameFiles /\ SameObs /\ SameTalk
      BY <3>1 DEF SameDates, SameFiles, SameObs, SameTalk, TypeOK, Database
    <3>3. TaskEffect(r)
      BY <2>1, <3>1 DEF TaskEffect, TypeOK, Database, Of, By
    <3> QED
      BY <1>1, <2>1, <3>1, <3>2, <3>3 DEF Of, By
  <2>3. CASE ~Unreferenced(call[r].id)
    BY <1>6, <2>3 DEF DeleteTask, WriteEffects, RefusedFor, By, Of
  <2> QED
    BY <2>2, <2>3
<1>7. CASE AddTaskLog(r)
  <2>1. call[r].id \in TaskIds /\ Of(r, "addLog")
    BY <1>7, WriterCalls, TaskCallShape DEF AddTaskLog
  <2>2. CASE db.taskOf[call[r].id] # Null
    <3> DEFINE notes == db.notes[call[r].id] \cup {r}
    <3>1. Commit(r, db') /\ db' = [db EXCEPT !.notes[call[r].id] = notes]
      BY <1>0, <1>7, <2>2 DEF AddTaskLog
    <3>2. SameDates /\ SameFiles /\ SameObs /\ SameTalk
      <4> HIDE DEF notes
      <4> QED
        BY <3>1 DEF SameDates, SameFiles, SameObs, SameTalk, TypeOK, Database
    <3>3. TaskEffect(r)
      BY <2>1, <3>1 DEF TaskEffect, TypeOK, Database, Of, By
    <3> QED
      BY <1>1, <2>1, <3>1, <3>2, <3>3 DEF Of, By
  <2>3. CASE db.taskOf[call[r].id] = Null
    BY <1>7, <2>3 DEF AddTaskLog, WriteEffects, RefusedFor, By, Of
  <2> QED
    BY <2>2, <2>3
<1> QED
  BY <1>2, <1>3, <1>4, <1>5, <1>6, <1>7 DEF TaskCall

LEMMA FileCallEffects ==
  ASSUME RowsInv, NEW r \in Requests, Aimed(r), FileCall(r) PROVE WriteEffects(r)
<1> USE DEF RowsInv
<1>0. ASSUME NEW rows, Commit(r, rows) PROVE Commit(r, db') /\ db' = rows
  BY <1>0 DEF Commit
<1>1. ASSUME pc[r] = "write", Commit(r, db'), SameDates, SameTasks, SameObs, SameTalk, FileEffect(r),
             By(r, {"registerFile", "registerTaskFile", "deleteFile"} \cup Judges)
      PROVE  WriteEffects(r)
  BY <1>1, SameHasEffects DEF OtherEffects, By, PatchOps, Judges, CommitEffects, Effects, WriteEffects
<1>2. ASSUME NEW t, Commit(r, Registered(r, t)), pc[r] = "write",
             By(r, {"registerFile"}) \/ (By(r, {"registerTaskFile"}) /\ t = call[r].id),
             By(r, {"registerFile"}) => t = Null
      PROVE  WriteEffects(r)
  <2>1. Commit(r, db') /\ db' = Registered(r, t)
    BY <1>0, <1>2
  <2>2. SameDates /\ SameTasks /\ SameObs /\ SameTalk
    BY <2>1 DEF Registered, SameDates, SameTasks, SameObs, SameTalk, TypeOK, Database
  <2>3. /\ db'.key = [db.key EXCEPT ![r] = call[r].key]
        /\ db'.fileTask = [db.fileTask EXCEPT ![r] = t]
        /\ db'.av = db.av
        /\ db'.quarantined = [db.quarantined EXCEPT ![r] = call[r].quarantined]
    BY <2>1 DEF Registered, TypeOK, Database
  <2>4. FileEffect(r)
    BY <1>2, <2>3 DEF FileEffect, Target, Judges, By, TypeOK, Database
  <2> QED
    BY <1>1, <1>2, <2>1, <2>2, <2>4 DEF By
<1>3. ASSUME NEW f \in FileIds, Judge(r, f), pc[r] = "write", By(r, Judges), Target(r, f),
             \A g \in FileIds : Target(r, g) => g = f, call[r].av \in Verdicts
      PROVE  WriteEffects(r)
  <2> DEFINE status == [x \in {f} |-> call[r].av]
             av == Updated(db.av, seen[r].av, status)
             quarantined == Updated(db.quarantined, seen[r].quarantined, Quarantine(r, f))
             lost == {x \in Changed(seen[r].av, status)
                              \cup Changed(seen[r].quarantined, Quarantine(r, f)) : db.key[x] = Null}
  <2>1. \/ Commit(r, [db EXCEPT !.av = av, !.quarantined = quarantined])
        \/ lost # {} /\ Refuse(r, "500")
    BY <1>3 DEF Judge, Batch
  <2>2. /\ call[r].av = "clean" => Quarantine(r, f) = [x \in {f} |-> FALSE]
        /\ call[r].av = "infected" /\ call[r].op # "scan" => Quarantine(r, f) = [x \in {f} |-> TRUE]
        /\ call[r].av # "clean" /\ ~(call[r].av = "infected" /\ call[r].op # "scan")
             => Quarantine(r, f) = <<>>
    BY DEF Quarantine
  <2>3. DOMAIN Quarantine(r, f) \subseteq {f}
    <3>1. CASE call[r].av = "clean"
      BY <2>2, <3>1
    <3>2. CASE call[r].av = "infected" /\ call[r].op # "scan"
      BY <2>2, <3>2
    <3>3. CASE call[r].av # "clean" /\ ~(call[r].av = "infected" /\ call[r].op # "scan")
      <4>1. Quarantine(r, f) = <<>>
        BY <2>2, <3>3
      <4> QED
        BY <4>1
    <3> QED
      BY <3>1, <3>2, <3>3
  <2>4. CASE Commit(r, [db EXCEPT !.av = av, !.quarantined = quarantined])
    <3>1. Commit(r, db') /\ db' = [db EXCEPT !.av = av, !.quarantined = quarantined]
      BY <1>0, <2>4
    <3>2. /\ SameDates /\ SameTasks /\ SameObs /\ SameTalk
          /\ db'.key = db.key /\ db'.fileTask = db.fileTask
          /\ db'.av = av /\ db'.quarantined = quarantined
      <4> HIDE DEF av, quarantined
      <4> QED
        BY <3>1 DEF SameDates, SameTasks, SameObs, SameTalk, TypeOK, Database
    <3>3. \A g \in FileIds : av[g] = IF g = f /\ call[r].av # seen[r].av[g]
                                     THEN call[r].av ELSE db.av[g]
      BY DEF Updated, Changed, TypeOK, Database
    <3>4. \A g \in FileIds : quarantined[g] =
            IF g \in DOMAIN Quarantine(r, f) /\ Quarantine(r, f)[g] # seen[r].quarantined[g]
            THEN Quarantine(r, f)[g] ELSE db.quarantined[g]
      BY DEF Updated, Changed, TypeOK, Database
    <3>5. ASSUME NEW g \in FileIds
          PROVE  /\ g # f => quarantined[g] = db.quarantined[g]
                 /\ quarantined[g] # db.quarantined[g] =>
                      g = f /\ (~quarantined[g] => call[r].av = "clean")
                 /\ g = f /\ call[r].av = "infected" /\ call[r].op # "scan" /\ ~seen[r].quarantined[g]
                      => quarantined[g]
      <4> HIDE DEF quarantined
      <4>1. CASE call[r].av = "clean"
        BY <2>2, <2>3, <3>4, <4>1
      <4>2. CASE call[r].av = "infected" /\ call[r].op # "scan"
        <5>1. Quarantine(r, f) = [x \in {f} |-> TRUE]
          BY <2>2, <4>2
        <5> QED
          BY <3>4, <4>2, <5>1
      <4>3. CASE call[r].av # "clean" /\ ~(call[r].av = "infected" /\ call[r].op # "scan")
        <5>1. Quarantine(r, f) = <<>>
          BY <2>2, <4>3
        <5>2. g \notin DOMAIN Quarantine(r, f)
          BY <5>1
        <5> QED
          BY <3>4, <4>3, <5>2
      <4> QED
        BY <4>1, <4>2, <4>3
    <3>6. FileEffect(r)
      <4> HIDE DEF av, quarantined
      <4> QED
        BY <1>3, <3>2, <3>3, <3>5 DEF FileEffect
    <3> QED
      BY <1>1, <1>3, <3>1, <3>2, <3>6 DEF By
  <2>5. CASE lost # {} /\ Refuse(r, "500")
    <3>1. db.key[f] = Null
      BY <2>3, <2>5 DEF Changed
    <3> QED
      BY <1>3, <2>5, <3>1 DEF WriteEffects, RefusedFor
  <2> QED
    BY <2>1, <2>4, <2>5
<1>4. CASE RegisterCaseAttachment(r)
  BY <1>2, <1>4 DEF RegisterCaseAttachment, Of, By
<1>5. CASE RegisterTaskAttachment(r)
  <2>1. CASE db.taskOf[call[r].id] # Null
    BY <1>2, <1>5, <2>1 DEF RegisterTaskAttachment, Of, By
  <2>2. CASE db.taskOf[call[r].id] = Null
    BY <1>5, <2>2 DEF RegisterTaskAttachment, Of, By, WriteEffects, RefusedFor
  <2> QED
    BY <2>1, <2>2
<1>6. CASE AvScanWebhook(r)
  <2>1. call[r] \in Calls /\ call[r].op \in {"verdict", "verdictByKey"} /\ pc[r] = "write"
    BY <1>6, WriterCalls DEF AvScanWebhook, Of
  <2>2. call[r].av \in Verdicts /\ (call[r].op = "verdict" => call[r].id \in FileIds)
    BY <2>1, FileCallShape
  <2>3. CASE call[r].op = "verdict"
    BY <1>3, <1>6, <2>1, <2>2, <2>3 DEF AvScanWebhook, Of, By, Judges, Target
  <2>4. CASE call[r].op = "verdictByKey"
    <3>1. PICK f \in FileIds : seen[r].key[f] = call[r].key /\ Judge(r, f)
      BY <1>6, <2>4 DEF AvScanWebhook, Of
    <3>2. \A g \in FileIds : seen[r].key[g] = call[r].key => g = f
      BY <2>4, <3>1 DEF Aimed, AimsAt
    <3> QED
      BY <1>3, <2>1, <2>2, <2>4, <3>1, <3>2 DEF By, Judges, Target
  <2> QED
    BY <2>1, <2>3, <2>4
<1>7. CASE SetAvScan(r)
  <2>1. call[r].av \in Verdicts /\ call[r].id \in FileIds
    BY <1>7, WriterCalls, FileCallShape DEF SetAvScan
  <2> QED
    BY <1>3, <1>7, <2>1 DEF SetAvScan, Of, By, Judges, Target
<1>8. CASE DeleteAttachment(r)
  <2>1. Commit(r, db') /\ db' = [db EXCEPT !.key[call[r].id] = Null, !.fileTask[call[r].id] = Null]
        /\ Of(r, "deleteFile")
    BY <1>0, <1>8 DEF DeleteAttachment
  <2>2. SameDates /\ SameTasks /\ SameObs /\ SameTalk
    BY <2>1 DEF SameDates, SameTasks, SameObs, SameTalk, TypeOK, Database
  <2>3. /\ db'.key = [db.key EXCEPT ![call[r].id] = Null]
        /\ db'.fileTask = [db.fileTask EXCEPT ![call[r].id] = Null]
        /\ db'.av = db.av /\ db'.quarantined = db.quarantined
    BY <2>1 DEF TypeOK, Database
  <2>4. FileEffect(r)
    BY <2>1, <2>3 DEF FileEffect, Target, Judges, By, Of, TypeOK, Database
  <2> QED
    BY <1>1, <2>1, <2>2, <2>4 DEF By, Of
<1> QED
  BY <1>4, <1>5, <1>6, <1>7, <1>8 DEF FileCall

MoveEffect(r, S, to) ==
  /\ Commit(r, db') /\ SameDates /\ SameTasks /\ SameFiles /\ SameTalk
  /\ db'.value = db.value /\ db'.dropped = db.dropped
  /\ \E T \in Audited(S) : db'.trail = Append(db.trail, Moved(r, T, to))
  /\ \A o \in ObsIds : db'.place[o] = IF o \in S THEN to ELSE db.place[o]
LEMMA MoveEffects ==
  ASSUME RowsInv, NEW r \in Requests, NEW S \in SUBSET ObsIds, NEW to \in Cases \cup {Null},
         Move(r, S, to), S # {}, \A o \in S : seen[r].place[o] # to
  PROVE  MoveEffect(r, S, to)
<1> USE DEF RowsInv
<1>1. PICK T \in Audited(S) :
        Commit(r, [db EXCEPT !.place = Updated(@, seen[r].place, [o \in S |-> to]),
                             !.trail = Append(@, Moved(r, T, to))])
  BY DEF Move
<1> DEFINE place == Updated(db.place, seen[r].place, [o \in S |-> to])
           trail == Append(db.trail, Moved(r, T, to))
<1>2. Commit(r, db') /\ db' = [db EXCEPT !.place = place, !.trail = trail]
  BY <1>1 DEF Commit
<1>3. /\ SameDates /\ SameTasks /\ SameFiles /\ SameTalk
      /\ db'.value = db.value /\ db'.dropped = db.dropped
      /\ db'.place = place /\ db'.trail = trail
  <2> HIDE DEF place, trail
  <2> QED
    BY <1>2 DEF SameDates, SameTasks, SameFiles, SameTalk, TypeOK, Database
<1>4. \A o \in ObsIds : place[o] = IF o \in S THEN to ELSE db.place[o]
  BY DEF Updated, Changed, TypeOK, Database
<1> QED
  BY <1>2, <1>3, <1>4 DEF MoveEffect

(* The record of a short list is complete.                                 *)
LEMMA AuditedAll ==
  ASSUME NEW ids, IsFiniteSet(ids), Cardinality(ids) <= AuditedIds, NEW S \in SUBSET ids,
         NEW T \in Audited(S)
  PROVE  T = S
<1>1. Cardinality(S) \in Nat /\ Cardinality(ids) \in Nat /\ Cardinality(S) <= Cardinality(ids)
  BY FS_Subset, FS_CardinalityType
<1>2. Cardinality(S) <= AuditedIds
  BY <1>1, AuditAssumption
<1> QED
  BY <1>2 DEF Audited
LEMMA AuditedOne == ASSUME NEW o, NEW T \in Audited({o}) PROVE T = {o}
<1>1. Cardinality({o}) = 1
  BY FS_Singleton
<1> QED
  BY <1>1, AuditAssumption DEF Audited

LEMMA ObservableCallEffects ==
  ASSUME RowsInv, NEW r \in Requests, Aimed(r), ObservableCall(r) PROVE WriteEffects(r)
<1> USE DEF RowsInv
<1>0. ASSUME NEW rows, Commit(r, rows) PROVE Commit(r, db') /\ db' = rows
  BY <1>0 DEF Commit
<1>1. ASSUME pc[r] = "write", Commit(r, db'), SameDates, SameTasks, SameFiles, SameTalk, ObsEffect(r),
             By(r, {"createObservable", "import", "attach", "detach", "deleteObservable"})
      PROVE  WriteEffects(r)
  BY <1>1, SameHasEffects DEF OtherEffects, By, PatchOps, Judges, CommitEffects, Effects, WriteEffects
<1>2. CASE CreateObservable(r)
  <2>1. Commit(r, db') /\ db' = [db EXCEPT !.value[r] = call[r].value] /\ Of(r, "createObservable")
    BY <1>0, <1>2 DEF CreateObservable
  <2>2. SameDates /\ SameTasks /\ SameFiles /\ SameTalk
    BY <2>1 DEF SameDates, SameTasks, SameFiles, SameTalk, TypeOK, Database
  <2>3. ObsEffect(r)
    BY <2>1 DEF ObsEffect, By, Of, TypeOK, Database
  <2> QED
    BY <1>1, <2>1, <2>2, <2>3 DEF By, Of
<1>3. CASE ImportObservables(r)
  <2>1. Of(r, "import") /\ call[r].case \in Cases \cup {Null}
    BY <1>3, WriterCalls, ObservableCallShape DEF ImportObservables
  <2>2. CASE Twins(r) # {}
    <3>1. Commit(r, db') /\ db' = db
      BY <1>0, <1>3, <2>2 DEF ImportObservables
    <3>2. SameDates /\ SameTasks /\ SameFiles /\ SameTalk
      BY <3>1 DEF SameDates, SameTasks, SameFiles, SameTalk
    <3>3. ObsEffect(r)
      BY <2>2, <3>1 DEF ObsEffect
    <3> QED
      BY <1>1, <2>1, <3>1, <3>2, <3>3 DEF By, Of
  <2>3. CASE Twins(r) = {}
    <3> DEFINE trail == Append(db.trail, Moved(r, {r}, call[r].case))
    <3>1. /\ Commit(r, db')
          /\ db' = [db EXCEPT !.value[r] = Stored[call[r].value], !.place[r] = call[r].case, !.trail = trail]
      BY <1>0, <1>3, <2>3 DEF ImportObservables
    <3>2. /\ SameDates /\ SameTasks /\ SameFiles /\ SameTalk
          /\ db'.value = [db.value EXCEPT ![r] = Stored[call[r].value]]
          /\ db'.place = [db.place EXCEPT ![r] = call[r].case]
          /\ db'.trail = trail /\ db'.dropped = db.dropped
      <4> HIDE DEF trail
      <4> QED
        BY <3>1 DEF SameDates, SameTasks, SameFiles, SameTalk, TypeOK, Database
    <3>3. r \in ObsIds /\ {r} \in SUBSET ObsIds
      BY DEF ObsIds
    <3>4. /\ \A o \in ObsIds : db'.value[o] = IF o = r THEN Stored[call[r].value] ELSE db.value[o]
          /\ \A o \in ObsIds : db'.place[o] = IF o = r THEN call[r].case ELSE db.place[o]
      BY <3>2, <3>3 DEF TypeOK, Database
    <3>5. Recorded(r, {r}, call[r].case)
      BY <3>2, <3>3, <3>4 DEF Recorded
    <3>6. ObsEffect(r)
      <4> HIDE DEF trail
      <4> QED
        BY <2>1, <2>3, <3>2, <3>3, <3>4, <3>5 DEF ObsEffect, By, Of
    <3> QED
      BY <1>1, <2>1, <3>1, <3>2, <3>6 DEF By, Of
  <2> QED
    BY <2>2, <2>3
<1>4. CASE AttachObservables(r)
  <2> DEFINE S == {o \in call[r].ids \ seen[r].dropped :
                     seen[r].value[o] # Null /\ seen[r].place[o] # call[r].case}
  <2>1. call[r].ids \in SUBSET ObsIds /\ IsFiniteSet(call[r].ids) /\ call[r].case \in Cases
        /\ Of(r, "attach")
    BY <1>4, WriterCalls, ObservableCallShape DEF AttachObservables
  <2>2. S \in SUBSET ObsIds /\ S \in SUBSET call[r].ids /\ \A o \in S : seen[r].place[o] # call[r].case
    BY <2>1
  <2>3. IF S = {} THEN Commit(r, db) ELSE Move(r, S, call[r].case)
    BY <1>4 DEF AttachObservables
  <2> HIDE DEF S
  <2>4. CASE S = {}
    <3>1. Commit(r, db') /\ db' = db
      BY <1>0, <2>3, <2>4
    <3>2. SameDates /\ SameTasks /\ SameFiles /\ SameTalk /\ SameObs
      BY <3>1 DEF SameDates, SameTasks, SameFiles, SameTalk, SameObs
    <3>3. ObsEffect(r)
      BY <2>1, <3>2, SameHasEffects DEF OtherEffects, By, Of
    <3> QED
      BY <1>1, <2>1, <3>1, <3>2, <3>3 DEF By, Of
  <2>5. CASE S # {}
    <3>1. /\ Commit(r, db') /\ SameDates /\ SameTasks /\ SameFiles /\ SameTalk
          /\ db'.value = db.value /\ db'.dropped = db.dropped
          /\ \E T \in Audited(S) : db'.trail = Append(db.trail, Moved(r, T, call[r].case))
          /\ \A o \in ObsIds : db'.place[o] = IF o \in S THEN call[r].case ELSE db.place[o]
      <4>1. call[r].case \in Cases \cup {Null} /\ Move(r, S, call[r].case)
        BY <2>1, <2>3, <2>5
      <4>2. MoveEffect(r, S, call[r].case)
        <5> HIDE DEF RowsInv
        <5> QED
          BY <2>2, <2>5, <4>1, MoveEffects
      <4> QED
        BY <4>2 DEF MoveEffect
    <3>2. PICK T \in Audited(S) : db'.trail = Append(db.trail, Moved(r, T, call[r].case))
      BY <3>1
    <3>3. T \subseteq S /\ T \in SUBSET ObsIds
      BY <2>2, <3>2, AuditedParts
    <3>4. Recorded(r, T, call[r].case)
      BY <2>2, <3>1, <3>2, <3>3 DEF Recorded
    <3>5. ASSUME NEW o \in ObsIds \ T, db'.place[o] # db.place[o]
          PROVE  By(r, {"attach"}) /\ o \in call[r].ids /\ ~(Cardinality(call[r].ids) <= AuditedIds)
      <4>1. o \in S
        BY <3>1, <3>5
      <4>2. T # S
        BY <3>5, <4>1
      <4> QED
        BY <2>1, <2>2, <3>2, <4>1, <4>2, AuditedAll DEF By, Of
    <3>6. ~(Cardinality(call[r].ids) <= AuditedIds) => Cardinality(call[r].ids) > AuditedIds
      BY <2>1, FS_CardinalityType, AuditAssumption
    <3>7. ObsEffect(r)
      BY <2>1, <2>2, <3>1, <3>3, <3>4, <3>5, <3>6 DEF ObsEffect, By, Of
    <3> QED
      BY <1>1, <2>1, <3>1, <3>7 DEF By, Of
  <2> QED
    BY <2>4, <2>5
<1>5. CASE DetachObservable(r)
  <2>1. call[r].case \in Cases /\ call[r].id \in ObsIds /\ Of(r, "detach") /\ Move(r, {call[r].id}, Null)
    BY <1>5, WriterCalls, ObservableCallShape DEF DetachObservable
  <2>2. seen[r].place[call[r].id] # Null
    BY <2>1, NullOut DEF Aimed, AimsAt, Of
  <2>3. /\ Commit(r, db') /\ SameDates /\ SameTasks /\ SameFiles /\ SameTalk
        /\ db'.value = db.value /\ db'.dropped = db.dropped
        /\ \E T \in Audited({call[r].id}) : db'.trail = Append(db.trail, Moved(r, T, Null))
        /\ \A o \in ObsIds : db'.place[o] = IF o \in {call[r].id} THEN Null ELSE db.place[o]
    <3>1. {call[r].id} \in SUBSET ObsIds /\ {call[r].id} # {}
          /\ Null \in Cases \cup {Null}
          /\ \A o \in {call[r].id} : seen[r].place[o] # Null
      BY <2>1, <2>2
    <3> QED
      <4>1. MoveEffect(r, {call[r].id}, Null)
        <5> HIDE DEF RowsInv
        <5> QED
          BY <2>1, <3>1, MoveEffects
      <4> QED
        BY <4>1 DEF MoveEffect
  <2>4. db'.trail = Append(db.trail, Moved(r, {call[r].id}, Null))
    BY <2>3, AuditedOne
  <2>5. Recorded(r, {call[r].id}, Null)
    BY <2>1, <2>3, <2>4 DEF Recorded
  <2>6. ObsEffect(r)
    <3>1. {call[r].id} \in SUBSET ObsIds /\ Null \in Cases \cup {Null}
      BY <2>1
    <3> QED
      BY <2>1, <2>3, <2>5, <3>1 DEF ObsEffect, By, Of
  <2> QED
    BY <1>1, <2>1, <2>3, <2>6 DEF By, Of
<1>6. CASE DeleteObservable(r)
  <2> DEFINE dropped == db.dropped \cup {call[r].id}
  <2>1. Commit(r, db') /\ db' = [db EXCEPT !.dropped = dropped] /\ Of(r, "deleteObservable")
    BY <1>0, <1>6 DEF DeleteObservable
  <2>2. /\ SameDates /\ SameTasks /\ SameFiles /\ SameTalk /\ db'.value = db.value
        /\ db'.place = db.place /\ db'.trail = db.trail /\ db'.dropped = dropped
    <3> HIDE DEF dropped
    <3> QED
      BY <2>1 DEF SameDates, SameTasks, SameFiles, SameTalk, TypeOK, Database
  <2>3. ObsEffect(r)
    BY <2>1, <2>2 DEF ObsEffect, By, Of
  <2> QED
    BY <1>1, <2>1, <2>2, <2>3 DEF By, Of
<1> QED
  BY <1>2, <1>3, <1>4, <1>5, <1>6 DEF ObservableCall

LEMMA TalkCallEffects ==
  ASSUME RowsInv, NEW r \in Requests, TalkCall(r) PROVE WriteEffects(r)
<1> USE DEF RowsInv
<1> DEFINE Ops == {"comment", "portalComment", "patchComment", "deleteComment",
                   "link", "unlink", "grant", "revoke"}
<1>0. ASSUME NEW rows, Commit(r, rows) PROVE Commit(r, db') /\ db' = rows
  BY <1>0 DEF Commit
<1>1. ASSUME pc[r] = "write", Commit(r, db'), SameDates, SameTasks, SameFiles, SameObs, TalkEffect(r),
             call[r].op \in Ops
      PROVE  WriteEffects(r)
  BY <1>1, SameHasEffects DEF OtherEffects, By, PatchOps, Judges, CommitEffects, Effects, WriteEffects
<1>2. ASSUME NEW c, NEW by, Commit(r, [db EXCEPT !.said[c] = by]), pc[r] = "write", call[r].op \in Ops,
             by = Null => By(r, {"deleteComment"}) /\ call[r].id = c
      PROVE  WriteEffects(r)
  <2>1. Commit(r, db') /\ db' = [db EXCEPT !.said[c] = by]
    BY <1>0, <1>2
  <2>2. /\ SameDates /\ SameTasks /\ SameFiles /\ SameObs
        /\ db'.share = db.share /\ db'.link = db.link /\ db'.said = [db.said EXCEPT ![c] = by]
    BY <2>1 DEF SameDates, SameTasks, SameFiles, SameObs, TypeOK, Database
  <2>3. TalkEffect(r)
    BY <1>2, <2>2 DEF TalkEffect, TypeOK, Database
  <2> QED
    BY <1>1, <1>2, <2>1, <2>2, <2>3
<1>3. ASSUME NEW share, NEW s, Commit(r, db'), SameDates, SameTasks, SameFiles, SameObs,
             db'.said = db.said, db'.link = db.link, db'.share = [db.share EXCEPT ![s] = share],
             pc[r] = "write", By(r, {"grant", "revoke"}), s = <<call[r].case, call[r].user>>
      PROVE  WriteEffects(r)
  <2>1. TalkEffect(r)
    BY <1>3 DEF TalkEffect, TypeOK, Database
  <2> QED
    BY <1>1, <1>3, <2>1 DEF By
<1>4. ASSUME NEW link, Commit(r, [db EXCEPT !.link = link]), pc[r] = "write", By(r, {"link", "unlink"}),
             \A p \in Cases \X Cases : link[p] \in {db.link[p], Null}
               \/ (By(r, {"link"}) /\ p = <<call[r].case, call[r].id>> /\ link[p] = r)
      PROVE  WriteEffects(r)
  <2>1. Commit(r, db') /\ db' = [db EXCEPT !.link = link]
    BY <1>0, <1>4
  <2>2. /\ SameDates /\ SameTasks /\ SameFiles /\ SameObs
        /\ db'.said = db.said /\ db'.share = db.share /\ db'.link = link
    BY <2>1 DEF SameDates, SameTasks, SameFiles, SameObs, TypeOK, Database
  <2>3. TalkEffect(r)
    BY <1>4, <2>2 DEF TalkEffect
  <2> QED
    BY <1>1, <1>4, <2>1, <2>2, <2>3 DEF By
<1>5. CASE CreateComment(r)
  BY <1>2, <1>5, NullOut DEF CreateComment, Of, By
<1>6. CASE PatchComment(r)
  <2>1. CASE db.said[call[r].id] # Null
    BY <1>2, <1>6, <2>1, NullOut DEF PatchComment, Of, By
  <2>2. CASE db.said[call[r].id] = Null
    BY <1>6, <2>2 DEF PatchComment, Of, By, WriteEffects, RefusedFor
  <2> QED
    BY <2>1, <2>2
<1>7. CASE DeleteComment(r)
  BY <1>2, <1>7 DEF DeleteComment, Of, By
<1>8. CASE CreateLink(r)
  <2> DEFINE p == <<call[r].case, call[r].id>>
             link == [db.link EXCEPT ![p] = r]
  <2>1. CASE LinkFree(call[r])
    <3>1. Commit(r, [db EXCEPT !.link[p] = r]) /\ Of(r, "link")
      BY <1>8, <2>1 DEF CreateLink
    <3>2. Commit(r, [db EXCEPT !.link = link])
      BY <3>1 DEF TypeOK, Database
    <3>3. \A q \in Cases \X Cases : link[q] \in {db.link[q], Null} \/ (q = p /\ link[q] = r)
      BY DEF TypeOK, Database
    <3> HIDE DEF link
    <3> QED
      BY <1>4, <3>1, <3>2, <3>3 DEF Of, By
  <2>2. CASE ~LinkFree(call[r])
    BY <1>8, <2>2 DEF CreateLink, Of, By, WriteEffects, RefusedFor
  <2> QED
    BY <2>1, <2>2
<1>9. CASE DeleteLink(r)
  <2> DEFINE link == [p \in Cases \X Cases |-> IF db.link[p] = call[r].id THEN Null ELSE db.link[p]]
  <2>1. Commit(r, [db EXCEPT !.link = link]) /\ Of(r, "unlink")
    BY <1>9 DEF DeleteLink
  <2>2. \A p \in Cases \X Cases : link[p] \in {db.link[p], Null}
    OBVIOUS
  <2> HIDE DEF link
  <2> QED
    BY <1>4, <2>1, <2>2 DEF Of, By
<1>10. CASE GrantShare(r)
  <2> DEFINE s == <<call[r].case, call[r].user>>
             may == IF call[r].may THEN db.mayComment \cup {s} ELSE db.mayComment
  <2>1. CASE ShareFree(call[r])
    <3>1. Commit(r, db') /\ db' = [db EXCEPT !.share[s] = "active", !.mayComment = may]
          /\ Of(r, "grant")
      BY <1>0, <1>10, <2>1 DEF GrantShare
    <3>2. /\ SameDates /\ SameTasks /\ SameFiles /\ SameObs
          /\ db'.said = db.said /\ db'.link = db.link
          /\ db'.share = [db.share EXCEPT ![s] = "active"]
      <4> HIDE DEF may
      <4> QED
        BY <3>1 DEF SameDates, SameTasks, SameFiles, SameObs, TypeOK, Database
    <3> QED
      BY <1>3, <3>1, <3>2 DEF Of, By
  <2>2. CASE ~ShareFree(call[r])
    BY <1>10, <2>2 DEF GrantShare, Of, By, WriteEffects, RefusedFor
  <2> QED
    BY <2>1, <2>2
<1>11. CASE RevokeShare(r)
  <2> DEFINE s == <<call[r].case, call[r].user>>
  <2>1. Commit(r, db') /\ db' = [db EXCEPT !.share[s] = "revoked"] /\ Of(r, "revoke")
    BY <1>0, <1>11 DEF RevokeShare
  <2>2. /\ SameDates /\ SameTasks /\ SameFiles /\ SameObs
        /\ db'.said = db.said /\ db'.link = db.link
        /\ db'.share = [db.share EXCEPT ![s] = "revoked"]
    BY <2>1 DEF SameDates, SameTasks, SameFiles, SameObs, TypeOK, Database
  <2> QED
    BY <1>3, <2>1, <2>2 DEF Of, By
<1> QED
  BY <1>5, <1>6, <1>7, <1>8, <1>9, <1>10, <1>11 DEF TalkCall

LEMMA UnfitCallEffects ==
  ASSUME NEW r \in Requests, UnfitCall(r) PROVE WriteEffects(r)
<1>1. pc[r] = "write"
  BY DEF UnfitCall, RefusedBody, UnwrittenBody, Unfit
<1>2. CASE UnwrittenBody(r)
  <2>1. Commit(r, db') /\ db' = db
    BY <1>2 DEF UnwrittenBody, Commit
  <2>2. SameDates /\ SameTasks /\ SameFiles /\ SameObs /\ SameTalk
    BY <2>1 DEF SameDates, SameTasks, SameFiles, SameObs, SameTalk
  <2>3. /\ By(r, {"bulkPatchCases", "bulkPatchTasks", "import"})
        /\ By(r, {"bulkPatchCases"}) => Scope(r) = {}
        /\ By(r, {"import"}) => Twins(r) # {}
    BY <1>2 DEF UnwrittenBody, By, Scope
  <2>4. DateEffect(r)
    BY <2>1, <2>3 DEF DateEffect, By, PatchOps
  <2>5. ObsEffect(r)
    BY <2>1, <2>3 DEF ObsEffect, By
  <2> QED
    BY <1>1, <2>1, <2>2, <2>3, <2>4, <2>5, SameHasEffects
    DEF OtherEffects, By, Judges, CommitEffects, Effects, WriteEffects
<1>3. CASE RefusedBody(r)
  BY <1>1, <1>3 DEF RefusedBody, Unfit, RefusedFor, WriteEffects
<1> QED
  BY <1>2, <1>3 DEF UnfitCall

-----------------------------------------------------------------------------
(* Every step either commits nothing or is one commit, with its effects.   *)
Calm ==
  /\ db' = db /\ log' = log
  /\ \A q \in Requests :
       /\ Done(q)' <=> Done(q)
       /\ Nth(q)' = Nth(q)
       /\ Done(q) => call'[q] = call[q] /\ seen'[q] = seen[q] /\ readAt'[q] = readAt[q]
       /\ pc'[q] = "write" =>
            /\ call'[q] = call[q]
            /\ \/ pc[q] = "write" /\ seen'[q] = seen[q] /\ readAt'[q] = readAt[q]
               \/ seen'[q] = db /\ readAt'[q] = Len(log) /\ Wanted(call[q]) = "write"
       /\ pc'[q] \in {"409", "500"} =>
            /\ call'[q] = call[q]
            /\ \/ /\ pc'[q] = pc[q] \/ (pc[q] = "write" /\ RefusedFor(q))
                  /\ seen'[q] = seen[q] /\ readAt'[q] = readAt[q]
               \/ seen'[q] = db /\ pc'[q] = Wanted(call[q])
       /\ seen'[q] \in {seen[q], db}
Grown(r) ==
  /\ pc[r] = "write" /\ ~Done(r) /\ Done(r)' /\ Nth(r)' = Len(log) + 1 /\ Len(log) \in Nat
  /\ call' = call /\ seen' = seen /\ readAt' = readAt
  /\ \A q \in Requests :
       /\ Done(q)' <=> Done(q) \/ q = r
       /\ Done(q) => Nth(q)' = Nth(q) /\ Nth(q) \in 1..Len(log)
       /\ pc'[q] = "write" => pc[q] = "write" /\ q # r
       /\ pc'[q] = IF q = r THEN "200" ELSE pc[q]
       /\ readAt[q] \in Nat /\ readAt[q] <= Len(log)

LEMMA CommitGrows ==
  ASSUME CoreInv, CoreInv', NEW r \in Requests, pc[r] = "write", NEW rows, Commit(r, rows)
  PROVE  Grown(r)
<1> USE DEF CoreInv, RowsInv
<1>1. /\ log' = Append(log, r) /\ call' = call /\ seen' = seen /\ readAt' = readAt
      /\ pc' = [pc EXCEPT ![r] = "200"]
  BY DEF Commit, Answer
<1>2. Len(log) \in Nat /\ Len(log') = Len(log) + 1 /\ log'[Len(log) + 1] = r
      /\ \A i \in 1..Len(log) : log'[i] = log[i]
  BY <1>1 DEF TypeOK
<1>3. \A i, j \in 1..Len(log') : log'[i] = log'[j] => i = j
  BY DEF CommitOrder
<1>4. log' \in Seq(Requests)
  BY DEF TypeOK
<1>5. Nth(r)' = Len(log) + 1
  <2>1. Len(log) + 1 \in 1..Len(log')
    BY <1>2
  <2> QED
    BY <1>2, <1>3, <1>4, <2>1, PlaceIn DEF Nth
<1>6. ASSUME NEW q \in Requests, Done(q) PROVE Nth(q)' = Nth(q) /\ Nth(q) \in 1..Len(log)
  <2>1. Nth(q) \in 1..Len(log) /\ log[Nth(q)] = q
    BY <1>6, NthIs
  <2>2. Nth(q) \in 1..Len(log') /\ log'[Nth(q)] = q
    BY <1>2, <2>1
  <2> QED
    BY <1>3, <1>4, <2>1, <2>2, PlaceIn DEF Nth
<1>7. ~Done(r) /\ Done(r)'
  BY <1>1 DEF Done, TypeOK
<1>8. ASSUME NEW q \in Requests
      PROVE  /\ Done(q)' <=> Done(q) \/ q = r
             /\ pc'[q] = "write" => pc[q] = "write" /\ q # r
             /\ pc'[q] = IF q = r THEN "200" ELSE pc[q]
             /\ readAt[q] \in Nat /\ readAt[q] <= Len(log)
  BY <1>1 DEF Done, TypeOK, CommitOrder
<1> QED
  BY <1>1, <1>2, <1>5, <1>6, <1>7, <1>8 DEF Grown

LEMMA WaitingIsCalm ==
  ASSUME CoreInv, NEW r \in Requests, Send(r) \/ CheckCase(r) \/ Read(r) PROVE Calm
<1> USE DEF CoreInv, RowsInv
<1>1. /\ db' = db /\ log' = log /\ pc[r] \in {"idle", "check", "read"}
      /\ \A q \in Requests \ {r} : /\ pc'[q] = pc[q] /\ call'[q] = call[q] /\ seen'[q] = seen[q]
                                   /\ readAt'[q] = readAt[q]
      /\ pc'[r] # "200"
      /\ pc'[r] = "write" => /\ seen'[r] = db /\ readAt'[r] = Len(log) /\ call'[r] = call[r]
                             /\ Wanted(call[r]) = "write"
      /\ pc'[r] \in {"409", "500"} => /\ seen'[r] = db /\ call'[r] = call[r]
                                      /\ pc'[r] = Wanted(call[r])
      /\ seen'[r] \in {seen[r], db}
  <2>1. CASE Send(r)
    <3>1. PICK c : call' = [call EXCEPT ![r] = c]
      BY <2>1 DEF Send
    <3>2. pc'[r] \in {"check", "read"} /\ \A q \in Requests \ {r} : pc'[q] = pc[q]
      BY <2>1 DEF Send, Answer, TypeOK
    <3> QED
      BY <2>1, <3>1, <3>2 DEF Send, TypeOK
  <2>2. CASE CheckCase(r)
    BY <2>2 DEF CheckCase, Answer, TypeOK
  <2>3. CASE Read(r)
    <3>1. Wanted(call[r]) # "200"
      BY WantedRange
    <3> QED
      BY <2>3, <3>1 DEF Read, Answer, TypeOK
  <2> QED
    BY <2>1, <2>2, <2>3
<1>2. ASSUME NEW q \in Requests
      PROVE  /\ Done(q)' <=> Done(q)
             /\ Done(q) => call'[q] = call[q] /\ seen'[q] = seen[q] /\ readAt'[q] = readAt[q]
             /\ pc'[q] = "write" =>
                  /\ call'[q] = call[q]
                  /\ \/ pc[q] = "write" /\ seen'[q] = seen[q] /\ readAt'[q] = readAt[q]
                     \/ seen'[q] = db /\ readAt'[q] = Len(log) /\ Wanted(call[q]) = "write"
             /\ pc'[q] \in {"409", "500"} =>
                  /\ call'[q] = call[q]
                  /\ \/ pc'[q] = pc[q] /\ seen'[q] = seen[q] /\ readAt'[q] = readAt[q]
                     \/ seen'[q] = db /\ pc'[q] = Wanted(call[q])
             /\ seen'[q] \in {seen[q], db}
  BY <1>1 DEF Done
<1>3. \A q \in Requests : Nth(q)' = Nth(q)
  BY <1>1 DEF Nth
<1> QED
  BY <1>1, <1>2, <1>3 DEF Calm

LEMMA RefusalIsCalm ==
  ASSUME CoreInv, NEW r \in Requests, pc[r] = "write", NEW code \in {"409", "500"}, Refuse(r, code),
         RefusedFor(r)
  PROVE  Calm
<1> USE DEF CoreInv, RowsInv
<1>1. /\ UNCHANGED <<db, call, seen, log, readAt>>
      /\ pc'[r] = code /\ \A q \in Requests \ {r} : pc'[q] = pc[q]
  BY DEF Refuse, Answer, TypeOK
<1> QED
  BY <1>1 DEF Calm, Done, Nth

LEMMA StutterIsCalm == ASSUME UNCHANGED vars PROVE Calm
BY DEF vars, Calm, Done, Nth

LEMMA WriteSteps ==
  ASSUME CoreInv, CoreInv', NEW r \in Requests, Aimed(r),
         \/ CaseCall(r) \/ TaskCall(r) \/ FileCall(r) \/ ObservableCall(r) \/ TalkCall(r)
         \/ UnfitCall(r)
  PROVE  (Grown(r) /\ Effects(r)) \/ (Calm /\ RefusedFor(r))
<1>1. WriteEffects(r)
  <2>1. RowsInv
    BY DEF CoreInv
  <2>2. CASE CaseCall(r)
    <3>1. pc[r] = "write"
      BY <2>2 DEF CaseCall, PatchCase, BulkPatchCases, DeleteCase, Of
    <3> QED
      BY <2>1, <2>2, <3>1, CaseCallEffects DEF WriteEffects
  <2> QED
    BY <2>1, <2>2, TaskCallEffects, FileCallEffects, ObservableCallEffects, TalkCallEffects,
       UnfitCallEffects
<1>2. CASE CommitEffects(r)
  BY <1>1, <1>2, CommitGrows DEF WriteEffects, CommitEffects
<1>3. CASE RefusedFor(r)
  <2>1. Refuse(r, "409") \/ Refuse(r, "500")
    BY <1>3 DEF RefusedFor
  <2> QED
    BY <1>1, <1>3, <2>1, RefusalIsCalm DEF WriteEffects
<1> QED
  BY <1>1, <1>2, <1>3 DEF WriteEffects

-----------------------------------------------------------------------------
(* The last commit, the origin of rows, and the aim of a request.          *)
LEMMA LatestCalm ==
  ASSUME LatestExists, Calm PROVE LatestExists'
<1>1. Commits' = Commits
  BY DEF Commits, Calm
<1>2. \A q \in Commits : Nth(q)' = Nth(q)
  BY DEF Commits, Calm
<1> QED
  BY <1>1, <1>2 DEF LatestExists

LEMMA LatestGrown ==
  ASSUME LatestExists, NEW r \in Requests, Grown(r) PROVE LatestExists'
<1>1. Commits' = Commits \cup {r} /\ r \notin Commits
  BY DEF Commits, Grown
<1>2. /\ \A q \in Commits : Nth(q)' = Nth(q) /\ Nth(q) \in 1..Len(log)
      /\ Nth(r)' = Len(log) + 1 /\ Len(log) \in Nat
  BY DEF Commits, Grown
<1>3. ASSUME NEW T \in SUBSET Commits', T # {}
      PROVE  \E q \in T : \A s \in T : Nth(s)' <= Nth(q)'
  <2>1. CASE r \in T
    BY <1>1, <1>2, <2>1
  <2>2. CASE r \notin T
    <3>1. T \in SUBSET Commits
      BY <1>1, <2>2
    <3>2. PICK q \in T : \A s \in T : Nth(s) <= Nth(q)
      BY <1>3, <3>1 DEF LatestExists
    <3> QED
      BY <1>2, <3>1, <3>2
  <2> QED
    BY <2>1, <2>2
<1> QED
  BY <1>3 DEF LatestExists

LEMMA AccountedGrows ==
  ASSUME NEW rows, NEW done, NEW more, NEW asked, NEW asked2,
         Accounted(rows, done, asked), done \subseteq more, \A q \in done : asked2[q] = asked[q]
  PROVE  Accounted(rows, more, asked2)
BY DEF Accounted

LEMMA AccountedCommit ==
  ASSUME TypeOK, NEW r \in Requests, Effects(r), NEW done, NEW more, more = done \cup {r},
         Accounted(db, done, call), Accounted(seen[r], done, call), Aimed(r)
  PROVE  Accounted(db', more, call)
<1>1. Accounted(db, more, call) /\ Accounted(seen[r], more, call)
  BY AccountedGrows
<1>2. \A c \in Cases : db'.date[c] # Null => db'.date[c] \in more
  BY <1>1 DEF Effects, DateEffect, Accounted
<1>3. \A t \in TaskIds : db'.taskOf[t] # Null => t \in Tasks \cup more
  BY <1>1 DEF Effects, TaskEffect, Accounted
<1>4. \A t \in TaskIds : \A q \in db'.notes[t] :
        q \in more /\ call[q].op \in {"addLog"} /\ call[q].id = t
  BY <1>1 DEF Effects, TaskEffect, Accounted, By
<1>5. \A f \in FileIds : db'.key[f] # Null =>
        \/ f \in Files /\ db'.key[f] = FirstKey
        \/ f \in more /\ call[f].op \in {"registerFile", "registerTaskFile"}
  BY <1>1 DEF Effects, FileEffect, Accounted, By
<1>6. \A f \in FileIds : db'.fileTask[f] # Null =>
        f \in more /\ call[f].op \in {"registerTaskFile"} /\ call[f].id = db'.fileTask[f]
  BY <1>1 DEF Effects, FileEffect, Accounted, By
<1>7. \A o \in ObsIds : db'.value[o] # Null => o \in Observables \cup more
  <2>1. \A o \in ObsIds : db'.value[o] = db.value[o] \/ o = r
    BY DEF Effects, ObsEffect
  <2>2. \A o \in ObsIds : db.value[o] # Null => o \in Observables \cup more
    BY <1>1 DEF Accounted
  <2>3. r \in more
    OBVIOUS
  <2> QED
    BY <2>1, <2>2, <2>3
<1>8. ASSUME NEW s \in Cases \X Users, db'.share[s] # "none"
      PROVE  \/ s \in FirstShares
             \/ \E g \in more : call[g].op \in {"grant"} /\ s = <<call[g].case, call[g].user>>
  <2>1. CASE db'.share[s] = db.share[s]
    BY <1>1, <1>8, <2>1 DEF Accounted
  <2>2. CASE By(r, {"grant"}) /\ s = <<call[r].case, call[r].user>>
    BY <2>2 DEF By
  <2>3. CASE By(r, {"revoke"}) /\ s = <<call[r].case, call[r].user>>
    <3>1. seen[r].share[s] # "none"
      BY <2>3 DEF By, Aimed, AimsAt
    <3> QED
      BY <1>1, <3>1 DEF Accounted
  <2> QED
    BY <2>1, <2>2, <2>3 DEF Effects, TalkEffect, By
<1>9. ASSUME NEW p \in Cases \X Cases, db'.link[p] # Null
      PROVE  /\ db'.link[p] \in more /\ call[db'.link[p]].op \in {"link"}
             /\ p = <<call[db'.link[p]].case, call[db'.link[p]].id>>
  BY <1>1, <1>9 DEF Effects, TalkEffect, Accounted, By
<1> QED
  BY <1>2, <1>3, <1>4, <1>5, <1>6, <1>7, <1>8, <1>9 DEF Accounted

LEMMA WantedAims == ASSUME NEW c, Wanted(c) = "write" PROVE AimsAt(c, db)
<1>1. c.op \in {"patchTask", "deleteTask", "addLog", "registerTaskFile"} => db.taskOf[c.id] # Null
  BY DEF Wanted
<1>2. c.op \in {"verdict", "scan", "deleteFile"} => db.key[c.id] # Null
  BY DEF Wanted
<1>3. c.op = "verdictByKey" => \E f \in FileIds : {g \in FileIds : db.key[g] = c.key} = {f}
  <2> SUFFICES ASSUME c.op = "verdictByKey"
               PROVE  \E f \in FileIds : {g \in FileIds : db.key[g] = c.key} = {f}
    OBVIOUS
  <2> DEFINE F == {g \in FileIds : db.key[g] = c.key}
  <2>1. IF F = {} THEN FALSE ELSE \E f \in F : F = {f}
    BY DEF Wanted
  <2> QED
    BY <2>1
<1>4. c.op = "detach" => db.place[c.id] = c.case
  BY DEF Wanted
<1>5. c.op \in {"patchComment", "deleteComment"} => db.said[c.id] # Null
  BY DEF Wanted
<1>6. c.op = "revoke" => db.share[<<c.case, c.user>>] # "none"
  BY DEF Wanted
<1> QED
  BY <1>1, <1>2, <1>3, <1>4, <1>5, <1>6 DEF AimsAt

LEMMA GroundedCalm ==
  ASSUME Grounded, Calm PROVE Grounded'
<1>1. Commits' = Commits /\ \A q \in Commits : call'[q] = call[q]
  BY DEF Commits, Calm
<1>2. \A rows : Accounted(rows, Commits, call) => Accounted(rows, Commits', call')
  BY <1>1, AccountedGrows
<1>3. /\ Accounted(db, Commits, call)'
      /\ \A q \in Requests : Accounted(seen[q], Commits, call)'
  BY <1>2 DEF Grounded, Calm
<1>4. ASSUME NEW q \in Requests, pc'[q] \in {"write", "200"} PROVE Aimed(q)'
  <2>1. CASE call'[q] = call[q] /\ seen'[q] = seen[q] /\ pc[q] \in {"write", "200"}
    <3>1. Aimed(q)
      BY <2>1 DEF Grounded
    <3> QED
      BY <2>1, <3>1 DEF Aimed
  <2>2. CASE call'[q] = call[q] /\ seen'[q] = db /\ Wanted(call[q]) = "write"
    BY <2>2, WantedAims DEF Aimed
  <2> QED
    BY <1>4, <2>1, <2>2 DEF Calm, Done
<1> QED
  BY <1>3, <1>4, LatestCalm DEF Grounded

LEMMA GroundedGrown ==
  ASSUME TypeOK, Grounded, NEW r \in Requests, Grown(r), Effects(r) PROVE Grounded'
<1>1. Commits' = Commits \cup {r} /\ call' = call /\ seen' = seen /\ Aimed(r)
  BY DEF Commits, Grown, Grounded
<1>2. Accounted(db', Commits', call')
  BY <1>1, AccountedCommit DEF Grounded
<1>3. \A q \in Requests : Accounted(seen[q], Commits', call')
  BY <1>1, AccountedGrows DEF Grounded
<1>4. ASSUME NEW q \in Requests, pc'[q] \in {"write", "200"} PROVE Aimed(q)'
  <2>1. Aimed(q)
    BY <1>4 DEF Grown, Grounded
  <2> QED
    BY <1>1, <2>1 DEF Aimed
<1> QED
  BY <1>1, <1>2, <1>3, <1>4, LatestGrown DEF Grounded

-----------------------------------------------------------------------------
(* End dates.                                                              *)
LEMMA PatchedGrows ==
  /\ Calm => \A q \in Requests : \A c :
       (Patched(q, c)' <=> Patched(q, c)) /\ (Patched(q, c) => call'[q] = call[q])
  /\ \A r \in Requests : Grown(r) => \A q \in Requests : \A c :
       Patched(q, c)' <=> Patched(q, c) \/ (q = r /\ By(r, PatchOps) /\ c \in Scope(r))
<1>1. ASSUME Calm, NEW q \in Requests, NEW c
      PROVE  (Patched(q, c)' <=> Patched(q, c)) /\ (Patched(q, c) => call'[q] = call[q])
  <2>1. CASE Done(q)
    BY <1>1, <2>1 DEF Calm, Patched, By
  <2>2. CASE ~Done(q)
    BY <1>1, <2>2 DEF Calm, Patched
  <2> QED
    BY <2>1, <2>2
<1>2. ASSUME NEW r \in Requests, Grown(r), NEW q \in Requests, NEW c
      PROVE  Patched(q, c)' <=> Patched(q, c) \/ (q = r /\ By(r, PatchOps) /\ c \in Scope(r))
  <2>1. call' = call /\ seen' = seen /\ (Done(q)' <=> Done(q) \/ q = r) /\ ~Done(r)
    BY <1>2 DEF Grown
  <2>2. By(r, PatchOps) /\ c \in Scope(r) <=>
          \/ By(r, {"patchCase"}) /\ call[r].case = c
          \/ By(r, {"bulkPatchCases"}) /\ c \in call[r].ids \ seen[r].gone
    BY DEF By, PatchOps, Scope
  <2> QED
    BY <2>1, <2>2 DEF Patched, By
<1> QED
  BY <1>1, <1>2

LEMMA DatesCalm ==
  ASSUME TypeOK, DatesExplained, Calm PROVE DatesExplained'
<1>1. /\ db' = db
      /\ \A q \in Requests : /\ Done(q)' <=> Done(q)
                             /\ Nth(q)' = Nth(q)
                             /\ Done(q) => call'[q] = call[q] /\ readAt'[q] = readAt[q]
  BY DEF Calm
<1>2. ASSUME NEW s \in Requests, NEW c
      PROVE  /\ (Patched(s, c)' <=> Patched(s, c)) /\ (Clears(s, c)' <=> Clears(s, c))
             /\ Patched(s, c) => call'[s] = call[s] /\ readAt'[s] = readAt[s]
  BY <1>1, PatchedGrows DEF Clears, Patched
<1>3. ASSUME NEW r \in Requests, pc'[r] = "write", NEW c \in Cases,
             seen'[r].date[c] # Null, db.date[c] = Null
      PROVE  \E s \in Requests : Clears(s, c)' /\ Nth(s) > readAt'[r]
  <2>1. pc[r] = "write" /\ seen'[r] = seen[r] /\ readAt'[r] = readAt[r]
    BY <1>3 DEF Calm
  <2>2. PICK s \in Requests : Clears(s, c) /\ Nth(s) > readAt[r]
    BY <1>3, <2>1 DEF DatesExplained, Writing
  <2> QED
    BY <1>2, <2>1, <2>2
<1>4. ASSUME NEW c \in Cases, db.date[c] = Null, NEW r \in Requests, Patched(r, c)',
             call'[r].stage = "closed", call'[r].date # "clear"
      PROVE  \E s \in Requests : Clears(s, c)' /\ Nth(s) > readAt'[r]
  <2>1. Patched(r, c) /\ call'[r] = call[r] /\ readAt'[r] = readAt[r]
    BY <1>2, <1>4
  <2>2. PICK s \in Requests : Clears(s, c) /\ Nth(s) > readAt[r]
    BY <1>4, <2>1 DEF DatesExplained
  <2> QED
    BY <1>2, <2>1, <2>2
<1>5. ASSUME NEW c \in Cases, db.stage[c] = "closed"
      PROVE  \E r \in Requests : Patched(r, c)' /\ call'[r].stage = "closed"
  BY <1>2, <1>5 DEF DatesExplained
<1> QED
  BY <1>1, <1>3, <1>4, <1>5 DEF DatesExplained, Writing

LEMMA DatesGrown ==
  ASSUME TypeOK, DatesExplained, NEW r \in Requests, Accounted(seen[r], Commits, call),
         Grown(r), Effects(r)
  PROVE  DatesExplained'
<1>1. /\ call' = call /\ seen' = seen /\ readAt' = readAt
      /\ \A q \in Requests : /\ Nth(r)' > readAt[q]
                             /\ Done(q) => Nth(q)' = Nth(q)
                             /\ pc'[q] = "write" => pc[q] = "write" /\ q # r
  BY DEF Grown
<1>2. ASSUME NEW s \in Requests, NEW c
      PROVE  /\ Patched(s, c)' <=> Patched(s, c) \/ (s = r /\ By(r, PatchOps) /\ c \in Scope(r))
             /\ Clears(s, c) => Clears(s, c)' /\ Nth(s)' = Nth(s)
  BY <1>1, PatchedGrows DEF Clears, Patched
<1>3. ASSUME NEW c \in Cases, db'.date[c] = Null, db.date[c] # Null, NEW q \in Requests
      PROVE  \E s \in Requests : Clears(s, c)' /\ Nth(s)' > readAt[q]
  <2>1. By(r, PatchOps) /\ c \in Scope(r) /\ call[r].date = "clear"
    BY <1>3 DEF Effects, DateEffect
  <2> QED
    BY <1>1, <1>2, <2>1 DEF Clears
<1>4. ASSUME NEW q \in Requests, pc'[q] = "write", NEW c \in Cases,
             seen[q].date[c] # Null, db'.date[c] = Null
      PROVE  \E s \in Requests : Clears(s, c)' /\ Nth(s)' > readAt[q]
  <2>1. CASE db.date[c] = Null
    <3>1. PICK s \in Requests : Clears(s, c) /\ Nth(s) > readAt[q]
      BY <1>1, <1>4, <2>1 DEF DatesExplained, Writing
    <3> QED
      BY <1>2, <3>1
  <2> QED
    BY <1>3, <1>4, <2>1
<1>5. ASSUME NEW c \in Cases, db'.date[c] = Null, NEW q \in Requests, Patched(q, c)',
             call[q].stage = "closed", call[q].date # "clear"
      PROVE  \E s \in Requests : Clears(s, c)' /\ Nth(s)' > readAt[q]
  <2>1. CASE db.date[c] # Null
    BY <1>3, <1>5, <2>1
  <2>2. CASE db.date[c] = Null /\ Patched(q, c)
    <3>1. PICK s \in Requests : Clears(s, c) /\ Nth(s) > readAt[q]
      BY <1>5, <2>2 DEF DatesExplained
    <3> QED
      BY <1>2, <3>1
  <2>3. CASE db.date[c] = Null /\ q = r /\ By(r, PatchOps) /\ c \in Scope(r)
    <3>1. seen[r].date[c] # r
      <4>1. r \notin Commits /\ r # Null
        BY NullOut DEF Commits, Grown
      <4> QED
        BY <4>1 DEF Accounted
    <3>2. call[r].date \in {"same", "set"}
      <4>1. call[r] \in Calls
        BY <2>3 DEF TypeOK, By, PatchOps, Idle
      <4> QED
        BY <1>5, <2>3, <4>1, CaseCallShape DEF By, PatchOps
    <3>3. seen[r].date[c] # Null
      BY <1>5, <2>3, <3>1, <3>2, NullOut DEF Effects, DateEffect
    <3>4. PICK s \in Requests : Clears(s, c) /\ Nth(s) > readAt[r]
      BY <2>3, <3>3 DEF DatesExplained, Writing, Grown
    <3> QED
      BY <1>2, <2>3, <3>4
  <2> QED
    BY <1>2, <1>5, <2>1, <2>2, <2>3
<1>6. ASSUME NEW c \in Cases, db'.stage[c] = "closed"
      PROVE  \E q \in Requests : Patched(q, c)' /\ call[q].stage = "closed"
  <2>1. CASE db.stage[c] = "closed"
    BY <1>2, <2>1 DEF DatesExplained
  <2>2. CASE db.stage[c] # "closed"
    BY <1>2, <1>6, <2>2 DEF Effects, DateEffect
  <2> QED
    BY <2>1, <2>2
<1> QED
  BY <1>1, <1>4, <1>5, <1>6 DEF DatesExplained, Writing

LEMMA DatesHold ==
  ASSUME CoreInv, LatestExists, DatesExplained PROVE ClosedIsDated
<1> SUFFICES ASSUME NEW c \in Cases, db.stage[c] = "closed", db.date[c] = Null
             PROVE  \E r \in Requests :
                      /\ Patched(r, c) /\ call[r].date = "clear"
                      /\ \A s \in Requests \ {r} : Patched(s, c) /\ call[s].stage = "closed" =>
                           Before(s, r) \/ Overtook(r, s) \/ call[s].date = "clear"
  BY DEF ClosedIsDated
<1> DEFINE T == {r \in Requests : Clears(r, c)}
<1>1. PICK q \in Requests : Patched(q, c) /\ call[q].stage = "closed"
  BY DEF DatesExplained
<1>2. T # {}
  <2>1. CASE call[q].date = "clear"
    BY <1>1, <2>1 DEF Clears
  <2>2. CASE call[q].date # "clear"
    BY <1>1, <2>2 DEF DatesExplained
  <2> QED
    BY <2>1, <2>2
<1>3. T \in SUBSET Commits
  BY DEF Commits, Clears, Patched
<1>4. PICK r \in T : \A s \in T : Nth(s) <= Nth(r)
  BY <1>2, <1>3 DEF LatestExists
<1>5. ASSUME NEW s \in Requests \ {r}, Patched(s, c), call[s].stage = "closed", call[s].date # "clear"
      PROVE  Before(s, r) \/ Overtook(r, s)
  <2>1. PICK x \in Requests : Clears(x, c) /\ Nth(x) > readAt[s]
    BY <1>5 DEF DatesExplained
  <2>2. Nth(x) <= Nth(r)
    BY <1>4, <2>1
  <2>3. Done(r) /\ Done(s) /\ Done(x)
    BY <1>3, <1>5, <2>1 DEF Patched, Clears, Commits
  <2>4. /\ Nth(r) \in 1..Len(log) /\ Nth(s) \in 1..Len(log) /\ Nth(x) \in 1..Len(log)
        /\ log[Nth(r)] = r /\ log[Nth(s)] = s
        /\ readAt[s] \in Nat /\ Len(log) \in Nat
    BY <2>3, NthIs DEF CoreInv, RowsInv, TypeOK
  <2>5. Nth(r) # Nth(s)
    BY <1>5, <2>4
  <2>6. Nth(r) > readAt[s]
    BY <2>1, <2>2, <2>4
  <2> QED
    BY <2>3, <2>4, <2>5, <2>6 DEF Before, Overtook
<1> QED
  BY <1>4, <1>5 DEF Clears

-----------------------------------------------------------------------------
(* Verdicts.                                                               *)
LEMMA JudgedGrows ==
  /\ Calm => \A q \in Requests : \A f, v :
       (Judged(q, f, v)' <=> Judged(q, f, v)) /\ (Judged(q, f, v) => call'[q] = call[q])
  /\ \A r \in Requests : Grown(r) => \A q \in Requests : \A f, v :
       Judged(q, f, v)' <=> Judged(q, f, v) \/ (q = r /\ Target(r, f) /\ call[r].av = v)
<1>1. ASSUME Calm, NEW q \in Requests, NEW f, NEW v
      PROVE  (Judged(q, f, v)' <=> Judged(q, f, v)) /\ (Judged(q, f, v) => call'[q] = call[q])
  <2>1. CASE Done(q)
    BY <1>1, <2>1 DEF Calm, Judged, By
  <2>2. CASE ~Done(q)
    BY <1>1, <2>2 DEF Calm, Judged
  <2> QED
    BY <2>1, <2>2
<1>2. ASSUME NEW r \in Requests, Grown(r), NEW q \in Requests, NEW f, NEW v
      PROVE  Judged(q, f, v)' <=> Judged(q, f, v) \/ (q = r /\ Target(r, f) /\ call[r].av = v)
  <2>1. call' = call /\ seen' = seen /\ (Done(q)' <=> Done(q) \/ q = r) /\ ~Done(r)
    BY <1>2 DEF Grown
  <2> QED
    BY <2>1 DEF Judged, By, Target, Judges
<1> QED
  BY <1>1, <1>2

LEMMA VerdictsCalm ==
  ASSUME TypeOK, VerdictsExplained, Calm PROVE VerdictsExplained'
<1>1. /\ db' = db
      /\ \A q \in Requests : /\ Done(q)' <=> Done(q)
                             /\ Nth(q)' = Nth(q)
                             /\ Done(q) => call'[q] = call[q] /\ readAt'[q] = readAt[q]
  BY DEF Calm
<1>2. ASSUME NEW s \in Requests, NEW f, NEW v
      PROVE  /\ Judged(s, f, v)' <=> Judged(s, f, v)
             /\ Judged(s, f, v) => call'[s] = call[s] /\ readAt'[s] = readAt[s]
  BY <1>1, JudgedGrows DEF Judged
<1>3. ASSUME NEW q \in Requests, NEW f, NEW v, \E s \in Requests : JudgedSince(s, f, v, q),
             readAt'[q] = readAt[q]
      PROVE  \E s \in Requests : JudgedSince(s, f, v, q)'
  BY <1>1, <1>2, <1>3 DEF JudgedSince
<1>4. ASSUME NEW r \in Requests, pc'[r] = "write", NEW f \in FileIds, seen'[r].key[f] # Null
      PROVE  /\ seen'[r].quarantined[f] /\ ~db.quarantined[f] =>
                  \E s \in Requests : JudgedSince(s, f, "clean", r)'
             /\ seen'[r].av[f] # "infected" /\ db.av[f] = "infected" =>
                  \E s \in Requests : JudgedSince(s, f, "infected", r)'
  <2>1. CASE pc[r] = "write" /\ seen'[r] = seen[r] /\ readAt'[r] = readAt[r]
    BY <1>3, <1>4, <2>1 DEF VerdictsExplained, Writing
  <2>2. CASE seen'[r] = db
    BY <2>2
  <2> QED
    BY <1>4, <2>1, <2>2 DEF Calm
<1>5. ASSUME NEW f \in FileIds, ~db.quarantined[f], NEW r \in Requests, Judged(r, f, "infected")',
             call'[r].op # "scan"
      PROVE  \E s \in Requests : JudgedSince(s, f, "clean", r)'
  BY <1>2, <1>3, <1>5 DEF VerdictsExplained
<1>6. ASSUME NEW f \in FileIds, db.av[f] = "infected"
      PROVE  /\ \E r \in Requests : Judged(r, f, "infected")'
             /\ \A r \in Requests : Judged(r, f, "clean")' =>
                  \E s \in Requests : JudgedSince(s, f, "infected", r)'
  BY <1>2, <1>3, <1>6 DEF VerdictsExplained
<1> QED
  BY <1>1, <1>4, <1>5, <1>6 DEF VerdictsExplained, Writing

(* Only files that are there are judged.                                   *)
LEMMA JudgedFiles ==
  ASSUME TypeOK, Grounded, NEW q \in Requests, NEW f \in FileIds, Aimed(q), Target(q, f)
  PROVE  f \in Files \cup Commits /\ seen[q].key[f] # Null
<1>1. call[q] \in Calls
  BY DEF TypeOK, Target, By, Judges, Idle
<1>2. seen[q].key[f] # Null
  BY <1>1, FileCallShape, NullOut DEF Target, By, Judges, Aimed, AimsAt
<1> QED
  BY <1>2 DEF Grounded, Accounted

LEMMA VerdictsGrown ==
  ASSUME TypeOK, Grounded, VerdictsExplained, NEW r \in Requests, Grown(r), Effects(r)
  PROVE  VerdictsExplained'
<1>1. /\ call' = call /\ seen' = seen /\ readAt' = readAt
      /\ \A q \in Requests : /\ Nth(r)' > readAt[q]
                             /\ Done(q) => Nth(q)' = Nth(q)
                             /\ pc'[q] = "write" => pc[q] = "write" /\ q # r
      /\ pc[r] = "write" /\ ~Done(r)
  BY DEF Grown
<1>2. ASSUME NEW s \in Requests, NEW f, NEW v
      PROVE  /\ Judged(s, f, v)' <=> Judged(s, f, v) \/ (s = r /\ Target(r, f) /\ call[r].av = v)
             /\ \A q \in Requests : JudgedSince(s, f, v, q) => JudgedSince(s, f, v, q)'
  BY <1>1, JudgedGrows DEF JudgedSince, Judged
<1>3. r \notin Files \cup Commits
  BY <1>1, NamesAssumption DEF Commits
<1>4. ASSUME NEW f \in FileIds, f # r, ~db'.quarantined[f], db.quarantined[f], NEW q \in Requests
      PROVE  \E s \in Requests : JudgedSince(s, f, "clean", q)'
  <2>1. Target(r, f) /\ call[r].av = "clean"
    BY <1>4 DEF Effects, FileEffect
  <2> QED
    BY <1>1, <1>2, <2>1 DEF JudgedSince
<1>5. ASSUME NEW f \in FileIds, db'.av[f] = "infected", db.av[f] # "infected", NEW q \in Requests
      PROVE  \E s \in Requests : JudgedSince(s, f, "infected", q)'
  <2>1. Target(r, f) /\ call[r].av = "infected"
    BY <1>5 DEF Effects, FileEffect
  <2> QED
    BY <1>1, <1>2, <2>1 DEF JudgedSince
<1>6. ASSUME NEW q \in Requests, pc'[q] = "write", NEW f \in FileIds, seen[q].key[f] # Null
      PROVE  /\ seen[q].quarantined[f] /\ ~db'.quarantined[f] =>
                  \E s \in Requests : JudgedSince(s, f, "clean", q)'
             /\ seen[q].av[f] # "infected" /\ db'.av[f] = "infected" =>
                  \E s \in Requests : JudgedSince(s, f, "infected", q)'
  <2>1. f # r
    BY <1>3, <1>6 DEF Grounded, Accounted
  <2>2. /\ seen[q].quarantined[f] /\ ~db.quarantined[f] =>
             \E s \in Requests : JudgedSince(s, f, "clean", q)
        /\ seen[q].av[f] # "infected" /\ db.av[f] = "infected" =>
             \E s \in Requests : JudgedSince(s, f, "infected", q)
    BY <1>1, <1>6 DEF VerdictsExplained, Writing
  <2> QED
    BY <1>2, <1>4, <1>5, <2>1, <2>2
<1>7. ASSUME NEW f \in FileIds, ~db'.quarantined[f], NEW q \in Requests, Judged(q, f, "infected")',
             call[q].op # "scan"
      PROVE  \E s \in Requests : JudgedSince(s, f, "clean", q)'
  <2>1. Target(q, f) /\ Aimed(q)
    BY <1>1, <1>2, <1>7 DEF Grounded, Judged, Target, Judges, By, Done
  <2>2. f # r
    BY <1>3, <2>1, JudgedFiles
  <2>3. CASE db.quarantined[f]
    BY <1>4, <1>7, <2>2, <2>3
  <2>4. CASE ~db.quarantined[f] /\ Judged(q, f, "infected")
    BY <1>2, <1>7, <2>4 DEF VerdictsExplained
  <2>5. CASE ~db.quarantined[f] /\ q = r /\ Target(r, f) /\ call[r].av = "infected"
    <3>1. seen[r].quarantined[f]
      BY <1>7, <2>5 DEF Effects, FileEffect
    <3>2. seen[r].key[f] # Null
      BY <2>1, <2>5, JudgedFiles
    <3>3. \E s \in Requests : JudgedSince(s, f, "clean", r)
      BY <1>1, <2>5, <3>1, <3>2 DEF VerdictsExplained, Writing
    <3> QED
      BY <1>2, <2>5, <3>3
  <2> QED
    BY <1>2, <1>7, <2>3, <2>4, <2>5
<1>8. ASSUME NEW f \in FileIds, db'.av[f] = "infected"
      PROVE  \E q \in Requests : Judged(q, f, "infected")'
  <2>1. CASE db.av[f] = "infected"
    BY <1>2, <2>1 DEF VerdictsExplained
  <2>2. CASE db.av[f] # "infected"
    BY <1>5, <1>8, <2>2 DEF JudgedSince
  <2> QED
    BY <2>1, <2>2
<1>9. ASSUME NEW f \in FileIds, db'.av[f] = "infected", NEW q \in Requests, Judged(q, f, "clean")'
      PROVE  \E s \in Requests : JudgedSince(s, f, "infected", q)'
  <2>1. CASE db.av[f] # "infected"
    BY <1>5, <1>9, <2>1
  <2>2. CASE db.av[f] = "infected" /\ Judged(q, f, "clean")
    BY <1>2, <2>2 DEF VerdictsExplained
  <2>3. CASE db.av[f] = "infected" /\ q = r /\ Target(r, f) /\ call[r].av = "clean"
    <3>1. seen[r].av[f] # "infected"
      BY <1>9, <2>3 DEF Effects, FileEffect
    <3>2. seen[r].key[f] # Null
      BY <1>1, <2>3, JudgedFiles DEF Grounded
    <3>3. \E s \in Requests : JudgedSince(s, f, "infected", r)
      BY <1>1, <2>3, <3>1, <3>2 DEF VerdictsExplained, Writing
    <3> QED
      BY <1>2, <2>3, <3>3
  <2> QED
    BY <1>2, <1>9, <2>1, <2>2, <2>3
<1> QED
  BY <1>1, <1>6, <1>7, <1>8, <1>9 DEF VerdictsExplained, Writing

LEMMA VerdictsHold ==
  ASSUME CoreInv, LatestExists, VerdictsExplained PROVE InfectedIsQuarantined
<1> SUFFICES ASSUME NEW f \in FileIds, db.av[f] = "infected", ~db.quarantined[f]
             PROVE
    \/ \E r \in Requests :
         /\ Judged(r, f, "infected") /\ call[r].op = "scan"
         /\ \A s \in Requests : Judged(s, f, "infected") /\ call[s].op # "scan" => Before(s, r)
    \/ \E r, s \in Requests :
         Judged(r, f, "infected") /\ Judged(s, f, "clean") /\ Overlap(r, s)
  BY DEF InfectedIsQuarantined
<1> DEFINE T == {r \in Requests : Judged(r, f, "infected") /\ call[r].op # "scan"}
<1>0. ASSUME NEW q \in Requests, NEW v, Judged(q, f, v)
      PROVE  /\ Done(q) /\ Nth(q) \in Nat /\ readAt[q] \in Nat /\ log[Nth(q)] = q
             /\ call[q].av = v
  <2>1. Done(q)
    BY <1>0 DEF Judged
  <2>2. Nth(q) \in 1..Len(log) /\ log[Nth(q)] = q
    BY <2>1, NthIs DEF CoreInv, RowsInv
  <2> QED
    BY <1>0, <2>1, <2>2 DEF Judged, CoreInv, RowsInv, TypeOK
<1>1. CASE T = {}
  <2>1. PICK r \in Requests : Judged(r, f, "infected")
    BY DEF VerdictsExplained
  <2>2. \A s \in Requests : Judged(s, f, "infected") => call[s].op = "scan"
    BY <1>1
  <2> QED
    BY <2>1, <2>2
<1>2. CASE T # {}
  <2>1. T \in SUBSET Commits
    BY DEF Commits, Judged
  <2>2. PICK s \in T : \A x \in T : Nth(x) <= Nth(s)
    BY <1>2, <2>1 DEF LatestExists
  <2>3. PICK c \in Requests : Judged(c, f, "clean") /\ Nth(c) > readAt[s]
    BY <2>2 DEF VerdictsExplained, JudgedSince
  <2>4. Judged(s, f, "infected") /\ Nth(c) # Nth(s)
    BY <1>0, <2>2, <2>3
  <2>5. CASE Nth(c) < Nth(s)
    BY <1>0, <2>3, <2>4, <2>5 DEF Overlap, Overtook, Before
  <2>6. CASE Nth(s) < Nth(c)
    <3>1. PICK r \in Requests : Judged(r, f, "infected") /\ Nth(r) > readAt[c]
      BY <2>3 DEF VerdictsExplained, JudgedSince
    <3>2. Nth(r) # Nth(c)
      BY <1>0, <2>3, <3>1
    <3>3. CASE Nth(r) < Nth(c)
      BY <1>0, <2>3, <3>1, <3>3 DEF Overlap, Overtook, Before
    <3>4. CASE Nth(c) < Nth(r)
      <4>1. Nth(s) < Nth(r)
        BY <1>0, <2>3, <2>4, <2>6, <3>1, <3>4
      <4>2. r \notin T
        BY <1>0, <2>2, <2>4, <3>1, <4>1
      <4>3. \A x \in T : Nth(x) < Nth(r)
        BY <1>0, <2>2, <2>4, <3>1, <4>1
      <4> QED
        BY <1>0, <3>1, <4>2, <4>3 DEF Before
    <3> QED
      BY <1>0, <2>3, <3>1, <3>2, <3>3, <3>4
  <2> QED
    BY <1>0, <2>3, <2>4, <2>5, <2>6
<1> QED
  BY <1>1, <1>2

-----------------------------------------------------------------------------
(* The order of tasks.                                                     *)
LEMMA OrderCalm ==
  ASSUME TypeOK, OrderExplained, Calm PROVE OrderExplained'
<1>1. /\ db' = db
      /\ \A q \in Requests : /\ Done(q)' <=> Done(q)
                             /\ Nth(q)' = Nth(q)
                             /\ Done(q) => call'[q] = call[q] /\ seen'[q] = seen[q]
                                           /\ readAt'[q] = readAt[q]
  BY DEF Calm
<1>2. ASSUME NEW q \in Requests, Alone(q)', readAt'[q] = readAt[q] PROVE Alone(q)
  BY <1>1, <1>2 DEF Alone, By
<1>3. ASSUME NEW q \in Requests, pc'[q] = "write", Alone(q)', NEW t \in TaskIds,
             seen'[q].taskOf[t] # Null
      PROVE  db.index[t] = seen'[q].index[t]
  BY <1>2, <1>3 DEF Calm, OrderExplained, Writing
<1>4. ASSUME NEW q \in Requests, Done(q)', By(q, {"reorder"})', Alone(q)',
             NEW t \in Range(call'[q].list), seen'[q].taskOf[t] = call'[q].case
      PROVE  \E i \in 0..Len(call'[q].list) - 1 : LastAt(call'[q].list, t, i) /\ db.index[t] = i
  <2>1. Done(q) /\ call'[q] = call[q] /\ seen'[q] = seen[q] /\ Alone(q)
    BY <1>1, <1>2, <1>4
  <2>2. By(q, {"reorder"})
    BY <1>4, <2>1 DEF By
  <2>3. t \in Range(call[q].list) /\ seen[q].taskOf[t] = call[q].case
    BY <1>4, <2>1
  <2> QED
    BY <2>1, <2>2, <2>3 DEF OrderExplained
<1> QED
  BY <1>1, <1>3, <1>4 DEF OrderExplained, Writing

LEMMA OrderGrown ==
  ASSUME TypeOK, Grounded, OrderExplained, NEW r \in Requests, Grown(r), Effects(r)
  PROVE  OrderExplained'
<1>1. /\ call' = call /\ seen' = seen /\ readAt' = readAt
      /\ \A q \in Requests : /\ Nth(r)' > readAt[q]
                             /\ Done(q) => Nth(q)' = Nth(q)
                             /\ Done(q)' <=> Done(q) \/ q = r
                             /\ pc'[q] = "write" => pc[q] = "write" /\ q # r
      /\ pc[r] = "write" /\ ~Done(r)
      /\ \A q \in Requests : readAt[q] \in Nat /\ Nth(r)' \in Nat
  BY DEF Grown
<1>2. ASSUME NEW q \in Requests, Alone(q)' PROVE Alone(q) /\ (q # r => ~By(r, IndexWriters))
  <2>1. \A s \in Requests \ {q} : (Done(s) \/ s = r) /\ By(s, IndexWriters) => Nth(s)' <= readAt[q]
    BY <1>1, <1>2 DEF Alone, By
  <2>2. Alone(q)
    BY <1>1, <2>1 DEF Alone
  <2>3. ASSUME q # r, By(r, IndexWriters) PROVE FALSE
    <3>1. Nth(r)' <= readAt[q]
      BY <2>1, <2>3
    <3> QED
      BY <1>1, <3>1
  <2> QED
    BY <2>2, <2>3
<1>3. ASSUME NEW q \in Requests, q # r, Alone(q)', NEW t \in TaskIds, seen[q].taskOf[t] # Null
      PROVE  db'.index[t] = db.index[t]
  <2>1. t # r
    <3>1. t \in Tasks \cup Commits
      BY <1>3 DEF Grounded, Accounted
    <3> QED
      BY <1>1, <3>1, NamesAssumption DEF Commits
  <2> QED
    BY <1>2, <1>3, <2>1 DEF Effects, TaskEffect
<1>4. ASSUME NEW q \in Requests, pc'[q] = "write", Alone(q)', NEW t \in TaskIds,
             seen[q].taskOf[t] # Null
      PROVE  db'.index[t] = seen[q].index[t]
  BY <1>1, <1>2, <1>3, <1>4 DEF OrderExplained, Writing
<1>5. ASSUME NEW q \in Requests, Done(q)', By(q, {"reorder"}), Alone(q)',
             NEW t \in Range(call[q].list), seen[q].taskOf[t] = call[q].case
      PROVE  \E i \in 0..Len(call[q].list) - 1 : LastAt(call[q].list, t, i) /\ db'.index[t] = i
  <2>1. t \in TaskIds /\ seen[q].taskOf[t] # Null
    <3>1. call[q] \in Calls
      BY <1>5 DEF TypeOK, By, Idle
    <3>2. call[q].case \in Cases /\ call[q].list \in Seq(TaskIds)
      BY <1>5, <3>1, TaskCallShape DEF By
    <3> QED
      BY <1>5, <3>2, NullOut DEF Range
  <2>2. CASE q # r
    <3>1. PICK i \in 0..Len(call[q].list) - 1 : LastAt(call[q].list, t, i) /\ db.index[t] = i
      BY <1>1, <1>2, <1>5, <2>2 DEF OrderExplained
    <3> QED
      BY <1>3, <1>5, <2>1, <2>2, <3>1
  <2>3. CASE q = r
    <3>1. PICK i \in 0..Len(call[r].list) - 1 :
            /\ LastAt(call[r].list, t, i)
            /\ db'.index[t] = (IF i = seen[r].index[t] THEN db.index[t] ELSE i)
      BY <1>5, <2>3 DEF Effects, TaskEffect
    <3>2. db.index[t] = seen[r].index[t]
      BY <1>1, <1>2, <1>5, <2>1, <2>3 DEF OrderExplained, Writing
    <3> QED
      BY <2>3, <3>1, <3>2
  <2> QED
    BY <2>2, <2>3
<1>6. \A q \in Requests : By(q, {"reorder"})' <=> By(q, {"reorder"})
  BY <1>1 DEF By
<1> QED
  BY <1>1, <1>4, <1>5, <1>6 DEF OrderExplained, Writing

LEMMA OrderHolds ==
  ASSUME CoreInv, OrderExplained PROVE ReorderIsKept
<1> SUFFICES ASSUME NEW r \in Requests, Done(r), By(r, {"reorder"}),
                    \A s \in Requests \ {r} : Done(s) /\ By(s, IndexWriters) =>
                      Before(s, r) /\ ~Overtook(s, r),
                    NEW i \in 1..Len(call[r].list), NEW j \in 1..Len(call[r].list),
                    i < j, \A k \in i + 1..Len(call[r].list) : call[r].list[k] # call[r].list[i],
                    \A k \in j + 1..Len(call[r].list) : call[r].list[k] # call[r].list[j],
                    \A x \in {call[r].list[i], call[r].list[j]} : seen[r].taskOf[x] = call[r].case
             PROVE  db.index[call[r].list[i]] < db.index[call[r].list[j]]
  BY DEF ReorderIsKept
<1>1. call[r].list \in Seq(TaskIds)
  <2>1. call[r] \in Calls
    BY DEF CoreInv, RowsInv, TypeOK, By, Idle
  <2> QED
    BY <2>1, TaskCallShape DEF By
<1>2. Alone(r)
  <2> SUFFICES ASSUME NEW s \in Requests \ {r}, Done(s), By(s, IndexWriters)
               PROVE  Nth(s) <= readAt[r]
    BY DEF Alone
  <2>1. Nth(s) \in 1..Len(log) /\ readAt[r] \in Nat
    BY NthIs DEF CoreInv, RowsInv, TypeOK
  <2> QED
    BY <2>1 DEF Overtook
<1>3. ASSUME NEW n \in 1..Len(call[r].list), seen[r].taskOf[call[r].list[n]] = call[r].case,
             \A k \in n + 1..Len(call[r].list) : call[r].list[k] # call[r].list[n]
      PROVE  db.index[call[r].list[n]] = n - 1
  <2>1. call[r].list[n] \in Range(call[r].list)
    BY <1>1 DEF Range
  <2>2. PICK m \in 0..Len(call[r].list) - 1 :
          LastAt(call[r].list, call[r].list[n], m) /\ db.index[call[r].list[n]] = m
    BY <1>2, <1>3, <2>1 DEF OrderExplained
  <2>3. call[r].list[m + 1] = call[r].list[n]
        /\ \A k \in m + 2..Len(call[r].list) : call[r].list[k] # call[r].list[n]
    BY <2>2 DEF LastAt
  <2>4. Len(call[r].list) \in Nat
    BY <1>1
  <2>5. ~(n < m + 1)
    BY <1>3, <2>3, <2>4
  <2>6. ~(m + 1 < n)
    BY <2>3, <2>4
  <2> QED
    BY <2>2, <2>4, <2>5, <2>6
<1>4. db.index[call[r].list[i]] = i - 1 /\ db.index[call[r].list[j]] = j - 1
  BY <1>3
<1>5. Len(call[r].list) \in Nat
  BY <1>1
<1> QED
  BY <1>4, <1>5

-----------------------------------------------------------------------------
(* Rows that went away, and the requests that fail for it.                 *)
Losses(r) ==
  /\ \A t \in TaskIds : seen[r].taskOf[t] # Null /\ db.taskOf[t] = Null =>
       \E s \in Requests : After(s, readAt[r]) /\ By(s, {"deleteTask"}) /\ call[s].id = t
  /\ \A f \in FileIds : seen[r].key[f] # Null /\ db.key[f] = Null =>
       \E s \in Requests : After(s, readAt[r]) /\ By(s, {"deleteFile"}) /\ call[s].id = f
  /\ \A c \in Requests : seen[r].said[c] # Null /\ db.said[c] = Null =>
       \E s \in Requests : After(s, readAt[r]) /\ By(s, {"deleteComment"}) /\ call[s].id = c
LEMMA LossesAre == LossesExplained <=> \A r \in Requests : pc[r] = "write" => Losses(r)
BY DEF LossesExplained, Losses, Writing
LEMMA LossesAreNext ==
  LossesExplained' <=> \A r \in Requests : pc'[r] = "write" => Losses(r)'
BY DEF LossesExplained, Losses, Writing

LEMMA LossesCalm ==
  ASSUME TypeOK, LossesExplained, Calm PROVE LossesExplained'
<1> SUFFICES ASSUME NEW r \in Requests, pc'[r] = "write" PROVE Losses(r)'
  BY LossesAreNext
<1>1. CASE seen'[r] = db /\ db' = db
  BY <1>1 DEF Losses
<1>2. CASE pc[r] = "write" /\ seen'[r] = seen[r] /\ readAt'[r] = readAt[r] /\ db' = db
  <2>1. Losses(r)
    BY <1>2, LossesAre
  <2>2. \A s \in Requests : After(s, readAt[r]) => After(s, readAt[r])' /\ call'[s] = call[s]
    BY <1>2 DEF Calm, After
  <2> QED
    BY <1>2, <2>1, <2>2 DEF Losses, By
<1> QED
  BY <1>1, <1>2 DEF Calm

LEMMA LossesGrown ==
  ASSUME TypeOK, Grounded, LossesExplained, NEW r \in Requests, Grown(r), Effects(r)
  PROVE  LossesExplained'
<1> SUFFICES ASSUME NEW q \in Requests, pc'[q] = "write" PROVE Losses(q)'
  BY LossesAreNext
<1>1. /\ call' = call /\ seen' = seen /\ readAt' = readAt /\ pc[q] = "write"
      /\ Nth(r)' > readAt[q] /\ Done(r)'
      /\ \A s \in Requests : Done(s) => Done(s)' /\ Nth(s)' = Nth(s)
  BY DEF Grown
<1>2. Losses(q)
  BY <1>1, LossesAre
<1>3. \A s \in Requests : After(s, readAt[q]) => After(s, readAt[q])'
  BY <1>1 DEF After
<1>4. After(r, readAt[q])'
  BY <1>1 DEF After
<1>6. r \notin Tasks \cup Files \cup Commits
  BY NamesAssumption DEF Grown, Commits
<1>7. ASSUME NEW t \in TaskIds, seen[q].taskOf[t] # Null, db'.taskOf[t] = Null
      PROVE  \E s \in Requests : After(s, readAt[q])' /\ By(s, {"deleteTask"})' /\ call'[s].id = t
  <2>1. t # r
    BY <1>6, <1>7 DEF Grounded, Accounted
  <2>2. db.taskOf[t] = Null \/ (By(r, {"deleteTask"}) /\ t = call[r].id)
    BY <1>7, <2>1 DEF Effects, TaskEffect
  <2> QED
    BY <1>1, <1>2, <1>3, <1>4, <1>7, <2>2 DEF Losses, By
<1>8. ASSUME NEW f \in FileIds, seen[q].key[f] # Null, db'.key[f] = Null
      PROVE  \E s \in Requests : After(s, readAt[q])' /\ By(s, {"deleteFile"})' /\ call'[s].id = f
  <2>1. f # r
    BY <1>6, <1>8 DEF Grounded, Accounted
  <2>2. db.key[f] = Null \/ (By(r, {"deleteFile"}) /\ f = call[r].id)
    BY <1>8, <2>1 DEF Effects, FileEffect
  <2> QED
    BY <1>1, <1>2, <1>3, <1>4, <1>8, <2>2 DEF Losses, By
<1>9. ASSUME NEW c \in Requests, seen[q].said[c] # Null, db'.said[c] = Null
      PROVE  \E s \in Requests : After(s, readAt[q])' /\ By(s, {"deleteComment"})' /\ call'[s].id = c
  <2>1. db.said[c] = Null \/ (By(r, {"deleteComment"}) /\ c = call[r].id)
    BY <1>9 DEF Effects, TalkEffect
  <2> QED
    BY <1>1, <1>2, <1>3, <1>4, <1>9, <2>1 DEF Losses, By
<1> QED
  BY <1>1, <1>7, <1>8, <1>9 DEF Losses

(* A reason stays a reason.                                                *)
LEMMA ReasonsStay ==
  ASSUME NEW r \in Requests, HasReason(r),
         call'[r] = call[r], seen'[r] = seen[r], readAt'[r] = readAt[r],
         \A q \in Requests : Done(q) => Done(q)' /\ Nth(q)' = Nth(q) /\ call'[q] = call[q]
  PROVE  HasReason(r)'
<1>1. ASSUME NEW q \in Requests, Done(q), NEW ops, By(q, ops) PROVE Done(q)' /\ By(q, ops)'
  BY <1>1 DEF By
<1>2. ASSUME NEW q \in Requests, Deletes(q, r) PROVE Deletes(q, r)'
  <2>1. Done(q) /\ Done(q)' /\ Nth(q)' = Nth(q) /\ call'[q] = call[q]
    BY <1>2 DEF Deletes, After
  <2> QED
    BY <1>2, <2>1 DEF Deletes, After, By
<1>3. ASSUME NEW q \in Requests, Done(q), SameShare(q, r) PROVE SameShare(q, r)'
  BY <1>3 DEF SameShare
<1>4. \A ops : By(r, ops)' <=> By(r, ops)
  BY DEF By
<1>5. CASE By(r, {"deleteTask"})
  <2>1. PICK s \in Requests :
          Done(s) /\ By(s, {"addLog", "registerTaskFile"}) /\ call[s].id = call[r].id
    BY <1>5 DEF HasReason, By
  <2>2. Done(s)' /\ By(s, {"addLog", "registerTaskFile"})' /\ call'[s].id = call'[r].id
    BY <1>1, <2>1
  <2> QED
    BY <1>4, <1>5, <2>2 DEF HasReason, By
<1>6. CASE By(r, {"grant"})
  BY <1>1, <1>3, <1>4, <1>6 DEF HasReason, By
<1>7. CASE By(r, {"link"})
  BY <1>1, <1>4, <1>7 DEF HasReason, By
<1>8. CASE By(r, {"verdictByKey"})
  BY <1>1, <1>2, <1>4, <1>8 DEF HasReason, By
<1>9. CASE ~By(r, {"deleteTask", "grant", "link", "verdictByKey"})
  BY <1>2, <1>4, <1>9 DEF HasReason, By
<1> QED
  BY <1>5, <1>6, <1>7, <1>8, <1>9 DEF By

LEMMA RefusalsHaveReasons ==
  ASSUME CoreInv, Grounded, LossesExplained, NEW r \in Requests, pc[r] = "write", RefusedFor(r)
  PROVE  HasReason(r) \/ (Refuse(r, "500") /\ ~Fits(call[r]))
<1>0. /\ Aimed(r) /\ Losses(r) /\ Accounted(db, Commits, call) /\ r \notin Commits
      /\ \A q \in Commits : q \in Requests /\ Done(q)
  BY LossesAre DEF Grounded, Commits, Done
<1>1. call[r].op # "none" => call[r] \in Calls
  BY DEF CoreInv, RowsInv, TypeOK, Idle
<1>2. CASE By(r, {"reorder"}) /\ \E t \in Range(call[r].list) : LostTask(r, t)
  <2>1. PICK t \in Range(call[r].list) : LostTask(r, t)
    BY <1>2
  <2>2. t \in TaskIds
    BY <1>1, <1>2, <2>1, TaskCallShape DEF By, Range
  <2>3. PICK s \in Requests : After(s, readAt[r]) /\ By(s, {"deleteTask"}) /\ call[s].id = t
    BY <1>0, <2>1, <2>2 DEF Losses, LostTask
  <2> QED
    BY <1>2, <2>1, <2>3 DEF HasReason, Deletes, By
<1>3. CASE By(r, {"bulkPatchTasks"}) /\ \E t \in call[r].ids : LostTask(r, t)
  <2>1. PICK t \in call[r].ids : LostTask(r, t)
    BY <1>3
  <2>2. t \in TaskIds
    BY <1>1, <1>3, <2>1, TaskCallShape DEF By
  <2>3. PICK s \in Requests : After(s, readAt[r]) /\ By(s, {"deleteTask"}) /\ call[s].id = t
    BY <1>0, <2>1, <2>2 DEF Losses, LostTask
  <2> QED
    BY <1>3, <2>1, <2>3 DEF HasReason, Deletes, By
<1>4. CASE By(r, {"patchTask", "addLog", "registerTaskFile"}) /\ db.taskOf[call[r].id] = Null
  <2>1. call[r].id \in TaskIds
    BY <1>1, <1>4, TaskCallShape, FileCallShape DEF By
  <2>2. seen[r].taskOf[call[r].id] # Null
    BY <1>0, <1>4 DEF Aimed, AimsAt, By
  <2>3. PICK s \in Requests : After(s, readAt[r]) /\ By(s, {"deleteTask"}) /\ call[s].id = call[r].id
    BY <1>0, <1>4, <2>1, <2>2 DEF Losses
  <2> QED
    BY <1>4, <2>3 DEF HasReason, Deletes, By
<1>5. CASE By(r, {"deleteTask"}) /\ ~Unreferenced(call[r].id)
  <2>1. call[r].id \in TaskIds /\ call[r].id # Null
    BY <1>1, <1>5, TaskCallShape, NullOut DEF By
  <2>2. CASE db.notes[call[r].id] # {}
    <3>1. PICK q \in db.notes[call[r].id] : TRUE
      BY <2>2
    <3>2. q \in Commits /\ call[q].op \in {"addLog"} /\ call[q].id = call[r].id
      BY <1>0, <2>1, <3>1 DEF Accounted
    <3> QED
      BY <1>0, <1>5, <3>2 DEF HasReason, By
  <2>3. CASE db.notes[call[r].id] = {}
    <3>1. PICK f \in FileIds : db.fileTask[f] = call[r].id
      BY <1>5, <2>3 DEF Unreferenced
    <3>2. f \in Commits /\ call[f].op \in {"registerTaskFile"} /\ call[f].id = call[r].id
      BY <1>0, <2>1, <3>1 DEF Accounted
    <3> QED
      BY <1>0, <1>5, <3>2 DEF HasReason, By
  <2> QED
    BY <2>2, <2>3
<1>6. CASE By(r, Judges) /\ \E f \in FileIds : Target(r, f) /\ db.key[f] = Null
  <2>1. PICK f \in FileIds : Target(r, f) /\ db.key[f] = Null
    BY <1>6
  <2>2. seen[r].key[f] # Null
    BY <1>0, <2>1, JudgedFiles DEF CoreInv, RowsInv
  <2>3. PICK s \in Requests : After(s, readAt[r]) /\ By(s, {"deleteFile"}) /\ call[s].id = f
    BY <1>0, <2>1, <2>2 DEF Losses
  <2>4. Deletes(s, r)
    BY <2>1, <2>3 DEF Deletes, Target, Judges, By
  <2> QED
    BY <1>6, <2>4 DEF HasReason, By, Judges
<1>7. CASE By(r, {"patchComment"}) /\ db.said[call[r].id] = Null
  <2>1. call[r].id \in Requests
    BY <1>1, <1>7, TalkCallShape DEF By
  <2>2. seen[r].said[call[r].id] # Null
    BY <1>0, <1>7 DEF Aimed, AimsAt, By
  <2>3. PICK s \in Requests : /\ After(s, readAt[r]) /\ By(s, {"deleteComment"})
                              /\ call[s].id = call[r].id
    BY <1>0, <1>7, <2>1, <2>2 DEF Losses
  <2> QED
    BY <1>7, <2>3 DEF HasReason, Deletes, By
<1>8. CASE By(r, {"link"}) /\ ~LinkFree(call[r])
  <2> DEFINE p == <<call[r].case, call[r].id>>
  <2>1. p \in Cases \X Cases
    BY <1>1, <1>8, TalkCallShape DEF By
  <2>2. db.link[p] # Null
    BY <1>8 DEF LinkFree
  <2>3. PICK q \in Commits : call[q].op \in {"link"} /\ p = <<call[q].case, call[q].id>>
    BY <1>0, <2>1, <2>2 DEF Accounted
  <2>4. q \in Requests \ {r} /\ Done(q) /\ call[q].case = call[r].case /\ call[q].id = call[r].id
    BY <1>0, <2>3
  <2> QED
    BY <1>8, <2>3, <2>4 DEF HasReason, By
<1>9. CASE By(r, {"grant"}) /\ ~ShareFree(call[r])
  <2> DEFINE p == <<call[r].case, call[r].user>>
  <2>1. p \in Cases \X Users
    BY <1>1, <1>9, TalkCallShape DEF By
  <2>2. db.share[p] # "none"
    BY <1>9 DEF ShareFree
  <2>3. CASE p \in FirstShares
    BY <1>9, <2>3 DEF HasReason, By
  <2>4. CASE p \notin FirstShares
    <3>1. PICK q \in Commits : call[q].op \in {"grant"} /\ p = <<call[q].case, call[q].user>>
      BY <1>0, <2>1, <2>2, <2>4 DEF Accounted
    <3>2. q \in Requests \ {r} /\ Done(q) /\ SameShare(q, r)
      BY <1>0, <3>1 DEF SameShare
    <3> QED
      BY <1>9, <3>1, <3>2 DEF HasReason, By
  <2> QED
    BY <2>3, <2>4
<1> QED
  BY <1>2, <1>3, <1>4, <1>5, <1>6, <1>7, <1>8, <1>9 DEF RefusedFor

(* Two files under one key.                                                *)
LEMMA TwoFilesHaveReasons ==
  ASSUME CoreInv, Grounded, NEW r \in Requests, Wanted(call[r]) \in {"409", "500"},
         Fits(call[r]), call'[r] = call[r],
         \A q \in Requests : Done(q) => Done(q)' /\ call'[q] = call[q]
  PROVE  HasReason(r)'
<1> DEFINE F == {f \in FileIds : db.key[f] = call[r].key}
<1>1. call[r].op = "verdictByKey" /\ F # {} /\ \A f \in F : F # {f}
  <2>1. call[r].op = "verdictByKey" => call[r].fits
    <3>1. call[r].op = "verdictByKey" => call[r] \in Calls
      BY DEF CoreInv, RowsInv, TypeOK, Idle
    <3> QED
      BY <3>1, FileCallShape DEF Fits
  <2> QED
    BY <2>1 DEF Wanted
<1>2. By(r, {"verdictByKey"})' /\ ~By(r, {"deleteTask"})' /\ ~By(r, {"grant"})' /\ ~By(r, {"link"})'
  BY <1>1 DEF By
<1>3. call[r].key # Null
  <2>1. call[r] \in Calls
    BY <1>1 DEF CoreInv, RowsInv, TypeOK, Idle
  <2> QED
    BY <1>1, <2>1, FileCallShape, NullOut
<1>4. PICK f \in F, g \in F : f # g
  BY <1>1
<1>5. \A x \in F : \/ x \in Files /\ call[r].key = FirstKey
                   \/ x \in Commits /\ call[x].op \in {"registerFile", "registerTaskFile"}
  BY <1>3 DEF Grounded, Accounted
<1>6. CASE f \in Files /\ g \in Files /\ call[r].key = FirstKey
  BY <1>2, <1>4, <1>6 DEF HasReason
<1>7. ASSUME NEW x \in Commits, call[x].op \in {"registerFile", "registerTaskFile"}
      PROVE  HasReason(r)'
  <2>1. x \in Requests /\ Done(x)' /\ By(x, {"registerFile", "registerTaskFile"})'
    BY <1>7 DEF Commits, By
  <2> QED
    BY <1>2, <2>1 DEF HasReason
<1> QED
  BY <1>4, <1>5, <1>6, <1>7

LEMMA ErrorsCalm ==
  ASSUME CoreInv, Grounded, LossesExplained, ErrorsHaveReasons, Calm PROVE ErrorsHaveReasons'
<1> SUFFICES ASSUME NEW r \in Requests, pc'[r] \in {"409", "500"}
             PROVE  HasReason(r)' \/ (pc'[r] = "500" /\ ~Fits(call'[r]))
  BY DEF ErrorsHaveReasons, Fits
<1>1. \A q \in Requests : Done(q) => Done(q)' /\ Nth(q)' = Nth(q) /\ call'[q] = call[q]
  BY DEF Calm
<1>2. call'[r] = call[r]
  BY DEF Calm
<1>3. CASE seen'[r] = db /\ pc'[r] = Wanted(call[r])
  <2>1. CASE Fits(call[r])
    BY <1>1, <1>2, <1>3, <2>1, TwoFilesHaveReasons
  <2>2. CASE ~Fits(call[r])
    <3>1. Wanted(call[r]) # "409"
      BY WantedRange
    <3> QED
      BY <1>2, <1>3, <2>2, <3>1
  <2> QED
    BY <2>1, <2>2
<1>4. CASE /\ pc'[r] = pc[r] \/ (pc[r] = "write" /\ RefusedFor(r))
           /\ seen'[r] = seen[r] /\ readAt'[r] = readAt[r]
  <2>1. CASE HasReason(r)
    BY <1>1, <1>2, <1>4, <2>1, ReasonsStay
  <2>2. CASE pc'[r] = "500" /\ ~Fits(call[r])
    BY <1>2, <2>2
  <2>3. ASSUME Refuse(r, "500") PROVE pc'[r] = "500"
    BY <2>3 DEF Refuse, Answer, CoreInv, RowsInv, TypeOK
  <2> QED
    BY <1>4, <2>1, <2>2, <2>3, RefusalsHaveReasons DEF ErrorsHaveReasons
<1> QED
  BY <1>3, <1>4 DEF Calm

LEMMA ErrorsGrown ==
  ASSUME ErrorsHaveReasons, NEW r \in Requests, Grown(r) PROVE ErrorsHaveReasons'
<1> SUFFICES ASSUME NEW q \in Requests, pc'[q] \in {"409", "500"}
             PROVE  HasReason(q)' \/ (pc'[q] = "500" /\ ~Fits(call'[q]))
  BY DEF ErrorsHaveReasons, Fits
<1>1. /\ call' = call /\ seen' = seen /\ readAt' = readAt
      /\ \A x \in Requests : Done(x) => Done(x)' /\ Nth(x)' = Nth(x)
      /\ pc'[q] = IF q = r THEN "200" ELSE pc[q]
  BY DEF Grown
<1>2. CASE HasReason(q)
  BY <1>1, <1>2, ReasonsStay
<1>3. HasReason(q) \/ (pc'[q] = "500" /\ ~Fits(call'[q]))
  BY <1>1 DEF ErrorsHaveReasons
<1> QED
  BY <1>2, <1>3

-----------------------------------------------------------------------------
(* Where observables are, and the records of it.                           *)
LEMMA TooLongGrows ==
  ASSUME NEW o
  PROVE  /\ Calm => (TooLong(o)' <=> TooLong(o))
         /\ \A r \in Requests : Grown(r) =>
              /\ TooLong(o) => TooLong(o)'
              /\ By(r, {"attach"}) /\ o \in call[r].ids /\ Cardinality(call[r].ids) > AuditedIds
                   => TooLong(o)'
<1>1. ASSUME Calm, NEW q \in Requests
      PROVE  (Done(q)' <=> Done(q)) /\ (Done(q) => call'[q] = call[q])
  BY <1>1 DEF Calm
<1>2. Calm => (TooLong(o)' <=> TooLong(o))
  BY <1>1 DEF TooLong, By
<1>3. ASSUME NEW r \in Requests, Grown(r)
      PROVE  call' = call /\ Done(r)' /\ \A q \in Requests : Done(q) => Done(q)'
  BY <1>3 DEF Grown
<1> QED
  BY <1>2, <1>3 DEF TooLong, By

LEMMA RecordsGrow ==
  ASSUME TypeOK, NEW r, NEW T, NEW to, Recorded(r, T, to), NEW o
  PROVE  /\ Records(o)' = IF o \in T THEN Records(o) \cup {Len(db.trail) + 1} ELSE Records(o)
         /\ Records(o) \subseteq 1..Len(db.trail) /\ Len(db.trail) \in Nat
         /\ \A i \in 1..Len(db.trail) : db'.trail[i] = db.trail[i]
         /\ db'.trail[Len(db.trail) + 1] = Moved(r, T, to)
         /\ Len(db'.trail) = Len(db.trail) + 1
<1> DEFINE R == [ids : SUBSET ObsIds, to : Cases \cup {Null}, by : Requests]
<1>1. db.trail \in Seq(R)
  BY DEF TypeOK, Database
<1>2. db'.trail = Append(db.trail, Moved(r, T, to))
  BY DEF Recorded
<1> HIDE DEF R
<1>3. /\ Len(db.trail) \in Nat /\ Len(db'.trail) = Len(db.trail) + 1
      /\ \A i \in 1..Len(db.trail) : db'.trail[i] = db.trail[i]
      /\ db'.trail[Len(db.trail) + 1] = Moved(r, T, to)
  BY <1>1, <1>2
<1>4. Moved(r, T, to).ids = T
  BY DEF Moved
<1>5. ASSUME NEW i
      PROVE  i \in Records(o)' <=> i \in Records(o) \/ (o \in T /\ i = Len(db.trail) + 1)
  BY <1>3, <1>4 DEF Records
<1> QED
  BY <1>3, <1>5 DEF Records

LEMMA RecordsAreDone ==
  ASSUME TypeOK, PlacesExplained, NEW i \in 1..Len(db.trail)
  PROVE  db.trail[i].by \in Requests /\ Done(db.trail[i].by)
<1> DEFINE R == [ids : SUBSET ObsIds, to : Cases \cup {Null}, by : Requests]
<1>1. db.trail \in Seq(R)
  BY DEF TypeOK, Database
<1> HIDE DEF R
<1>2. db.trail[i] \in R
  BY <1>1
<1> QED
  BY <1>2 DEF R, PlacesExplained

LEMMA RecordsStay ==
  ASSUME db'.trail = db.trail, NEW o PROVE Records(o)' = Records(o)
BY DEF Records

(* What PlacementFollowsAudit says of one observable.                      *)
AtLast(o) ==
  IF Records(o) = {} THEN db.place[o] = Null
  ELSE \E i \in Records(o) : IsLastOf(i, Records(o)) /\ db.place[o] = db.trail[i].to
TakenFrom(o, i, j) == /\ IsLastOf(j, {k \in Records(o) : k < i})
                      /\ \/ db.trail[j].to = call[db.trail[i].by].case
                         \/ Overtook(db.trail[j].by, db.trail[i].by)
TakesOut(i) == db.trail[i].to = Null /\ By(db.trail[i].by, {"detach"})
Follows(o) == AtLast(o) /\ \A i \in Records(o) : TakesOut(i) => \E j \in Records(o) : TakenFrom(o, i, j)
LEMMA PlacementIs ==
  PlacementFollowsAudit <=> \A o \in ObsIds : TooLong(o) \/ Follows(o)
BY DEF PlacementFollowsAudit, Follows, AtLast, TakesOut, TakenFrom
LEMMA PlacementIsNext ==
  PlacementFollowsAudit' <=> \A o \in ObsIds : TooLong(o)' \/ Follows(o)'
BY DEF PlacementFollowsAudit, Follows, AtLast, TakesOut, TakenFrom

LEMMA PlacesCalm ==
  ASSUME TypeOK, PlacesExplained, PlacementFollowsAudit, Calm
  PROVE  PlacesExplained' /\ PlacementFollowsAudit'
<1>1. /\ db' = db
      /\ \A q \in Requests : /\ Done(q)' <=> Done(q)
                             /\ Nth(q)' = Nth(q)
                             /\ Done(q) => call'[q] = call[q] /\ readAt'[q] = readAt[q]
  BY DEF Calm
<1>2. \A i \in 1..Len(db.trail) : db.trail[i].by \in Requests /\ Done(db.trail[i].by)
  BY RecordsAreDone
<1>3. ASSUME NEW o \in ObsIds
      PROVE  Records(o)' = Records(o) /\ Records(o) \subseteq 1..Len(db.trail)
  BY <1>1 DEF Records
<1>5. ASSUME NEW q \in Requests, pc'[q] = "write", NEW o \in ObsIds
      PROVE  TooLong(o)' \/ seen'[q].place[o] = db.place[o] \/ MovedSince(o, readAt[q])'
  <2>1. CASE pc[q] = "write" /\ seen'[q] = seen[q] /\ readAt'[q] = readAt[q]
    <3>1. TooLong(o) \/ seen[q].place[o] = db.place[o] \/ MovedSince(o, readAt[q])
      BY <2>1 DEF PlacesExplained, Writing
    <3>2. MovedSince(o, readAt[q]) => MovedSince(o, readAt[q])'
      <4> DEFINE n == readAt[q]
      <4>1. readAt'[q] = n
        BY <2>1
      <4>2. MovedSince(o, n) => \E i \in Records(o) : IsLastOf(i, Records(o)) /\ Nth(db.trail[i].by)' > n
        BY <1>1, <1>2, <1>3 DEF MovedSince
      <4> QED
        BY <1>1, <1>3, <4>1, <4>2 DEF MovedSince, IsLastOf
    <3> QED
      BY <2>1, <3>1, <3>2, TooLongGrows
  <2>2. CASE seen'[q] = db
    BY <2>2
  <2> QED
    BY <1>5, <2>1, <2>2 DEF Calm
<1>6. PlacesExplained'
  BY <1>1, <1>2, <1>5 DEF PlacesExplained, Writing
<1>7. ASSUME NEW o \in ObsIds, Follows(o) PROVE Follows(o)'
  <2>1. AtLast(o)'
    BY <1>1, <1>3, <1>7 DEF Follows, AtLast
  <2>2. ASSUME NEW i \in Records(o), TakesOut(i)' PROVE \E j \in Records(o) : TakenFrom(o, i, j)'
    <3>1. db.trail[i].by \in Requests /\ Done(db.trail[i].by)
      BY <1>2, <1>3
    <3>2. TakesOut(i)
      BY <1>1, <2>2, <3>1 DEF TakesOut, By
    <3>3. PICK j \in Records(o) : TakenFrom(o, i, j)
      BY <1>7, <3>2 DEF Follows
    <3>4. db.trail[j].by \in Requests /\ Done(db.trail[j].by)
      BY <1>2, <1>3
    <3>5. \A p, q \in Requests : Overtook(p, q) => Overtook(p, q)'
      BY <1>1 DEF Overtook, Before
    <3> QED
      BY <1>1, <1>3, <3>1, <3>3, <3>4, <3>5 DEF TakenFrom
  <2> QED
    BY <1>3, <2>1, <2>2 DEF Follows
<1>8. PlacementFollowsAudit'
  BY <1>7, PlacementIs, PlacementIsNext, TooLongGrows
<1> QED
  BY <1>6, <1>8

LEMMA PlacesGrown ==
  ASSUME TypeOK, Grounded, PlacesExplained, PlacementFollowsAudit,
         NEW r \in Requests, Grown(r), Effects(r)
  PROVE  PlacesExplained' /\ PlacementFollowsAudit'
<1>1. /\ call' = call /\ seen' = seen /\ readAt' = readAt
      /\ Done(r)' /\ ~Done(r) /\ pc[r] = "write" /\ Nth(r)' = Len(log) + 1 /\ Len(log) \in Nat
      /\ \A q \in Requests : /\ Done(q) => Done(q)' /\ Nth(q)' = Nth(q) /\ Nth(q) \in 1..Len(log)
                             /\ pc'[q] = "write" => pc[q] = "write" /\ q # r
                             /\ readAt[q] \in Nat /\ readAt[q] <= Len(log)
  BY DEF Grown
<1>2. \A i \in 1..Len(db.trail) : db.trail[i].by \in Requests /\ Done(db.trail[i].by)
  BY RecordsAreDone
<1>3. \A o : Records(o) \subseteq 1..Len(db.trail)
  BY DEF Records
<1>4. \A p, q \in Requests : Overtook(p, q) => Overtook(p, q)'
  BY <1>1 DEF Overtook, Before
<1>5. CASE db'.trail = db.trail /\ db'.place = db.place
  <2>1. \A o : Records(o)' = Records(o)
    BY <1>5, RecordsStay
  <2>2. ASSUME NEW o \in ObsIds, NEW n, MovedSince(o, n) PROVE MovedSince(o, n)'
    BY <1>1, <1>2, <1>3, <1>5, <2>1, <2>2 DEF MovedSince, IsLastOf
  <2>3. PlacesExplained'
    BY <1>1, <1>2, <1>5, <2>2, TooLongGrows DEF PlacesExplained, Writing
  <2>4. ASSUME NEW o \in ObsIds, Follows(o) PROVE Follows(o)'
    <3>1. AtLast(o)'
      BY <1>5, <2>1, <2>4 DEF Follows, AtLast
    <3>2. ASSUME NEW i \in Records(o), TakesOut(i) PROVE \E j \in Records(o) : TakenFrom(o, i, j)'
      <4>1. PICK j \in Records(o) : TakenFrom(o, i, j)
        BY <2>4, <3>2 DEF Follows
      <4>2. TakenFrom(o, i, j)'
        BY <1>1, <1>2, <1>3, <1>4, <1>5, <2>1, <4>1 DEF TakenFrom
      <4> QED
        BY <4>2
    <3>3. \A i : TakesOut(i)' <=> TakesOut(i)
      BY <1>1, <1>5 DEF TakesOut, By
    <3> QED
      BY <2>1, <3>1, <3>2, <3>3 DEF Follows
  <2> QED
    BY <2>3, <2>4, PlacementIs, PlacementIsNext, TooLongGrows
<1>6. ASSUME NEW T \in SUBSET ObsIds, NEW to \in Cases \cup {Null}, Recorded(r, T, to),
             \A o \in ObsIds \ T : db'.place[o] # db.place[o] =>
               By(r, {"attach"}) /\ o \in call[r].ids /\ Cardinality(call[r].ids) > AuditedIds,
             By(r, {"detach"}) => T = {call[r].id}
      PROVE  PlacesExplained' /\ PlacementFollowsAudit'
  <2> DEFINE L == Len(db.trail)
  <2>1. ASSUME NEW o
        PROVE  Records(o)' = IF o \in T THEN Records(o) \cup {L + 1} ELSE Records(o)
    BY <1>6, RecordsGrow
  <2>2. /\ L \in Nat /\ Len(db'.trail) = L + 1
        /\ \A i \in 1..L : db'.trail[i] = db.trail[i]
        /\ db'.trail[L + 1] = Moved(r, T, to)
    BY <1>6, RecordsGrow
  <2>3. db'.trail[L + 1].by = r /\ db'.trail[L + 1].to = to
    BY <2>2 DEF Moved
  <2> HIDE DEF L
  <2>4. \A o : Records(o) \subseteq 1..L
    BY <1>3 DEF L
  <2>5. ASSUME NEW o \in T
        PROVE  L + 1 \in Records(o)' /\ IsLastOf(L + 1, Records(o)') /\ db'.place[o] = to
    BY <1>6, <2>1, <2>2, <2>4 DEF IsLastOf, Recorded
  <2>6. ASSUME NEW o \in T, NEW q \in Requests PROVE MovedSince(o, readAt[q])'
    <3>1. Nth(r)' > readAt[q]
      BY <1>1
    <3> QED
      BY <1>1, <2>3, <2>5, <3>1 DEF MovedSince
  <2>7. ASSUME NEW o \in ObsIds, NEW q \in Requests, MovedSince(o, readAt[q])
        PROVE  MovedSince(o, readAt[q])'
    <3>1. CASE o \in T
      BY <2>6, <3>1
    <3>2. CASE o \notin T
      <4>1. PICK i \in Records(o) : IsLastOf(i, Records(o)) /\ Nth(db.trail[i].by) > readAt[q]
        BY <2>7 DEF MovedSince
      <4>2. db'.trail[i] = db.trail[i] /\ Nth(db.trail[i].by)' = Nth(db.trail[i].by)
        BY <1>1, <1>2, <1>3, <2>2, <2>4
      <4>3. Nth(db.trail[i].by)' > readAt'[q]
        BY <1>1, <4>1, <4>2
      <4> QED
        BY <1>1, <2>1, <3>2, <4>1, <4>3 DEF MovedSince, IsLastOf
    <3> QED
      BY <3>1, <3>2
  <2>8. ASSUME NEW o \in ObsIds \ T, db'.place[o] # db.place[o] PROVE TooLong(o)'
    BY <1>6, <2>8, TooLongGrows
  <2>9. ASSUME NEW q \in Requests, pc'[q] = "write", NEW o \in ObsIds
        PROVE  TooLong(o)' \/ seen[q].place[o] = db'.place[o] \/ MovedSince(o, readAt[q])'
    <3>1. TooLong(o) \/ seen[q].place[o] = db.place[o] \/ MovedSince(o, readAt[q])
      BY <1>1, <2>9 DEF PlacesExplained, Writing
    <3> QED
      BY <2>6, <2>7, <2>8, <3>1, TooLongGrows
  <2>10. (\A i \in 1..Len(db.trail) : Done(db.trail[i].by))'
    <3> SUFFICES ASSUME NEW i \in 1..L + 1 PROVE Done(db.trail[i].by)'
      BY <2>2
    <3>1. CASE i = L + 1
      BY <1>1, <2>3, <3>1
    <3>2. CASE i \in 1..L
      BY <1>1, <1>2, <2>2, <3>2 DEF L
    <3> QED
      BY <2>2, <3>1, <3>2
  <2>11. PlacesExplained'
    BY <1>1, <2>9, <2>10 DEF PlacesExplained, Writing
  <2>12. ASSUME NEW o \in ObsIds, Follows(o), ~TooLong(o)' PROVE AtLast(o)'
    <3>1. CASE o \in T
      BY <2>3, <2>5, <3>1 DEF AtLast
    <3>2. CASE o \notin T
      <4>1. Records(o)' = Records(o) /\ db'.place[o] = db.place[o]
        BY <2>1, <2>8, <2>12, <3>2
      <4>2. \A i \in Records(o) : db'.trail[i] = db.trail[i]
        BY <2>2, <2>4
      <4>3. AtLast(o)
        BY <2>12 DEF Follows
      <4> QED
        BY <4>1, <4>2, <4>3 DEF AtLast
    <3> QED
      BY <3>1, <3>2
  <2>13. ASSUME NEW o \in ObsIds, Follows(o), NEW i \in Records(o), TakesOut(i)'
         PROVE  \E j \in Records(o) : TakenFrom(o, i, j)'
    <3>1. i \in 1..L /\ db'.trail[i] = db.trail[i]
      BY <2>2, <2>4
    <3>2. TakesOut(i)
      BY <1>1, <2>13, <3>1 DEF TakesOut, By
    <3>3. PICK j \in Records(o) : TakenFrom(o, i, j)
      BY <2>13, <3>2 DEF Follows
    <3>4. db'.trail[j] = db.trail[j]
      BY <2>2, <2>4
    <3>5. {k \in Records(o)' : k < i} = {k \in Records(o) : k < i}
      BY <2>1, <2>2, <3>1
    <3>6. TakenFrom(o, i, j)'
      BY <1>1, <1>2, <1>3, <1>4, <3>1, <3>3, <3>4, <3>5 DEF TakenFrom
    <3> QED
      BY <3>6
  <2>14. ASSUME NEW o \in T, Follows(o), ~TooLong(o)', NEW n, n = L + 1, TakesOut(n)'
         PROVE  \E j \in Records(o) : TakenFrom(o, n, j)'
    <3>0. db'.trail[n].by = r /\ db'.trail[n].to = to
      BY <2>3, <2>14
    <3>1. By(r, {"detach"}) /\ o = call[r].id
      BY <1>1, <1>6, <2>14, <3>0 DEF TakesOut, By
    <3>2. seen[r].place[o] = call[r].case
      BY <1>1, <3>1 DEF Grounded, Aimed, AimsAt, By
    <3>3. call[r].case # Null
      <4>1. call[r] \in Calls
        BY <3>1 DEF TypeOK, By, Idle
      <4> QED
        BY <3>1, <4>1, ObservableCallShape, NullOut DEF By
    <3>4. seen[r].place[o] = db.place[o] \/ MovedSince(o, readAt[r])
      BY <1>1, <2>14, TooLongGrows DEF PlacesExplained, Writing
    <3>5. {k \in Records(o)' : k < n} = Records(o)
      BY <2>1, <2>2, <2>4, <2>14
    <3>6. \A j \in Records(o) : db'.trail[j] = db.trail[j]
      BY <2>2, <2>4
    <3>7. CASE seen[r].place[o] = db.place[o]
      <4>1. PICK j \in Records(o) : IsLastOf(j, Records(o)) /\ db.place[o] = db.trail[j].to
        BY <2>14, <3>2, <3>3, <3>7 DEF Follows, AtLast
      <4>2. TakenFrom(o, n, j)'
        BY <1>1, <3>0, <3>2, <3>5, <3>6, <3>7, <4>1 DEF TakenFrom
      <4> QED
        BY <4>2
    <3>8. CASE MovedSince(o, readAt[r])
      <4>1. PICK j \in Records(o) : IsLastOf(j, Records(o)) /\ Nth(db.trail[j].by) > readAt[r]
        BY <3>8 DEF MovedSince
      <4>2. db.trail[j].by \in Requests /\ Done(db.trail[j].by)
        BY <1>2, <1>3
      <4>3. \A p \in Requests : Done(p) /\ Nth(p) > readAt[r] => Overtook(p, r)'
        BY <1>1 DEF Overtook, Before
      <4>4. TakenFrom(o, n, j)'
        BY <3>0, <4>2, <3>5, <3>6, <4>1, <4>3 DEF TakenFrom
      <4> QED
        BY <4>4
    <3> QED
      BY <3>4, <3>7, <3>8
  <2>15. ASSUME NEW o \in ObsIds, Follows(o), ~TooLong(o)' PROVE Follows(o)'
    <3>1. ASSUME NEW i \in Records(o)', TakesOut(i)'
          PROVE  \E j \in Records(o)' : TakenFrom(o, i, j)'
      <4>1. Records(o) \subseteq Records(o)' /\ (i \in Records(o) \/ (o \in T /\ i = L + 1))
        BY <2>1
      <4>2. \E j \in Records(o) : TakenFrom(o, i, j)'
        BY <2>13, <2>14, <2>15, <3>1, <4>1
      <4> QED
        BY <4>1, <4>2
    <3> QED
      BY <2>12, <2>15, <3>1 DEF Follows
  <2> QED
    BY <2>11, <2>15, PlacementIs, PlacementIsNext, TooLongGrows
<1> QED
  BY <1>5, <1>6 DEF Effects, ObsEffect

-----------------------------------------------------------------------------
(* Imports, and what they insert.                                          *)
LEMMA ImportsCalm ==
  ASSUME CoreInv, ImportsExplained, Calm PROVE ImportsExplained'
<1>1. /\ db' = db
      /\ \A q \in Requests : /\ Done(q)' <=> Done(q)
                             /\ Nth(q)' = Nth(q)
                             /\ Done(q) => call'[q] = call[q] /\ seen'[q] = seen[q]
                                           /\ readAt'[q] = readAt[q]
  BY DEF Calm
<1>2. ASSUME NEW q \in Requests, Lasting(q)' PROVE Lasting(q) /\ call'[q] = call[q]
  <2>1. Done(q) /\ call'[q] = call[q]
    BY <1>1, <1>2 DEF Lasting
  <2>2. Unmoved(q)
    BY <1>1, <1>2 DEF Lasting, Unmoved, By
  <2> QED
    BY <1>1, <1>2, <2>1, <2>2 DEF Lasting, By
<1>3. ASSUME NEW q \in Requests, Lasting(q)'
      PROVE  db.value[q] = Stored[call'[q].value] /\ db.place[q] = call'[q].case
  BY <1>2, <1>3 DEF ImportsExplained
<1>4. ASSUME NEW s \in Requests, NEW q \in Requests, pc'[s] \in {"write", "200"}, Lasting(q)',
             Nth(q)' <= readAt'[s]
      PROVE  /\ seen'[s].value[q] = Stored[call'[q].value] /\ seen'[s].place[q] = call'[q].case
             /\ q \in seen'[s].dropped => q \in db.dropped
  <2>1. CASE pc[s] \in {"write", "200"} /\ seen'[s] = seen[s] /\ readAt'[s] = readAt[s]
    BY <1>1, <1>2, <1>4, <2>1 DEF ImportsExplained
  <2>2. CASE seen'[s] = db
    BY <1>3, <1>4, <2>2
  <2> QED
    BY <1>1, <1>4, <2>1, <2>2 DEF Calm, Done
<1>5. ASSUME NEW q \in Requests, NEW s \in Requests, Imported(q)', Done(s)', By(s, {"import"})',
             db.value[s] # Null, q # s, call'[q].case = call'[s].case,
             Stored[call'[q].value] = call'[s].value
      PROVE  Nth(q)' > readAt'[s]
  <2>1. Imported(q) /\ call'[q] = call[q]
    BY <1>1, <1>2, <1>5 DEF Imported
  <2>2. Done(s) /\ call'[s] = call[s] /\ By(s, {"import"})
    BY <1>1, <1>5 DEF By
  <2> QED
    BY <1>1, <1>5, <2>1, <2>2 DEF ImportsExplained
<1> QED
  BY <1>1, <1>3, <1>4, <1>5 DEF ImportsExplained

LEMMA ImportsGrown ==
  ASSUME TypeOK, Grounded, ImportsExplained, NEW r \in Requests, Grown(r), Effects(r)
  PROVE  ImportsExplained'
<1>1. /\ call' = call /\ seen' = seen /\ readAt' = readAt
      /\ Done(r)' /\ ~Done(r) /\ pc[r] = "write" /\ Nth(r)' = Len(log) + 1 /\ Len(log) \in Nat
      /\ \A q \in Requests : /\ Done(q)' <=> Done(q) \/ q = r
                             /\ Done(q) => Nth(q)' = Nth(q) /\ Nth(q) \in 1..Len(log)
                             /\ pc'[q] = IF q = r THEN "200" ELSE pc[q]
                             /\ readAt[q] \in Nat /\ readAt[q] <= Len(log)
  BY DEF Grown
<1>2. /\ db.dropped \subseteq db'.dropped
      /\ \A o \in ObsIds :
           /\ o # r => db'.value[o] = db.value[o]
           /\ \/ db'.place[o] = db.place[o]
              \/ By(r, {"attach"}) /\ o \in call[r].ids
              \/ By(r, {"detach"}) /\ o = call[r].id
              \/ o = r
      /\ By(r, {"import"}) => IF Twins(r) # {} THEN db' = db
                              ELSE /\ db'.value[r] = Stored[call[r].value]
                                   /\ db'.place[r] = call[r].case
  BY DEF Effects, ObsEffect
<1>3. \A q \in Requests : q \in ObsIds
  BY DEF ObsIds
<1>4. ASSUME NEW q \in Requests, q # r, Lasting(q)'
      PROVE  Lasting(q) /\ db'.value[q] = db.value[q] /\ db'.place[q] = db.place[q]
  <2>1. Done(q) /\ By(q, {"import"}) /\ db'.value[q] = db.value[q] /\ db.value[q] # Null
    BY <1>1, <1>2, <1>3, <1>4 DEF Lasting, By
  <2>2. \A s \in Requests : Done(s) \/ s = r =>
          /\ By(s, {"attach"}) => q \notin call[s].ids
          /\ By(s, {"detach"}) => q # call[s].id
    BY <1>1, <1>4 DEF Lasting, Unmoved, By
  <2>3. Unmoved(q)
    BY <2>2 DEF Unmoved
  <2>4. db'.place[q] = db.place[q]
    BY <1>2, <1>3, <1>4, <2>2
  <2> QED
    BY <2>1, <2>3, <2>4 DEF Lasting
<1>5. ASSUME By(r, {"import"}), db'.value[r] # Null PROVE Twins(r) = {}
  <2>1. db.value[r] = Null
    <3>1. r \notin Observables \cup Commits
      BY <1>1, NamesAssumption DEF Commits
    <3> QED
      BY <1>3, <3>1 DEF Grounded, Accounted
  <2> QED
    BY <1>2, <1>5, <2>1
<1>6. ASSUME NEW q \in Requests, Lasting(q)'
      PROVE  db'.value[q] = Stored[call[q].value] /\ db'.place[q] = call[q].case
  <2>1. CASE q = r
    <3>1. By(r, {"import"}) /\ db'.value[r] # Null
      BY <1>1, <1>6, <2>1 DEF Lasting, By
    <3> QED
      BY <1>2, <1>5, <2>1, <3>1
  <2>2. CASE q # r
    BY <1>4, <1>6, <2>2 DEF ImportsExplained
  <2> QED
    BY <2>1, <2>2
<1>7. ASSUME NEW s \in Requests, NEW q \in Requests, pc'[s] \in {"write", "200"}, Lasting(q)',
             Nth(q)' <= readAt[s]
      PROVE  /\ seen[s].value[q] = Stored[call[q].value] /\ seen[s].place[q] = call[q].case
             /\ q \in seen[s].dropped => q \in db'.dropped
  <2>1. q # r
    BY <1>1, <1>7
  <2>2. Lasting(q) /\ Nth(q) <= readAt[s]
    BY <1>1, <1>4, <1>7, <2>1 DEF Lasting
  <2>3. pc[s] \in {"write", "200"}
    BY <1>1, <1>7
  <2> QED
    BY <1>2, <2>2, <2>3 DEF ImportsExplained
<1>8. ASSUME NEW q \in Requests, NEW s \in Requests, Imported(q)', Done(s)', By(s, {"import"}),
             db'.value[s] # Null, q # s, call[q].case = call[s].case,
             Stored[call[q].value] = call[s].value
      PROVE  Nth(q)' > readAt[s]
  <2>1. CASE q = r
    BY <1>1, <2>1
  <2>2. CASE q # r
    <3>1. Lasting(q) /\ Imported(q) /\ Nth(q)' = Nth(q) /\ Nth(q) \in Nat
      BY <1>1, <1>2, <1>4, <1>8, <2>2 DEF Imported, Lasting
    <3>2. CASE s # r
      <4>1. Done(s) /\ db.value[s] # Null
        BY <1>1, <1>2, <1>3, <1>8, <3>2
      <4> QED
        BY <1>8, <3>1, <4>1 DEF ImportsExplained
    <3>3. CASE s = r /\ Nth(q) <= readAt[r]
      <4>1. /\ seen[r].value[q] = Stored[call[q].value] /\ seen[r].place[q] = call[q].case
            /\ q \notin seen[r].dropped
        BY <1>1, <3>1, <3>3 DEF ImportsExplained, Imported
      <4>2. q \in Twins(r)
        BY <1>3, <1>8, <3>3, <4>1 DEF Twins
      <4> QED
        BY <1>5, <1>8, <3>3, <4>2
    <3> QED
      BY <1>1, <3>1, <3>2, <3>3
  <2> QED
    BY <2>1, <2>2
<1>9. \A q \in Requests : By(q, {"import"})' <=> By(q, {"import"})
  BY <1>1 DEF By
<1> QED
  BY <1>1, <1>6, <1>7, <1>8, <1>9 DEF ImportsExplained

LEMMA ImportsHold ==
  ASSUME CoreInv, ImportsExplained PROVE ImportsDoNotRepeat
<1> SUFFICES ASSUME NEW r \in Requests, NEW s \in Requests, Imported(r), Imported(s), Before(r, s),
                    call[r].case = call[s].case, db.value[r] = db.value[s], ~TooLongValue(s)
             PROVE  Overtook(r, s)
  BY DEF ImportsDoNotRepeat
<1>1. /\ Done(r) /\ Done(s) /\ By(s, {"import"}) /\ db.value[s] # Null
      /\ Stored[call[r].value] = call[s].value
  BY DEF Imported, Lasting, ImportsExplained, TooLongValue
<1>2. r # s
  BY <1>1, NthIs DEF Before, CoreInv, RowsInv, TypeOK
<1> QED
  BY <1>1, <1>2 DEF ImportsExplained, Overtook

-----------------------------------------------------------------------------
(* The invariant, and what it says.                                        *)
LEMMA InitIInv == Init => IInv
<1> SUFFICES ASSUME Init PROVE IInv
  OBVIOUS
<1>1. CoreInv
  BY InitCore
<1>2. /\ \A r \in Requests : pc[r] = "idle" /\ ~Done(r) /\ seen[r] = db
      /\ db.stage = [c \in Cases |-> "open"] /\ db.date = NoRows(Cases)
      /\ db.taskOf = [t \in TaskIds |-> IF t \in Tasks THEN FirstCase ELSE Null]
      /\ db.notes = [t \in TaskIds |-> {}]
      /\ db.key = [f \in FileIds |-> IF f \in Files THEN FirstKey ELSE Null]
      /\ db.fileTask = NoRows(FileIds) /\ db.av = [f \in FileIds |-> "pending"]
      /\ db.value = [o \in ObsIds |-> IF o \in Observables THEN FirstValue ELSE Null]
      /\ db.place = NoRows(ObsIds) /\ db.trail = <<>>
      /\ db.share = [s \in Cases \X Users |-> IF s \in FirstShares THEN "active" ELSE "none"]
      /\ db.link = NoRows(Cases \X Cases)
  BY DEF Init, FirstRows, Done
<1>3. Commits = {} /\ LatestExists
  BY <1>2 DEF Commits, LatestExists
<1>4. Accounted(db, Commits, call)
  BY <1>2 DEF Accounted, NoRows
<1>5. Grounded
  BY <1>2, <1>3, <1>4 DEF Grounded
<1>6. Writing = {} /\ \A r \in Requests : /\ \A c : ~Patched(r, c)
                                          /\ \A f, v : ~Judged(r, f, v)
  BY <1>2 DEF Writing, Patched, Judged
<1>7. DatesExplained
  BY <1>2, <1>6 DEF DatesExplained
<1>8. VerdictsExplained
  BY <1>2, <1>6 DEF VerdictsExplained
<1>9. OrderExplained
  BY <1>2, <1>6 DEF OrderExplained
<1>10. \A o \in ObsIds : Records(o) = {} /\ db.place[o] = Null
  BY <1>2 DEF Records, NoRows
<1>11. PlacesExplained
  BY <1>2, <1>6 DEF PlacesExplained
<1>12. PlacementFollowsAudit
  BY <1>10, PlacementIs DEF Follows, AtLast
<1>13. ImportsExplained
  BY <1>2 DEF ImportsExplained, Lasting, Imported
<1>14. LossesExplained
  BY <1>6 DEF LossesExplained
<1>15. ErrorsHaveReasons
  BY <1>2 DEF ErrorsHaveReasons
<1> QED
  BY <1>1, <1>5, <1>7, <1>8, <1>9, <1>11, <1>12, <1>13, <1>14, <1>15 DEF IInv, Explained

(* A step that commits nothing explains what it leaves.                    *)
LEMMA CalmKeeps ==
  ASSUME CoreInv, Grounded, Explained, Calm PROVE Grounded' /\ Explained'
<1>1. TypeOK
  BY DEF CoreInv, RowsInv
<1>2. Grounded'
  BY GroundedCalm
<1>3. DatesExplained' /\ VerdictsExplained' /\ OrderExplained'
  BY <1>1, DatesCalm, VerdictsCalm, OrderCalm DEF Explained
<1>4. PlacesExplained' /\ PlacementFollowsAudit' /\ ImportsExplained'
  BY <1>1, PlacesCalm, ImportsCalm DEF Explained
<1>5. LossesExplained' /\ ErrorsHaveReasons'
  BY <1>1, LossesCalm, ErrorsCalm DEF Explained
<1> QED
  BY <1>2, <1>3, <1>4, <1>5 DEF Explained

(* So does a commit.                                                       *)
LEMMA CommitExplains ==
  ASSUME CoreInv, Grounded, Explained, NEW r \in Requests, Grown(r), Effects(r)
  PROVE  Grounded' /\ Explained'
<1>1. TypeOK /\ Accounted(seen[r], Commits, call)
  BY DEF CoreInv, RowsInv, Grounded
<1>2. Grounded'
  BY <1>1, GroundedGrown
<1>3. DatesExplained' /\ VerdictsExplained' /\ OrderExplained'
  BY <1>1, DatesGrown, VerdictsGrown, OrderGrown DEF Explained
<1>4. PlacesExplained' /\ PlacementFollowsAudit' /\ ImportsExplained'
  BY <1>1, PlacesGrown, ImportsGrown DEF Explained
<1>5. LossesExplained' /\ ErrorsHaveReasons'
  BY <1>1, LossesGrown, ErrorsGrown DEF Explained
<1> QED
  BY <1>2, <1>3, <1>4, <1>5 DEF Explained

LEMMA NextIInv == IInv /\ [Next]_vars => IInv'
<1> SUFFICES ASSUME IInv, [Next]_vars PROVE IInv'
  OBVIOUS
<1>1. CoreInv /\ Grounded /\ Explained /\ CoreInv'
  BY NextCore DEF IInv
<1>2. CASE UNCHANGED vars
  BY <1>1, <1>2, StutterIsCalm, CalmKeeps DEF IInv
<1>3. ASSUME NEW r \in Requests, Send(r) \/ CheckCase(r) \/ Read(r) PROVE IInv'
  BY <1>1, <1>3, WaitingIsCalm, CalmKeeps DEF IInv
<1>4. ASSUME NEW r \in Requests,
             \/ CaseCall(r) \/ TaskCall(r) \/ FileCall(r) \/ ObservableCall(r) \/ TalkCall(r)
             \/ UnfitCall(r)
      PROVE  IInv'
  <2>1. pc[r] = "write"
    BY <1>4 DEF CaseCall, TaskCall, FileCall, ObservableCall, TalkCall, PatchCase, BulkPatchCases,
       DeleteCase, CreateTask, ReorderTasks, PatchTask, BulkPatchTasks, DeleteTask, AddTaskLog,
       RegisterCaseAttachment, RegisterTaskAttachment, AvScanWebhook, SetAvScan, DeleteAttachment,
       CreateObservable, ImportObservables, AttachObservables, DetachObservable, DeleteObservable,
       CreateComment, PatchComment, DeleteComment, CreateLink, DeleteLink, GrantShare, RevokeShare,
       Of, UnfitCall, RefusedBody, UnwrittenBody, Unfit
  <2>2. Aimed(r)
    BY <1>1, <2>1 DEF Grounded
  <2>3. (Grown(r) /\ Effects(r)) \/ Calm
    BY <1>1, <1>4, <2>2, WriteSteps
  <2> QED
    BY <1>1, <2>3, CalmKeeps, CommitExplains DEF IInv
<1> QED
  BY <1>2, <1>3, <1>4 DEF Next

(* The inductive invariant, for any number of requests, cases, rows and    *)
(* users: the rows and the history agree, and each effect that is gone was *)
(* undone by a commit that the history names.                              *)
THEOREM Invariance == Spec => []IInv
<1>1. Init => IInv
  BY InitIInv
<1>2. IInv /\ [Next]_vars => IInv'
  BY NextIInv
<1> QED
  BY <1>1, <1>2, PTL DEF Spec

(* Whatever is deleted or added at the same time, logs and files are of a  *)
(* task that exists (delete_task, add_task_log, register_task_attachment   *)
(* and the foreign keys between their rows).                               *)
THEOREM NoOrphans == Spec => []ReferencesHold
<1>1. IInv => ReferencesHold
  BY DEF IInv, CoreInv, RowsInv
<1> QED
  BY <1>1, Invariance, PTL

(* However many calls run at once, a task, file, observable, comment,      *)
(* share or link joins a deleted case only if its call found the case      *)
(* before it was deleted (_load_case, _load_case_or_404, delete_case).     *)
THEOREM DeletedCasesGrowOld == Spec => []NothingJoinsADeletedCase
<1>1. IInv => NothingJoinsADeletedCase
  BY DEF IInv, CoreInv, JoinersFoundTheCase, NothingJoinsADeletedCase, Before, Done
<1> QED
  BY <1>1, Invariance, PTL

(* However grants, revocations and comments are ordered, who comments      *)
(* through the portal was granted to before, and not revoked before the    *)
(* share was checked (_verify_share, grant_share, revoke_share).           *)
THEOREM GuestsAreInvited == Spec => []OutsidersAreInvited
<1>1. IInv => OutsidersAreInvited
  BY DEF IInv, CoreInv, GuestsFoundTheShare, OutsidersAreInvited, Done
<1> QED
  BY <1>1, Invariance, PTL

(* However many patches of a case run at once, it is closed without an end *)
(* date only if a call cleared the date after the case was closed, or      *)
(* while the call that closed it still believed the date it had read       *)
(* (patch_case, bulk_patch_cases).                                         *)
THEOREM ClosingDates == Spec => []ClosedIsDated
<1>1. IInv => ClosedIsDated
  BY DatesHold DEF IInv, Grounded, Explained
<1> QED
  BY <1>1, Invariance, PTL

(* However many scanners and people judge a file, it is infected and not   *)
(* quarantined only if a person called it infected after all scanners did, *)
(* or if an infected and a clean verdict overlapped (av_scan_webhook,      *)
(* set_av_scan).                                                           *)
THEOREM InfectedStaysIn == Spec => []InfectedIsQuarantined
<1>1. IInv => InfectedIsQuarantined
  BY VerdictsHold DEF IInv, Grounded, Explained
<1> QED
  BY <1>1, Invariance, PTL

(* For a list of any length, with repetitions and with tasks of other      *)
(* cases, a reorder that no other writer of an index overtook or followed  *)
(* leaves the tasks in the order of the list (reorder_tasks).              *)
THEOREM OrderIsKept == Spec => []ReorderIsKept
<1>1. IInv => ReorderIsKept
  BY OrderHolds DEF IInv, Explained
<1> QED
  BY <1>1, Invariance, PTL

(* For any limit on the ids in a record: the audit log says where each     *)
(* observable is, and takes it only from the case it put it in or while    *)
(* it was moved, unless it was in a list longer than the limit             *)
(* (attach_observables_to_case, detach_observable_from_case,               *)
(* import_observables_csv).                                                *)
THEOREM AuditIsTrue == Spec => []PlacementFollowsAudit
<1>1. IInv => PlacementFollowsAudit
  BY DEF IInv, Explained
<1> QED
  BY <1>1, Invariance, PTL

(* However many imports run, and whatever the columns cut of values: when  *)
(* two of them leave the same observable in one case, neither moved nor    *)
(* deleted, they overlapped, or the value of the later one is longer than  *)
(* its column (import_observables_csv).                                    *)
THEOREM NoRepeatedImports == Spec => []ImportsDoNotRepeat
<1>1. IInv => ImportsDoNotRepeat
  BY ImportsHold DEF IInv, Explained
<1> QED
  BY <1>1, Invariance, PTL

(* Every 500 and 409 has its reason: a row that was deleted while the call *)
(* was under way, a task in use, two files under one key, a link or share  *)
(* that was made before (the foreign and unique keys, StaleDataError and   *)
(* scalar_one_or_none), or, for a 500, a body that does not fit.           *)
THEOREM ErrorsExplained == Spec => []ErrorsHaveReasons
<1>1. IInv => ErrorsHaveReasons
  BY DEF IInv, Explained
<1> QED
  BY <1>1, Invariance, PTL
=============================================================================
