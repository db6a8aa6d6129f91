----------------------------- MODULE MCCaseWork -----------------------------
(* Small instances of CaseWork for TLC.                                    *)
EXTENDS CaseWork, TLC

CONSTANTS c1, c2, t1, t2, t3, f1, o1, o2, u1, u2, k1, k2, v1, v2, vLong, r1, r2, r3

MCStored == (v1 :> v1) @@ (v2 :> v2) @@ (vLong :> v1)
MCFirstIndex == (t1 :> 0) @@ (t2 :> 1) @@ (t3 :> 2)

PatchTo(stage, date) == [op |-> "patchCase", case |-> c1, stage |-> stage, date |-> date, fits |-> TRUE]
BulkTo(stage, date) == [op |-> "bulkPatchCases", ids |-> {c1, c2}, stage |-> stage, date |-> date, fits |-> TRUE]
Unfitted(c) == [c EXCEPT !.fits = FALSE]
CaseCalls ==
  {PatchTo("closed", "same"), PatchTo("open", "same"), PatchTo("in_progress", "clear"),
   PatchTo("same", "clear"), PatchTo("same", "set"), PatchTo("closed", "set"),
   BulkTo("closed", "same"), BulkTo("in_progress", "same"), BulkTo("same", "clear"),
   Unfitted(PatchTo("closed", "same")), Unfitted(BulkTo("closed", "same")),
   [op |-> "deleteCase", case |-> c1]}

OnTask(op, t) == [op |-> op, id |-> t]
ListOf(list) == [op |-> "reorder", case |-> c1, list |-> list]
Indexed(t, i) == [op |-> "patchTask", id |-> t, index |-> i, fits |-> TRUE]
BulkIndexed(S) == [op |-> "bulkPatchTasks", ids |-> S, index |-> 2, fits |-> TRUE]
OrderCalls ==
  {ListOf(<<t3, t1, t2>>), ListOf(<<t1, t3, t2>>), ListOf(<<t1, t2, t1>>), ListOf(<<t2, t3>>),
   Indexed(t1, 1), BulkIndexed({t1, t3}), OnTask("deleteTask", t1),
   [op |-> "createTask", case |-> c1, index |-> 1, fits |-> TRUE]}
TaskCalls ==
  {Unfitted(Indexed(t1, 1)), Unfitted(BulkIndexed({t1, t3})), OnTask("deleteTask", t1),
   OnTask("deleteTask", t3), BulkIndexed({t1, t3}),
   [op |-> "createTask", case |-> c1, index |-> 1, fits |-> FALSE]}

RegisterUnder(t, q) == [op |-> "registerTaskFile", id |-> t, key |-> k2, quarantined |-> q,
                          fits |-> TRUE]
RegisterIn(c, k) == [op |-> "registerFile", case |-> c, key |-> k, quarantined |-> TRUE,
                      fits |-> TRUE]
AddLog(fits) == [op |-> "addLog", id |-> t1, fits |-> fits]
ReferenceCalls ==
  {AddLog(TRUE), AddLog(FALSE), RegisterUnder(t1, FALSE), Unfitted(RegisterUnder(t1, FALSE)),
   OnTask("deleteTask", t1), Indexed(t1, 2),
   [op |-> "deleteFile", id |-> r1], [op |-> "deleteCase", case |-> c1], RegisterIn(c1, k2)}

Scan(op, verdict) == [op |-> op, id |-> f1, av |-> verdict]
FileCalls ==
  {Scan(op, v) : op \in {"verdict", "scan"}, v \in {"clean", "infected"}}
    \cup {[op |-> "verdictByKey", key |-> k1, av |-> "infected", fits |-> fits] : fits \in BOOLEAN}
    \cup {Scan("scan", "skipped"), RegisterIn(c1, k1), Unfitted(RegisterIn(c1, k1)),
          [op |-> "deleteFile", id |-> f1]}

Import(c, v) == [op |-> "import", case |-> c, value |-> v, fits |-> TRUE]
Create(v, fits) == [op |-> "createObservable", value |-> v, fits |-> fits]
Attach(S, c) == [op |-> "attach", ids |-> S, case |-> c]
Detach(o, c) == [op |-> "detach", id |-> o, case |-> c]
ObservableCalls ==
  {Import(c1, v1), Import(c1, v2), Attach({o1}, c1), Attach({o1}, c2),
   Attach({o1, o2}, c1), Attach({r1}, c2), Detach(o1, c1), Detach(o1, c2), Detach(r1, c1),
   [op |-> "deleteObservable", id |-> o1], [op |-> "deleteObservable", id |-> r1],
   [op |-> "deleteCase", case |-> c1]}

ImportCalls ==
  {Import(c1, v1), Import(c1, vLong), Unfitted(Import(c1, v1)), Import(Null, v2),
   Create(v2, TRUE), Create(vLong, FALSE), Attach({r1}, c2),
   [op |-> "deleteObservable", id |-> r1], Detach(r1, c1)}

MCFirstShares == {<<c2, u2>>}
Say(op, u, fits) == [op |-> op, case |-> c1, user |-> u, fits |-> fits]
Edit(u, fits) == [op |-> "patchComment", id |-> r1, user |-> u, fits |-> fits]
TalkCalls ==
  {Say("comment", u1, TRUE), Say("comment", u1, FALSE), Edit(u1, TRUE), Edit(u1, FALSE),
   Edit(u2, TRUE), [op |-> "deleteComment", id |-> r1, user |-> u1], [op |-> "deleteCase", case |-> c1]}
Grant(c, may) == [op |-> "grant", case |-> c, user |-> u2, may |-> may]
Revoke(c) == [op |-> "revoke", case |-> c, user |-> u2]
Guest(c, fits) == [op |-> "portalComment", case |-> c, user |-> u2, fits |-> fits]
ShareCalls ==
  {Grant(c1, TRUE), Grant(c1, FALSE), Grant(c2, TRUE), Revoke(c1), Revoke(c2),
   Guest(c1, TRUE), Guest(c2, TRUE), Guest(c2, FALSE)}
    \cup {[op |-> "deleteCase", case |-> c1]}
Link(c, d, fits) == [op |-> "link", case |-> c, id |-> d, fits |-> fits]
LinkCalls ==
  {Link(c1, c2, TRUE), Link(c2, c1, TRUE), Link(c1, c2, FALSE),
   [op |-> "unlink", id |-> r1], [op |-> "deleteCase", case |-> c1]}

MCTraffic == {CaseCalls, OrderCalls, TaskCalls, ReferenceCalls, FileCalls, ObservableCalls,
              ImportCalls, TalkCalls, ShareCalls, LinkCalls}

(* The calls name r1 alone: the other two requests are interchangeable.    *)
MCSymmetry == Permutations({r2, r3})
=============================================================================
