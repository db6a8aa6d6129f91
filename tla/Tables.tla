------------------------------- MODULE Tables -------------------------------
(***************************************************************************)
(* The tables behind the API and the life of a request to it, for the      *)
(* modules Accounts, Library, Views and Indexer, which BackOffice puts     *)
(* together.                                                               *)
(*                                                                         *)
(* A row keeps what handlers and queries tell apart:                       *)
(*   table, org    its table and its organization_id                       *)
(*   under         the row it belongs to: the case of a task, the user of  *)
(*                 a membership                                            *)
(*   name          what is unique about it, or what it refers to           *)
(*   state         the column that handlers change: a status, a text       *)
(*   gone          deleted_at is set                                       *)
(*   at            updated_at, the start of the transaction that wrote it  *)
(*   by            its author, owner or assignee                           *)
(* A request that writes reads the rows it is about, and later sends what  *)
(* it changed and commits; others may commit in between.  One that only    *)
(* reads takes a step for every statement, each on the rows committed by   *)
(* then (READ COMMITTED).                                                  *)
(***************************************************************************)
EXTENDS Naturals, Sequences, FiniteSets

CONSTANTS Requests,     \* HTTP requests, each sent once
          First,        \* rows there are at the start
          FirstRow,     \* what is in them
          Names,        \* emails, slugs, techniques, tags
          States,       \* what can be in the column that handlers change
          MaxRows,      \* bound: rows that one request inserts
          MaxNumber,    \* bound: the number of a case
          Start,        \* the time at which the first request begins
          Traffic,      \* bound: the calls that are made together, one by a request
          Null          \* no row, no value

VARIABLES db,       \* the committed rows
          call,     \* what a request asks
          pc,       \* where it is, or what it was answered
          seen,     \* the rows as it read them
          answer,   \* what its statements returned, one by one
          began,    \* when it read, now() in its transaction
          ended,    \* when it committed, or gave up its import; 0: neither
          clock     \* the time

tableVars == <<db, call, pc, seen, answer, began, ended, clock>>

(* Rows that r inserts are <<r, 1>>, <<r, 2>> and so on.                   *)
Ids == First \cup (Requests \X (1..MaxRows))
ASSUME IdsAssumption ==
  /\ MaxRows \in Nat \ {0, 1} /\ MaxNumber \in Nat /\ Start \in Nat \ {0}
  /\ Null \notin Ids \cup Requests /\ First \cap (Requests \X (1..MaxRows)) = {}
  /\ Requests \cap Ids = {} /\ IsFiniteSet(First) /\ IsFiniteSet(Requests)

(* The unique constraints, as columns of the rows.                         *)
UniqueOn ==
  [user |-> {"name"}, organization |-> {"name"}, profile |-> {"org", "name"},
   member |-> {"under", "org"}, mfa |-> {"under"}, sharing |-> {"org", "name"},
   kb |-> {"org", "name"}, template |-> {"org", "name"}, taxonomy |-> {"org", "name"},
   technique |-> {"name"}, case_ttp |-> {"under", "name"}, case_page |-> {"under", "name"},
   case |-> {"org", "name"}]
TableNames ==
  DOMAIN UniqueOn \cup {"api_key", "comment", "log", "ai_call", "audit", "task", "alert",
    "observable", "file", "share", "rule", "endpoint", "delivery", "link"}
Numbers == {"number"} \X (1..MaxNumber)     \* of cases
Row ==
  [table : TableNames, org : Ids \cup {Null}, under : Ids \cup {Null},
   name : Ids \cup Names \cup Requests \cup Numbers \cup {Null},
   state : States \cup Requests, gone : BOOLEAN, at : Nat, by : Ids \cup {Null}]
SameKey(a, b) ==
  /\ a.table = b.table /\ a.table \in DOMAIN UniqueOn
  /\ \A column \in UniqueOn[a.table] : a[column] = b[column]
ForeignKeys(row) ==
  {row.org, row.under, row.by} \cup (IF row.table \in {"member", "sharing"} THEN {row.name} ELSE {})
ASSUME FirstAssumption ==
  /\ Null \notin Row /\ FirstRow \in [First -> Row]
  /\ \A x, y \in First : x # y => ~SameKey(FirstRow[x], FirstRow[y])
  /\ \A x \in First : ForeignKeys(FirstRow[x]) \subseteq First \cup {Null}
  /\ \A x \in First : FirstRow[x].at < Start
Orgs == {x \in First : FirstRow[x].table = "organization"}
Callers == {x \in First : FirstRow[x].table = "user"}

Init ==
  /\ db = [x \in Ids |-> IF x \in First THEN FirstRow[x] ELSE Null]
  /\ call \in Traffic
  /\ pc = [r \in Requests |-> IF call[r].op = "none" THEN "idle" ELSE "read"]
  /\ seen = [r \in Requests |-> db]
  /\ answer = [r \in Requests |-> <<>>]
  /\ began = [r \in Requests |-> 0] /\ ended = [r \in Requests |-> 0]
  /\ clock = Start

-----------------------------------------------------------------------------
(* A request that writes reads what it is about, and then acts on it.  One *)
(* that does not has a limit on what it lists.                             *)
IsQuery(r) == "limit" \in DOMAIN call[r]
Begin(r) == began' = [began EXCEPT ![r] = clock] /\ clock' = clock + 1
Read(r) ==
  /\ pc[r] = "read" /\ ~IsQuery(r)
  /\ Begin(r)
  /\ seen' = [seen EXCEPT ![r] = db]
  /\ pc' = [pc EXCEPT ![r] = "write"]
  /\ UNCHANGED <<db, call, answer, ended>>

Of(r, op) == pc[r] = "write" /\ call[r].op = op

(* What fits can be put into the columns: it is not null where a column    *)
(* must have a value, no longer than its column, no user who is not there, *)
(* and no text that the driver does not send (one with a NUL).  Few        *)
(* handlers ask; the others find out when the database refuses.            *)
Fits(c) == "fits" \in DOMAIN c => c.fits
Refuse(r, code) ==
  pc' = [pc EXCEPT ![r] = code] /\ UNCHANGED <<db, call, seen, answer, began, ended, clock>>
Commit(r, rows) ==
  /\ db' = rows
  /\ pc' = [pc EXCEPT ![r] = "200"]
  /\ ended' = [ended EXCEPT ![r] = clock] /\ clock' = clock + 1
  /\ UNCHANGED <<call, seen, answer, began>>

(* A transaction that others have waited for is undone.                    *)
GiveUp(r) ==
  /\ pc' = [pc EXCEPT ![r] = "500"]
  /\ ended' = [ended EXCEPT ![r] = clock] /\ clock' = clock + 1
  /\ UNCHANGED <<db, call, seen, answer, began>>

(* What r found when it read.                                              *)
Sees(r, x, table) == seen[r][x] # Null /\ seen[r][x].table = table
SeesOwn(r, x, table) == Sees(r, x, table) /\ seen[r][x].org = call[r].org
SeesCase(r) == SeesOwn(r, call[r].under, "case") /\ ~seen[r][call[r].under].gone

-----------------------------------------------------------------------------
(* A transaction in which rows fail is undone.  The rows that it had        *)
(* inserted by then are its answers since the last failure; who inserts    *)
(* one of them too waits until it ends.                                    *)
Sole(r, table, org, under, name, state, by) ==
  [table |-> table, org |-> org, under |-> under, name |-> name, state |-> state,
   gone |-> FALSE, at |-> began[r], by |-> by]
Staged(r) ==
  {k \in 1..Len(answer[r]) : \A j \in k..Len(answer[r]) : answer[r][j] = {<<r, j>>}}
Entry(r, k) == Sole(r, "taxonomy", call[r].org, Null, call[r].tags[k], "", Null)
Waits(r, row) ==
  \E q \in Requests \ {r} : call[q].op = "importMisp" /\ pc[q] = "write"
    /\ \E k \in Staged(q) : SameKey(Entry(q, k), row)

With(new) == [x \in Ids |-> IF x \in DOMAIN new THEN new[x] ELSE db[x]]
Unlike(rows, x) == \A y \in Ids \ {x} : rows[y] # Null => ~SameKey(rows[x], rows[y])
NoDuplicates(rows) ==
  \A x \in Ids : rows[x] # Null /\ rows[x].table \in DOMAIN UniqueOn => Unlike(rows, x)
Refers(rows, x) == \A y \in ForeignKeys(rows[x]) : y = Null \/ (y \in Ids /\ rows[y] # Null)
References(rows) == \A x \in Ids : rows[x] # Null => Refers(rows, x)

(* INSERT: a row that a constraint refuses undoes the transaction, and so  *)
(* does one that does not fit, before the keys are looked at: handlers     *)
(* that catch the former (IntegrityError) do not catch the latter          *)
(* (DataError), nor a null or a foreign key in a patch.                    *)
Insert(r, new, clash) ==
  IF DOMAIN new # {} /\ ~Fits(call[r]) THEN Refuse(r, "500")
  ELSE /\ \A x \in DOMAIN new : ~Waits(r, new[x])
       /\ IF \A x \in DOMAIN new : Unlike(With(new), x) /\ Refers(With(new), x)
          THEN Commit(r, With(new)) ELSE Refuse(r, clash)
InsertOne(r, row, clash) == Insert(r, [x \in {<<r, 1>>} |-> row], clash)

(* UPDATE: the columns whose new value is not the one that was read, and   *)
(* updated_at (onupdate) of the tables whose updated_at is asked for.      *)
Sent(r, x, columns) == {c \in DOMAIN columns : seen[r][x][c] # columns[c]}
Stamped == {"case", "task", "observable", "comment", "kb", "template", "case_page", "alert", "rule"}
Column(r, x, columns, c) == IF c \in Sent(r, x, columns) THEN columns[c] ELSE db[x][c]
NotStamped(r, x, columns) == Column(r, x, columns, "at")
Stamp(r, x, columns) ==
  IF Sent(r, x, columns) # {} /\ "at" \notin DOMAIN columns /\ db[x].table \in Stamped
  THEN began[r] ELSE Column(r, x, columns, "at")
Updated(r, x, columns) ==
  [db[x] EXCEPT !.name = Column(r, x, columns, "name"), !.state = Column(r, x, columns, "state"),
                !.gone = Column(r, x, columns, "gone"), !.at = Stamp(r, x, columns)]
Update(r, x, columns) ==
  IF db[x] = Null /\ (Sent(r, x, columns) # {} \/ ~Fits(call[r])) THEN Refuse(r, "500")
  ELSE Insert(r, [y \in {z \in {x} : db[z] # Null} |-> Updated(r, y, columns)], "500")

(* DELETE, which a foreign key may refuse.                                 *)
Delete(r, x) ==
  IF \E y \in Ids \ {x} : db[y] # Null /\ x \in ForeignKeys(db[y]) THEN Refuse(r, "500")
  ELSE Commit(r, With([y \in {x} |-> Null]))
=============================================================================
